-------------------------- MODULE AcquireSystemProofs --------------------------
(***************************************************************************)
(* acquire and acquire_timeout for any number of requests: the limiter is  *)
(* used as the limiter's own proofs assume, reservations span exactly what *)
(* may own a lock, and events tell the truth about ownership.              *)
(***************************************************************************)
EXTENDS AcquireSystem, WaiterLimiterProofs

(* The caller and its permit. *)
CallerInv(q) ==
  /\ stage[q] = "comparing" => caller[q] = "new"
  /\ caller[q] = "new" => stage[q] # "permitted"
  /\ caller[q] \in {"new", "spawning"} => worker[q] = "none"
  /\ worker[q] = "none" => caller[q] \in {"new", "spawning", "ended"}

(* The worker, the guard and the kernel's lock. *)
GuardInv(q) ==
  /\ worker[q] \in {"none", "opening", "asleep", "granted"} => guard[q] = "none"
  /\ worker[q] \in {"returning", "settling"} => guard[q] \in {"none", "worker"}
  /\ guard[q] = "worker" => worker[q] \in {"returning", "settling"}
  /\ guard[q] = "slot" => worker[q] = "published" /\ caller[q] \in {"waiting", "leaving"}
  /\ guard[q] = "caller" <=> caller[q] = "owner"
  /\ caller[q] = "owner" => worker[q] = "published"
  /\ guard[q] \notin {"none", "worker", "slot", "caller"} => caller[q] = "ended"
  /\ q \in locked <=> \/ worker[q] = "granted"
                      \/ guard[q] \in {"worker", "slot", "caller", "dropping"}

EventInv(q) ==
  /\ "Acquired" \in events[q] <=> guard[q] # "none"
  /\ "Released" \in events[q] <=> guard[q] = "released"
  /\ events[q] \cap {"TimedOut", "Cancelled"} # {} => caller[q] \in {"leaving", "ended"}

Local(q) == CallerInv(q) /\ GuardInv(q) /\ EventInv(q)

IInv == TypeOK /\ PermitsCounted /\ (\A q \in Request : Local(q)) /\ ReservationSpan

-----------------------------------------------------------------------------
(* What the requests do with the limiter. *)

LEMMA StepIsLimiterStep == [Next]_vars => [LimiterNext]_limiter
<1> SUFFICES ASSUME [Next]_vars PROVE [LimiterNext]_limiter
  OBVIOUS
<1>1. CASE UNCHANGED vars
  BY <1>1 DEF vars
<1>2. ASSUME NEW q \in Request, Acquire(q) PROVE LimiterNext
  BY <1>2 DEF Acquire, LimiterNext
<1>3. ASSUME NEW q \in Request, CallerStep(q) PROVE [LimiterNext]_limiter
  BY <1>3
  DEF CallerStep, TurnedAway, Admitted, TryAgain, Spawn, SpawnFails, Take, Detach, LimiterNext
<1>4. ASSUME NEW q \in Request, NEW why \in {"TimedOut", "Cancelled"}, GiveUp(q, why)
      PROVE  UNCHANGED limiter
  BY <1>4 DEF GiveUp
<1>5. ASSUME NEW q \in Request, WorkerStep(q) PROVE [LimiterNext]_limiter
  BY <1>5
  DEF WorkerStep, Open, KernelGrant, NativeError, ReturnGuard, ReturnPermit, Settle,
      LimiterNext
<1>6. ASSUME NEW q \in Request, GuardStep(q) PROVE UNCHANGED limiter
  BY <1>6 DEF GuardStep, Unlock, Unreserve, EmitReleased
<1>7. QED
  BY <1>1, <1>2, <1>3, <1>4, <1>5, <1>6 DEF Next

(* Requests use the limiter as it expects: one reserve each, and one drop of
   each permit, whether the spawn fails or the closure returns. *)
THEOREM RequestsUseLimiter == Spec => LimiterSpec
<1>1. Init => LimiterInit
  BY DEF Init
<1>2. QED
  BY <1>1, StepIsLimiterStep, PTL DEF Spec, LimiterSpec

(* The limiter counts the permits of requests that spawn, fail, time out
   and are dropped. *)
THEOREM PermitsCountedHolds == Spec => []PermitsCounted
  BY RequestsUseLimiter, LimiterCounts

(* Behind acquire, the limiter grants and refuses as whole-step permits do. *)
THEOREM RequestsImplementPermits == Spec => ImplementsPermits
  BY RequestsUseLimiter, LimiterImplementsPermits

-----------------------------------------------------------------------------
(* The inductive invariant. *)

LEMMA InitIInv == Init => IInv
<1> SUFFICES ASSUME Init PROVE IInv
  OBVIOUS
<1>1. LimiterTypeOK /\ PermitsCounted
  BY InitLimiterInv DEF Init, LimiterInv
<1>2. TypeOK
  BY <1>1 DEF Init, TypeOK, CallerPhase, WorkerPhase, GuardPhase
<1>3. ASSUME NEW q \in Request PROVE Local(q) /\ ~Claims(q)
  BY <1>3 DEF Init, LimiterInit, Local, CallerInv, GuardInv, EventInv, Claims
<1>4. ReservationSpan
  BY <1>3 DEF Init, ReservationSpan
<1>5. QED
  BY <1>1, <1>2, <1>3, <1>4 DEF IInv

LEMMA NextTypeOK == ASSUME IInv, [Next]_vars PROVE TypeOK'
<1>1. LimiterTypeOK'
  BY StepIsLimiterStep, NextLimiterInv DEF IInv, TypeOK, LimiterInv
<1> USE DEF IInv, TypeOK, CallerPhase, WorkerPhase, GuardPhase, CallerGoes, WorkerGoes,
            GuardGoes, Emit
<1>2. CASE UNCHANGED vars
  BY <1>1, <1>2 DEF vars
<1>3. ASSUME NEW q \in Request, Acquire(q) PROVE TypeOK'
  BY <1>1, <1>3 DEF Acquire
<1>4. ASSUME NEW q \in Request, CallerStep(q) PROVE TypeOK'
  <2>1. CASE TurnedAway(q) \/ Admitted(q) \/ TryAgain(q) \/ Spawn(q) \/ SpawnFails(q)
    BY <1>1, <2>1 DEF TurnedAway, Admitted, TryAgain, Spawn, SpawnFails
  <2>2. CASE Take(q) \/ Detach(q)
    BY <1>1, <2>2 DEF Take, Detach
  <2>3. QED
    BY <1>4, <2>1, <2>2 DEF CallerStep
<1>5. ASSUME NEW q \in Request, NEW why \in {"TimedOut", "Cancelled"}, GiveUp(q, why)
      PROVE  TypeOK'
  BY <1>1, <1>5 DEF GiveUp
<1>6. ASSUME NEW q \in Request, WorkerStep(q) PROVE TypeOK'
  <2>1. CASE Open(q) \/ NativeError(q)
    BY <1>1, <2>1, RequestsAssumption DEF Open, NativeError, RemoveReservation
  <2>2. CASE KernelGrant(q) \/ ReturnGuard(q) \/ ReturnPermit(q) \/ Settle(q)
    BY <1>1, <2>2 DEF KernelGrant, ReturnGuard, ReturnPermit, Settle
  <2>3. QED
    BY <1>6, <2>1, <2>2 DEF WorkerStep
<1>7. ASSUME NEW q \in Request, GuardStep(q) PROVE TypeOK'
  BY <1>1, <1>7 DEF GuardStep, Unlock, Unreserve, EmitReleased, RemoveReservation
<1>8. QED
  BY <1>2, <1>3, <1>4, <1>5, <1>6, <1>7 DEF Next

(* A step of one request leaves the others where they are. *)
LEMMA NextLocal == ASSUME IInv, [Next]_vars, NEW p \in Request PROVE Local(p)'
<1>1. TypeOK /\ Local(p) /\ \A q \in Request : Local(q)
  BY DEF IInv
<1> USE DEF TypeOK, LimiterTypeOK, CallerPhase, WorkerPhase, GuardPhase, CallerGoes, WorkerGoes, GuardGoes,
            Emit, Local, CallerInv, GuardInv, EventInv, limiter
<1>2. CASE UNCHANGED vars
  BY <1>1, <1>2 DEF vars
<1>3. ASSUME NEW q \in Request, Acquire(q) PROVE Local(p)'
  BY <1>1, <1>3 DEF Acquire, Load
<1>4. ASSUME NEW q \in Request, CallerStep(q) PROVE Local(p)'
  <2>1. CASE TurnedAway(q)
    BY <1>1, <2>1 DEF TurnedAway, Refuse
  <2>2. CASE Admitted(q)
    BY <1>1, <2>2 DEF Admitted, Exchange, Permit
  <2>3. CASE TryAgain(q)
    BY <1>1, <2>3 DEF TryAgain, ExchangeFails
  <2>4. CASE Spawn(q)
    BY <1>1, <2>4 DEF Spawn
  <2>5. CASE SpawnFails(q)
    BY <1>1, <2>5 DEF SpawnFails, DropPermit
  <2>6. CASE Take(q)
    BY <1>1, <2>6 DEF Take
  <2>7. CASE Detach(q)
    BY <1>1, <2>7 DEF Detach
  <2>8. QED
    BY <1>4, <2>1, <2>2, <2>3, <2>4, <2>5, <2>6, <2>7 DEF CallerStep
<1>5. ASSUME NEW q \in Request, NEW why \in {"TimedOut", "Cancelled"}, GiveUp(q, why)
      PROVE  Local(p)'
  BY <1>1, <1>5 DEF GiveUp
<1>6. ASSUME NEW q \in Request, WorkerStep(q) PROVE Local(p)'
  <2>1. CASE Open(q) \/ NativeError(q)
    BY <1>1, <2>1 DEF Open, NativeError
  <2>2. CASE KernelGrant(q)
    BY <1>1, <2>2 DEF KernelGrant
  <2>3. CASE ReturnGuard(q)
    BY <1>1, <2>3 DEF ReturnGuard
  <2>4. CASE ReturnPermit(q)
    BY <1>1, <2>4 DEF ReturnPermit, DropPermit
  <2>5. CASE Settle(q)
    BY <1>1, <2>5 DEF Settle
  <2>6. QED
    BY <1>6, <2>1, <2>2, <2>3, <2>4, <2>5 DEF WorkerStep
<1>7. ASSUME NEW q \in Request, GuardStep(q) PROVE Local(p)'
  <2>1. CASE Unlock(q)
    BY <1>1, <2>1 DEF Unlock
  <2>2. CASE Unreserve(q)
    BY <1>1, <2>2 DEF Unreserve
  <2>3. CASE EmitReleased(q)
    BY <1>1, <2>3 DEF EmitReleased
  <2>4. QED
    BY <1>7, <2>1, <2>2, <2>3 DEF GuardStep
<1>8. QED
  BY <1>2, <1>3, <1>4, <1>5, <1>6, <1>7 DEF Next

(* A step that changes neither the reservations nor who claims one. *)
LEMMA SpanKept ==
  ASSUME ReservationSpan, reserved' = reserved, \A q \in Request : Claims(q)' <=> Claims(q)
  PROVE  ReservationSpan'
  BY DEF ReservationSpan

(* A step that ends the claim of one request. *)
LEMMA SpanEnds ==
  ASSUME ReservationSpan, NEW q \in Request, RemoveReservation(q),
         q \in Rejects => Claims(q), ~Claims(q)',
         \A p \in Request \ {q} : Claims(p)' <=> Claims(p)
  PROVE  ReservationSpan'
<1>1. CASE q \in Rejects
  BY <1>1, RequestsAssumption DEF ReservationSpan, RemoveReservation
<1>2. CASE q \notin Rejects
  <2>1. ~Claims(q) /\ reserved' = reserved
    BY <1>2 DEF Claims, RemoveReservation
  <2>2. QED
    BY <2>1, SpanKept
<1>3. QED
  BY <1>1, <1>2

LEMMA NextReservationSpan == ASSUME IInv, [Next]_vars PROVE ReservationSpan'
<1>1. TypeOK /\ ReservationSpan /\ \A q \in Request : GuardInv(q)
  BY DEF IInv, Local
<1> USE DEF TypeOK, CallerPhase, WorkerPhase, GuardPhase, CallerGoes, WorkerGoes, GuardGoes,
            GuardInv
<1>2. CASE UNCHANGED vars
  BY <1>1, <1>2, SpanKept DEF vars, Claims
<1>3. ASSUME NEW q \in Request, Acquire(q) \/ CallerStep(q) PROVE ReservationSpan'
  <2>1. reserved' = reserved
    BY <1>3 DEF Acquire, CallerStep, TurnedAway, Admitted, TryAgain, Spawn, SpawnFails,
                Take, Detach
  <2>2. ASSUME NEW p \in Request PROVE Claims(p)' <=> Claims(p)
    <3>1. CASE Acquire(q) \/ TurnedAway(q) \/ Admitted(q) \/ TryAgain(q) \/ SpawnFails(q)
      <4>1. worker' = worker /\ guard' = guard
        BY <3>1 DEF Acquire, TurnedAway, Admitted, TryAgain, SpawnFails
      <4>2. QED
        BY <4>1 DEF Claims
    <3>2. CASE Spawn(q)
      <4>1. CallerInv(q)
        BY DEF IInv, Local
      <4>2. QED
        BY <1>1, <3>2, <4>1 DEF CallerInv, Spawn, Claims
    <3>3. CASE Take(q) \/ Detach(q)
      BY <1>1, <3>3 DEF Take, Detach, Claims
    <3>4. QED
      BY <1>3, <3>1, <3>2, <3>3 DEF CallerStep
  <2>3. QED
    BY <1>1, <2>1, <2>2, SpanKept
<1>4. ASSUME NEW q \in Request, NEW why \in {"TimedOut", "Cancelled"}, GiveUp(q, why)
      PROVE  ReservationSpan'
  BY <1>1, <1>4, SpanKept DEF GiveUp, Claims
<1>5. ASSUME NEW q \in Request, Open(q) PROVE ReservationSpan'
  <2>1. \A p \in Request \ {q} : Claims(p)' <=> Claims(p)
    BY <1>1, <1>5 DEF Open, Claims
  <2>2. ~Claims(q)
    BY <1>1, <1>5 DEF Open, Claims
  <2>3. CASE q \in Rejects /\ worker'[q] = "asleep"
    <3>1. /\ Claims(q)' /\ Wants[q] \notin reserved
          /\ reserved' = reserved \cup {Wants[q]}
      BY <1>1, <1>5, <2>3 DEF Open, Claims
    <3>2. QED
      BY <1>1, <2>1, <2>2, <3>1, RequestsAssumption DEF ReservationSpan
  <2>4. CASE ~(q \in Rejects /\ worker'[q] = "asleep")
    <3>1. ~Claims(q)' /\ reserved' = reserved
      BY <1>1, <1>5, <2>4 DEF Open, Claims
    <3>2. QED
      BY <1>1, <2>1, <2>2, <3>1, SpanKept
  <2>5. QED
    BY <2>3, <2>4
<1>6. ASSUME NEW q \in Request, NativeError(q) PROVE ReservationSpan'
  <2>1. RemoveReservation(q) /\ (q \in Rejects => Claims(q)) /\ ~Claims(q)'
    BY <1>1, <1>6 DEF NativeError, Claims
  <2>2. \A p \in Request \ {q} : Claims(p)' <=> Claims(p)
    BY <1>1, <1>6 DEF NativeError, Claims
  <2>3. QED
    BY <1>1, <2>1, <2>2, SpanEnds
<1>7. ASSUME NEW q \in Request,
             \/ KernelGrant(q) \/ ReturnGuard(q) \/ ReturnPermit(q) \/ Settle(q)
             \/ Unlock(q) \/ EmitReleased(q)
      PROVE  ReservationSpan'
  <2>1. reserved' = reserved
    BY <1>7 DEF KernelGrant, ReturnGuard, ReturnPermit, Settle, Unlock, EmitReleased
  <2>2. ASSUME NEW p \in Request PROVE Claims(p)' <=> Claims(p)
    <3>1. CASE KernelGrant(q) \/ ReturnGuard(q) \/ ReturnPermit(q)
      BY <1>1, <3>1 DEF KernelGrant, ReturnGuard, ReturnPermit, Claims
    <3>2. CASE Settle(q)
      BY <1>1, <3>2 DEF Settle, Claims
    <3>3. CASE Unlock(q) \/ EmitReleased(q)
      BY <1>1, <3>3 DEF Unlock, EmitReleased, Claims
    <3>4. QED
      BY <1>7, <3>1, <3>2, <3>3
  <2>3. QED
    BY <1>1, <2>1, <2>2, SpanKept
<1>8. ASSUME NEW q \in Request, Unreserve(q) PROVE ReservationSpan'
  <2>1. RemoveReservation(q) /\ (q \in Rejects => Claims(q)) /\ ~Claims(q)'
    BY <1>1, <1>8 DEF Unreserve, Claims
  <2>2. \A p \in Request \ {q} : Claims(p)' <=> Claims(p)
    BY <1>1, <1>8 DEF Unreserve, Claims
  <2>3. QED
    BY <1>1, <2>1, <2>2, SpanEnds
<1>9. QED
  BY <1>2, <1>3, <1>4, <1>5, <1>6, <1>7, <1>8 DEF Next, WorkerStep, GuardStep

LEMMA NextIInv == IInv /\ [Next]_vars => IInv'
<1> SUFFICES ASSUME IInv, [Next]_vars PROVE IInv'
  OBVIOUS
<1>1. PermitsCounted'
  BY StepIsLimiterStep, NextLimiterInv DEF IInv, TypeOK, LimiterInv
<1>2. QED
  BY <1>1, NextTypeOK, NextLocal, NextReservationSpan DEF IInv

(* The inductive invariant of the requests: types, what each phase of a
   request implies about its guard, events and lock, and reservations. *)
THEOREM IInvHolds == Spec => []IInv
  BY InitIInv, NextIInv, PTL DEF Spec

(* Every variable has its type: no path through acquire gives a permit back
   twice. *)
THEOREM TypeCorrect == Spec => []TypeOK
<1>1. IInv => TypeOK
  BY DEF IInv
<1>2. QED
  BY <1>1, IInvHolds, PTL

(* A reservation lasts from before the kernel wait to the end of the
   release, whatever the caller of acquire or acquire_timeout does. *)
THEOREM ReservationSpanHolds == Spec => []ReservationSpan
<1>1. IInv => ReservationSpan
  BY DEF IInv
<1>2. QED
  BY <1>1, IInvHolds, PTL

(* Acquired, Released, TimedOut and Cancelled tell who may own the lock. *)
THEOREM EventsTellOwnershipHolds == Spec => []EventsTellOwnership
<1>1. IInv => EventsTellOwnership
  <2> SUFFICES ASSUME IInv, NEW q \in Request
               PROVE  /\ "Acquired" \in events[q] /\ "Released" \notin events[q] =>
                            q \in locked \/ guard[q] \in {"unlocked", "unreserved"}
                      /\ "Released" \in events[q] => q \notin locked
                      /\ caller[q] = "owner" =>
                            /\ "Acquired" \in events[q]
                            /\ events[q] \cap {"TimedOut", "Cancelled"} = {}
    BY DEF EventsTellOwnership
  <2>1. guard[q] \in GuardPhase /\ GuardInv(q) /\ EventInv(q)
    BY DEF IInv, Local, TypeOK
  <2>2. QED
    BY <2>1 DEF GuardPhase, GuardInv, EventInv
<1>2. QED
  BY <1>1, IInvHolds, PTL
-----------------------------------------------------------------------------
(* The abstract exclusive lock. *)

LEMMA InitImplementsAbstract == Init => Abstract!Init
  BY DEF Init, Owned, Owns, Abstract!Init

(* Who owns by the phases of worker and guard is who has the kernel's lock. *)
Locks == [q \in Request |-> IF q \in locked THEN Wants[q] ELSE NoIdentity]

LEMMA LocksKept == locked' = locked => UNCHANGED Locks
  BY DEF Locks

LEMMA StepImplementsAbstract == IInv /\ [Next]_vars => [Abstract!Next]_Owned
<1> SUFFICES ASSUME IInv, [Next]_vars PROVE [Abstract!Next]_Owned
  OBVIOUS
<1>0. Owned = Locks /\ Owned' = Locks'
  <2>1. IInv'
    BY NextIInv
  <2>2. \A q \in Request : q \in locked <=> Owns(q)
    BY DEF IInv, Local, GuardInv, Owns
  <2>3. \A q \in Request : q \in locked' <=> Owns(q)'
    BY <2>1 DEF IInv, Local, GuardInv, Owns
  <2>4. QED
    BY <2>2, <2>3 DEF Owned, Locks
<1>1. TypeOK /\ \A q \in Request : GuardInv(q)
  BY DEF IInv, Local
<1>2. CASE UNCHANGED vars
  BY <1>0, <1>2, LocksKept DEF vars
<1>3. ASSUME NEW q \in Request, NEW why \in {"TimedOut", "Cancelled"},
             Acquire(q) \/ CallerStep(q) \/ GiveUp(q, why)
      PROVE  UNCHANGED Owned
  BY <1>0, <1>3, LocksKept
  DEF Acquire, CallerStep, TurnedAway, Admitted, TryAgain, Spawn, SpawnFails, Take, Detach, GiveUp
<1>4. ASSUME NEW q \in Request,
             \/ Open(q) \/ NativeError(q) \/ ReturnGuard(q) \/ ReturnPermit(q) \/ Settle(q)
             \/ Unreserve(q) \/ EmitReleased(q)
      PROVE  UNCHANGED Owned
  BY <1>0, <1>4, LocksKept
  DEF Open, NativeError, ReturnGuard, ReturnPermit, Settle, Unreserve, EmitReleased
<1>5. ASSUME NEW q \in Request, KernelGrant(q) PROVE Abstract!Take(q, Wants[q])
  <2>1. q \notin locked
    BY <1>1, <1>5 DEF KernelGrant, GuardInv
  <2>2. \A d \in Request : Locks[d] # Wants[q]
    BY <1>5, RequestsAssumption DEF KernelGrant, Locks
  <2>3. Locks' = [Locks EXCEPT ![q] = Wants[q]]
    BY <1>5 DEF KernelGrant, Locks
  <2>4. Locks[q] = NoIdentity
    BY <2>1 DEF Locks
  <2>5. QED
    BY <1>0, <2>2, <2>3, <2>4 DEF Abstract!Take
<1>6. ASSUME NEW q \in Request, Unlock(q) PROVE Abstract!GiveBack(q)
  <2>1. q \in locked
    BY <1>1, <1>6 DEF Unlock, GuardInv
  <2>2. Locks[q] # NoIdentity
    BY <2>1, RequestsAssumption DEF Locks
  <2>3. Locks' = [Locks EXCEPT ![q] = NoIdentity]
    BY <1>6 DEF Unlock, Locks
  <2>4. QED
    BY <1>0, <2>2, <2>3 DEF Abstract!GiveBack
<1>7. ASSUME NEW q \in Request PROVE Wants[q] \in Identity
  BY RequestsAssumption
<1>8. QED
  BY <1>2, <1>3, <1>4, <1>5, <1>6, <1>7
  DEF Next, WorkerStep, GuardStep, Abstract!Next

(* Whatever their callers do, requests that go through acquire and
   acquire_timeout own identities as clients of the abstract exclusive lock,
   ownership being what workers and guards have, not what the kernel's table
   says: no timeout, drop or late settling leaves a guard to be handed over
   or dropped whose lock is already somebody else's. *)
THEOREM RequestsImplementExclusiveLock == Spec => ImplementsExclusiveLock
  BY IInvHolds, InitImplementsAbstract, StepImplementsAbstract, PTL
  DEF Spec, ImplementsExclusiveLock, Abstract!Spec

-----------------------------------------------------------------------------
(* Who owns a guard. *)

(* One owner per identity, as the callers see it: a guard that some caller,
   worker or waiter still has is the only one of its identity. *)
OneGuardPerIdentity ==
  \A p, q \in Request :
     /\ guard[p] \in {"worker", "slot", "caller", "dropping"}
     /\ guard[q] \in {"worker", "slot", "caller", "dropping"}
     /\ Wants[p] = Wants[q]
     => p = q

OneLockPerIdentity == \A p, q \in locked : Wants[p] = Wants[q] => p = q

LEMMA NextOneLock == IInv /\ OneLockPerIdentity /\ [Next]_vars => OneLockPerIdentity'
<1> SUFFICES ASSUME IInv, OneLockPerIdentity, [Next]_vars PROVE OneLockPerIdentity'
  OBVIOUS
<1>1. ASSUME NEW q \in Request, KernelGrant(q) PROVE OneLockPerIdentity'
  BY <1>1 DEF KernelGrant, OneLockPerIdentity
<1>2. ASSUME locked' \subseteq locked PROVE OneLockPerIdentity'
  BY <1>2 DEF OneLockPerIdentity
<1>3. (\E q \in Request : KernelGrant(q)) \/ locked' \subseteq locked
  BY DEF vars, Next, Acquire, CallerStep, TurnedAway, Admitted, TryAgain, Spawn, SpawnFails, Take,
         Detach, GiveUp, WorkerStep, Open, NativeError, ReturnGuard, ReturnPermit, Settle,
         GuardStep, Unlock, Unreserve, EmitReleased
<1>4. QED
  BY <1>1, <1>2, <1>3

(* One guard of an identity at a time, wherever between worker, waiter,
   caller and drop it is. *)
THEOREM OneGuardPerIdentityHolds == Spec => []OneGuardPerIdentity
<1>1. Init => OneLockPerIdentity
  BY DEF Init, OneLockPerIdentity
<1>2. IInv /\ OneLockPerIdentity => OneGuardPerIdentity
  BY DEF IInv, Local, GuardInv, OneLockPerIdentity, OneGuardPerIdentity
<1>3. QED
  BY <1>1, <1>2, IInvHolds, NextOneLock, PTL DEF Spec
-----------------------------------------------------------------------------
(* The handoff of each request's guard. *)

GivenUp(q) == events[q] \cap {"TimedOut", "Cancelled"} # {}

(* The guard as the abstract handoff sees it: it is released by the library
   in the step that unlocks it. *)
HandoffGuard(q) ==
  IF guard[q] = "none" THEN "none"
  ELSE IF guard[q] \in {"worker", "slot", "dropping"} THEN "held"
  ELSE IF GivenUp(q) THEN "released" ELSE "given"

Handoff(q) == INSTANCE WaiterHandoff WITH guard <- HandoffGuard(q), over <- GivenUp(q)

(* Who leaves has said so, and the library drops only such a caller's guard. *)
LeaveInv(q) ==
  /\ caller[q] = "leaving" => GivenUp(q)
  /\ guard[q] = "dropping" => GivenUp(q)
  /\ caller[q] = "ended" /\ worker[q] \notin {"none", "published"} => GivenUp(q)

LEMMA NextLeaveInv ==
  ASSUME IInv, [Next]_vars, NEW p \in Request, LeaveInv(p)
  PROVE  LeaveInv(p)'
<1>1. TypeOK /\ \A q \in Request : Local(q)
  BY DEF IInv
<1> USE DEF TypeOK, CallerPhase, WorkerPhase, GuardPhase, CallerGoes, WorkerGoes, GuardGoes,
            Emit, Local, CallerInv, GuardInv, LeaveInv, GivenUp
<1>2. CASE UNCHANGED vars
  BY <1>2 DEF vars
<1>3. ASSUME NEW q \in Request, Acquire(q) \/ CallerStep(q) PROVE LeaveInv(p)'
  <2>1. CASE Acquire(q) \/ TurnedAway(q) \/ Admitted(q) \/ TryAgain(q)
    BY <1>1, <2>1 DEF Acquire, TurnedAway, Admitted, TryAgain, Refuse
  <2>2. CASE Spawn(q) \/ SpawnFails(q)
    BY <1>1, <2>2 DEF Spawn, SpawnFails
  <2>3. CASE Take(q) \/ Detach(q)
    BY <1>1, <2>3 DEF Take, Detach
  <2>4. QED
    BY <1>3, <2>1, <2>2, <2>3 DEF CallerStep
<1>4. ASSUME NEW q \in Request, NEW why \in {"TimedOut", "Cancelled"}, GiveUp(q, why)
      PROVE  LeaveInv(p)'
  BY <1>1, <1>4 DEF GiveUp
<1>5. ASSUME NEW q \in Request, WorkerStep(q) PROVE LeaveInv(p)'
  <2>1. CASE Settle(q)
    BY <1>1, <2>1 DEF Settle
  <2>2. CASE ReturnGuard(q)
    BY <1>1, <2>2 DEF ReturnGuard
  <2>3. CASE Open(q) \/ KernelGrant(q) \/ NativeError(q) \/ ReturnPermit(q)
    BY <1>1, <2>3 DEF Open, KernelGrant, NativeError, ReturnPermit
  <2>4. QED
    BY <1>5, <2>1, <2>2, <2>3 DEF WorkerStep
<1>6. ASSUME NEW q \in Request, GuardStep(q) PROVE LeaveInv(p)'
  BY <1>1, <1>6 DEF GuardStep, Unlock, Unreserve, EmitReleased
<1>7. QED
  BY <1>2, <1>3, <1>4, <1>5, <1>6 DEF Next

(* A step that changes neither the guard nor the events of a request. *)
LEMMA HandoffKept ==
  ASSUME NEW p \in Request, guard'[p] = guard[p], events'[p] = events[p]
  PROVE  UNCHANGED <<HandoffGuard(p), GivenUp(p)>>
  BY DEF HandoffGuard, GivenUp

LEMMA StepImplementsHandoff ==
  ASSUME IInv, [Next]_vars, NEW p \in Request, LeaveInv(p)
  PROVE  [Handoff(p)!Next]_(Handoff(p)!vars)
<1>1. TypeOK /\ \A q \in Request : Local(q)
  BY DEF IInv
<1> USE DEF TypeOK, CallerPhase, WorkerPhase, GuardPhase, CallerGoes, WorkerGoes, GuardGoes, Emit
<1>2. ASSUME guard'[p] = guard[p], events'[p] = events[p] PROVE UNCHANGED Handoff(p)!vars
  BY <1>2, HandoffKept DEF Handoff!vars
<1>3. CASE UNCHANGED vars
  BY <1>2, <1>3 DEF vars
<1>4. ASSUME NEW q \in Request, q # p, Next,
             \/ Acquire(q) \/ CallerStep(q) \/ WorkerStep(q) \/ GuardStep(q)
             \/ \E why \in {"TimedOut", "Cancelled"} : GiveUp(q, why)
      PROVE  UNCHANGED Handoff(p)!vars
  BY <1>1, <1>2, <1>4
  DEF Acquire, CallerStep, TurnedAway, Admitted, TryAgain, Spawn, SpawnFails, Take, Detach, GiveUp,
      WorkerStep, Open, KernelGrant, NativeError, ReturnGuard, ReturnPermit, Settle,
      GuardStep, Unlock, Unreserve, EmitReleased
<1>5. CASE Acquire(p) \/ TurnedAway(p) \/ Admitted(p) \/ TryAgain(p) \/ Spawn(p) \/ SpawnFails(p)
  BY <1>2, <1>5 DEF Acquire, TurnedAway, Admitted, TryAgain, Spawn, SpawnFails
<1>6. CASE Open(p) \/ KernelGrant(p) \/ NativeError(p) \/ ReturnPermit(p)
  BY <1>2, <1>6 DEF Open, KernelGrant, NativeError, ReturnPermit
<1>7. ASSUME NEW why \in {"TimedOut", "Cancelled"}, GiveUp(p, why) PROVE Handoff(p)!GiveUp
  BY <1>1, <1>7 DEF GiveUp, Handoff!GiveUp, HandoffGuard, GivenUp, Local, GuardInv, EventInv
<1>8. CASE ReturnGuard(p)
  <2>1. Handoff(p)!Grant
    BY <1>1, <1>8 DEF ReturnGuard, Handoff!Grant, HandoffGuard, GivenUp, Local, GuardInv
  <2>2. QED
    BY <2>1 DEF Handoff!Next
<1>9. CASE Settle(p) \/ Detach(p)
  <2>1. UNCHANGED Handoff(p)!vars
    BY <1>1, <1>9 DEF Settle, Detach, Handoff!vars, HandoffGuard, GivenUp, Local, GuardInv
  <2>2. QED
    BY <2>1
<1>10. CASE Take(p)
  <2>1. CASE guard[p] = "slot"
    <3>1. Handoff(p)!Give
      BY <1>1, <1>10, <2>1 DEF Take, Handoff!Give, HandoffGuard, GivenUp, Local, EventInv
    <3>2. QED
      BY <3>1 DEF Handoff!Next
  <2>2. CASE guard[p] # "slot"
    BY <1>1, <1>2, <1>10, <2>2 DEF Take
  <2>3. QED
    BY <2>1, <2>2
<1>11. CASE Unlock(p)
  <2>1. CASE guard[p] = "dropping"
    <3>1. Handoff(p)!Release
      BY <1>1, <1>11, <2>1 DEF Unlock, Handoff!Release, HandoffGuard, GivenUp, LeaveInv
    <3>2. QED
      BY <3>1 DEF Handoff!Next
  <2>2. CASE guard[p] = "caller"
    <3>1. UNCHANGED Handoff(p)!vars
      BY <1>1, <1>11, <2>2
      DEF Unlock, Handoff!vars, HandoffGuard, GivenUp, Local, GuardInv, EventInv
    <3>2. QED
      BY <3>1
  <2>3. QED
    BY <1>11, <2>1, <2>2 DEF Unlock
<1>12. CASE Unreserve(p) \/ EmitReleased(p)
  <2>1. UNCHANGED Handoff(p)!vars
    BY <1>1, <1>12 DEF Unreserve, EmitReleased, Handoff!vars, HandoffGuard, GivenUp
  <2>2. QED
    BY <2>1
<1>13. QED
  BY <1>3, <1>4, <1>5, <1>6, <1>7, <1>8, <1>9, <1>10, <1>11, <1>12
  DEF Next, CallerStep, WorkerStep, GuardStep, Handoff!Next

(* The handoff of each request, its thread, waiter and guard together, is
   the one that a LockWaiter by itself is shown to make: the guard reaches a
   caller who has not given up, once, or the library unlocks it. *)
THEOREM RequestsHandOff == Spec => \A q \in Request : Handoff(q)!Safe
<1> SUFFICES ASSUME NEW q \in Request PROVE Spec => Handoff(q)!Safe
  OBVIOUS
<1>1. Init => LeaveInv(q)
  BY DEF Init, LeaveInv
<1>2. Init => Handoff(q)!Init
  BY DEF Init, Handoff!Init, HandoffGuard, GivenUp
<1>3. IInv /\ LeaveInv(q) /\ [Next]_vars => LeaveInv(q)'
  BY NextLeaveInv
<1>4. IInv /\ LeaveInv(q) /\ [Next]_vars => [Handoff(q)!Next]_(Handoff(q)!vars)
  BY StepImplementsHandoff
<1>5. QED
  BY <1>1, <1>2, <1>3, <1>4, IInvHolds, PTL DEF Spec, Handoff!Safe
-----------------------------------------------------------------------------
(* How far each request still has to go. *)

CallerRank(q) ==
  IF caller[q] = "new" THEN IF stage[q] = "comparing" THEN 5 ELSE 6
  ELSE IF caller[q] = "spawning" THEN 4
  ELSE IF caller[q] = "waiting" THEN 3
  ELSE IF caller[q] = "ended" THEN 1 ELSE 2

WorkerRank(q) ==
  IF worker[q] = "none" THEN 7
  ELSE IF worker[q] = "opening" THEN 6
  ELSE IF worker[q] = "asleep" THEN 5
  ELSE IF worker[q] = "granted" THEN 4
  ELSE IF worker[q] = "returning" THEN 3
  ELSE IF worker[q] = "settling" THEN 2 ELSE 1

GuardRank(q) ==
  IF guard[q] = "none" THEN 7
  ELSE IF guard[q] = "worker" THEN 6
  ELSE IF guard[q] = "slot" THEN 5
  ELSE IF guard[q] \in {"caller", "dropping"} THEN 4
  ELSE IF guard[q] = "unlocked" THEN 3
  ELSE IF guard[q] = "unreserved" THEN 2 ELSE 1

Rank(q) == CallerRank(q) + WorkerRank(q) + GuardRank(q)

(* Every step brings one request nearer to its end and leaves the others
   where they are, the retries of the compare-exchange loop alone excepted. *)
StepsCount ==
  [][\E q \in Request : /\ TryAgain(q) \/ Rank(q)' < Rank(q)
                        /\ \A p \in Request \ {q} : Rank(p)' = Rank(p)]_vars

LEMMA RankOfOthers ==
  ASSUME NEW p \in Request, caller'[p] = caller[p], stage'[p] = stage[p],
         worker'[p] = worker[p], guard'[p] = guard[p]
  PROVE  Rank(p)' = Rank(p)
  BY DEF Rank, CallerRank, WorkerRank, GuardRank

LEMMA StepCounts ==
  ASSUME IInv, Next
  PROVE  \E q \in Request : /\ TryAgain(q) \/ Rank(q)' < Rank(q)
                            /\ \A p \in Request \ {q} : Rank(p)' = Rank(p)
<1>1. TypeOK /\ \A q \in Request : Local(q)
  BY DEF IInv
<1> USE DEF TypeOK, LimiterTypeOK, CallerPhase, WorkerPhase, GuardPhase, CallerGoes, WorkerGoes,
            GuardGoes, limiter
<1> DEFINE Counts(q) == /\ TryAgain(q) \/ Rank(q)' < Rank(q)
                        /\ \A p \in Request \ {q} : Rank(p)' = Rank(p)
<1>2. ASSUME NEW q \in Request,
             \/ Acquire(q) \/ CallerStep(q) \/ WorkerStep(q) \/ GuardStep(q)
             \/ \E why \in {"TimedOut", "Cancelled"} : GiveUp(q, why)
      PROVE  \A p \in Request \ {q} : Rank(p)' = Rank(p)
  <2> SUFFICES ASSUME NEW p \in Request \ {q}
               PROVE  /\ caller'[p] = caller[p] /\ stage'[p] = stage[p]
                      /\ worker'[p] = worker[p] /\ guard'[p] = guard[p]
    BY RankOfOthers
  <2>1. CASE Acquire(q) \/ CallerStep(q)
    BY <1>1, <2>1
    DEF Acquire, Load, CallerStep, TurnedAway, Refuse, Admitted, Exchange, Permit, TryAgain,
        ExchangeFails, Spawn, SpawnFails, DropPermit, Take, Detach
  <2>2. CASE WorkerStep(q) \/ GuardStep(q)
    BY <1>1, <2>2
    DEF WorkerStep, Open, KernelGrant, NativeError, ReturnGuard, ReturnPermit, DropPermit,
        Settle, GuardStep, Unlock, Unreserve, EmitReleased
  <2>3. CASE \E why \in {"TimedOut", "Cancelled"} : GiveUp(q, why)
    BY <1>1, <2>3 DEF GiveUp
  <2>4. QED
    BY <1>2, <2>1, <2>2, <2>3
<1> USE DEF Rank, CallerRank, WorkerRank, GuardRank, Local, CallerInv, GuardInv
<1>3. ASSUME NEW q \in Request, Acquire(q) PROVE Rank(q)' < Rank(q)
  BY <1>1, <1>3 DEF Acquire, Load
<1>4. ASSUME NEW q \in Request, CallerStep(q) PROVE TryAgain(q) \/ Rank(q)' < Rank(q)
  <2>1. CASE TurnedAway(q) \/ Admitted(q)
    BY <1>1, <2>1 DEF TurnedAway, Refuse, Admitted, Exchange, Permit
  <2>2. CASE Spawn(q)
    BY <1>1, <2>2 DEF Spawn
  <2>3. CASE SpawnFails(q)
    BY <1>1, <2>3 DEF SpawnFails, DropPermit
  <2>4. CASE Take(q) \/ Detach(q)
    BY <1>1, <2>4 DEF Take, Detach
  <2>5. QED
    BY <1>4, <2>1, <2>2, <2>3, <2>4 DEF CallerStep
<1>5. ASSUME NEW q \in Request, NEW why \in {"TimedOut", "Cancelled"}, GiveUp(q, why)
      PROVE  Rank(q)' < Rank(q)
  BY <1>1, <1>5 DEF GiveUp
<1>6. ASSUME NEW q \in Request, WorkerStep(q) PROVE Rank(q)' < Rank(q)
  <2>1. CASE Open(q) \/ NativeError(q) \/ KernelGrant(q)
    BY <1>1, <2>1 DEF Open, NativeError, KernelGrant
  <2>2. CASE ReturnGuard(q)
    BY <1>1, <2>2 DEF ReturnGuard
  <2>3. CASE ReturnPermit(q)
    BY <1>1, <2>3 DEF ReturnPermit, DropPermit
  <2>4. CASE Settle(q)
    BY <1>1, <2>4 DEF Settle
  <2>5. QED
    BY <1>6, <2>1, <2>2, <2>3, <2>4 DEF WorkerStep
<1>7. ASSUME NEW q \in Request, GuardStep(q) PROVE Rank(q)' < Rank(q)
  BY <1>1, <1>7 DEF GuardStep, Unlock, Unreserve, EmitReleased
<1> HIDE DEF Rank, CallerRank, WorkerRank, GuardRank, Local, CallerInv, GuardInv
<1>8. QED
  BY <1>2, <1>3, <1>4, <1>5, <1>6, <1>7 DEF Next

(* A request takes finitely many steps, whoever gives up and whatever
   fails, apart from retries of its compare-exchange. *)
THEOREM StepsCountHolds == Spec => StepsCount
<1>1. IInv /\ [Next]_vars =>
         [\E q \in Request : /\ TryAgain(q) \/ Rank(q)' < Rank(q)
                             /\ \A p \in Request \ {q} : Rank(p)' = Rank(p)]_vars
  BY StepCounts
<1>2. QED
  BY <1>1, IInvHolds, PTL DEF Spec, StepsCount
-----------------------------------------------------------------------------
(* Nobody is stuck, and what is over stays over. *)

(* Whose permit is where, and who is gone. *)
PermitInv(q) ==
  /\ stage[q] = "permitted" <=>
        \/ caller[q] = "spawning"
        \/ worker[q] \in {"opening", "asleep", "granted", "returning"}
  /\ worker[q] = "gone" => caller[q] = "ended"

LEMMA NextPermitInv ==
  ASSUME IInv, [Next]_vars, NEW p \in Request, PermitInv(p)
  PROVE  PermitInv(p)'
<1>1. TypeOK /\ \A q \in Request : Local(q)
  BY DEF IInv
<1> USE DEF TypeOK, LimiterTypeOK, CallerPhase, WorkerPhase, GuardPhase, CallerGoes, WorkerGoes,
            GuardGoes, PermitInv, Local, CallerInv, GuardInv, limiter
<1>2. CASE UNCHANGED vars
  BY <1>2 DEF vars
<1>3. ASSUME NEW q \in Request, Acquire(q) \/ CallerStep(q) PROVE PermitInv(p)'
  <2>1. CASE Acquire(q) \/ TurnedAway(q)
    BY <1>1, <2>1 DEF Acquire, Load, TurnedAway, Refuse
  <2>2. CASE Admitted(q) \/ TryAgain(q)
    BY <1>1, <2>2 DEF Admitted, Exchange, Permit, TryAgain, ExchangeFails
  <2>3. CASE Spawn(q) \/ SpawnFails(q)
    BY <1>1, <2>3 DEF Spawn, SpawnFails, DropPermit
  <2>4. CASE Take(q) \/ Detach(q)
    BY <1>1, <2>4 DEF Take, Detach
  <2>5. QED
    BY <1>3, <2>1, <2>2, <2>3, <2>4 DEF CallerStep
<1>4. ASSUME NEW q \in Request, NEW why \in {"TimedOut", "Cancelled"}, GiveUp(q, why)
      PROVE  PermitInv(p)'
  BY <1>1, <1>4 DEF GiveUp
<1>5. ASSUME NEW q \in Request, WorkerStep(q) PROVE PermitInv(p)'
  <2>1. CASE Open(q) \/ KernelGrant(q) \/ NativeError(q) \/ ReturnGuard(q)
    BY <1>1, <2>1 DEF Open, KernelGrant, NativeError, ReturnGuard
  <2>2. CASE ReturnPermit(q)
    BY <1>1, <2>2 DEF ReturnPermit, DropPermit
  <2>3. CASE Settle(q)
    BY <1>1, <2>3 DEF Settle
  <2>4. QED
    BY <1>5, <2>1, <2>2, <2>3 DEF WorkerStep
<1>6. ASSUME NEW q \in Request, GuardStep(q) PROVE PermitInv(p)'
  BY <1>1, <1>6 DEF GuardStep, Unlock, Unreserve, EmitReleased
<1>7. QED
  BY <1>2, <1>3, <1>4, <1>5, <1>6 DEF Next

AllPermitInv == \A q \in Request : PermitInv(q)

LEMMA PermitInvHolds == Spec => []AllPermitInv
<1>1. Init => AllPermitInv
  BY DEF Init, LimiterInit, PermitInv, AllPermitInv
<1>2. IInv /\ AllPermitInv /\ [Next]_vars => AllPermitInv'
  BY NextPermitInv DEF AllPermitInv
<1>3. QED
  BY <1>1, <1>2, IInvHolds, PTL DEF Spec

Unfinished(q) ==
  \/ stage[q] = "comparing"
  \/ caller[q] \notin {"new", "ended"}
  \/ worker[q] \notin {"none", "published", "gone"}
  \/ guard[q] \notin {"none", "released"}

(* The guards of the steps that a request is sure to take.  Its wait in the
   kernel is not among them. *)
CanStep(q) ==
  \/ stage[q] = "comparing" /\ current[q] >= Limit              \* TurnedAway
  \/ stage[q] = "comparing" /\ current[q] < Limit               \* Admitted, TryAgain
  \/ caller[q] = "spawning"                                     \* Spawn
  \/ caller[q] = "waiting" /\ worker[q] = "published"           \* Take
  \/ caller[q] = "leaving"                                      \* Detach
  \/ worker[q] = "opening"                                      \* Open
  \/ worker[q] = "granted"                                      \* ReturnGuard
  \/ worker[q] = "returning" /\ stage[q] = "permitted"          \* ReturnPermit
  \/ worker[q] = "settling"                                     \* Settle
  \/ guard[q] \in {"caller", "dropping", "unlocked", "unreserved"}

CanBeGranted(q) == worker[q] = "asleep" /\ \A p \in locked : Wants[p] # Wants[q]

(* A request that is not over can go on; or it sleeps in the kernel, and
   either the kernel can grant it or the owner of its identity can go on,
   so that it waits for one request at most, which waits for nobody. *)
NeverStuck ==
  \A q \in Request : Unfinished(q) =>
     \/ CanStep(q)
     \/ CanBeGranted(q)
     \/ /\ worker[q] = "asleep"
        /\ \E p \in locked : Wants[p] = Wants[q] /\ p # q /\ CanStep(p)

(* No request is left in a state from which only others, or the failure of
   something, could take it. *)
THEOREM NeverStuckHolds == Spec => []NeverStuck
<1>1. IInv /\ AllPermitInv => NeverStuck
  <2> SUFFICES ASSUME IInv, AllPermitInv, NEW q \in Request, Unfinished(q),
                      ~CanStep(q), ~CanBeGranted(q)
               PROVE  /\ worker[q] = "asleep"
                      /\ \E p \in locked : Wants[p] = Wants[q] /\ p # q /\ CanStep(p)
    BY DEF NeverStuck
  <2>1. TypeOK /\ \A p \in Request : Local(p)
    BY DEF IInv
  <2> USE DEF TypeOK, LimiterTypeOK, CallerPhase, WorkerPhase, GuardPhase, Local, CallerInv,
              GuardInv, AllPermitInv, PermitInv, CanStep
  <2>2. worker[q] = "asleep"
    <3>1. stage[q] # "comparing"
      BY <2>1, LimiterAssumption
    <3>2. QED
      BY <2>1, <3>1 DEF Unfinished
  <2>3. PICK p \in locked : Wants[p] = Wants[q]
    BY <2>2 DEF CanBeGranted
  <2>4. p \in Request /\ p # q
    BY <2>1, <2>2, <2>3
  <2>5. CanStep(p)
    BY <2>1, <2>3, <2>4
  <2>6. QED
    BY <2>2, <2>3, <2>4, <2>5
<1>2. QED
  BY <1>1, PermitInvHolds, IInvHolds, PTL

(* What a request whose caller is gone owes, it owes once: neither lock nor
   reservation, permit nor event comes back. *)
OweNothingForGood ==
  [][\A q \in Request :
        caller[q] = "ended" /\ ~Owes(q) => caller'[q] = "ended" /\ ~Owes(q)']_vars

LEMMA StepOwesNothing ==
  ASSUME IInv, AllPermitInv, [Next]_vars, NEW p \in Request, caller[p] = "ended", ~Owes(p)
  PROVE  caller'[p] = "ended" /\ ~Owes(p)'
<1>1. TypeOK /\ (\A q \in Request : Local(q) /\ PermitInv(q)) /\ ~Claims(p)
  BY DEF IInv, AllPermitInv, Owes
<1>2. /\ worker[p] \in {"none", "settling", "published", "gone"}
      /\ guard[p] \in {"none", "unreserved", "released"}
      /\ guard[p] = "unreserved" => FALSE
  BY <1>1 DEF TypeOK, WorkerPhase, GuardPhase, Local, CallerInv, GuardInv, EventInv, PermitInv, Owes
<1>3. stage[p] = "idle"
  BY <1>1 DEF Owes, TypeOK, LimiterTypeOK, Local, CallerInv
<1> USE DEF TypeOK, LimiterTypeOK, CallerPhase, WorkerPhase, GuardPhase, CallerGoes, WorkerGoes,
            GuardGoes, Emit, Owes, Claims, limiter
<1>4. CASE UNCHANGED vars
  BY <1>4 DEF vars
<1>5. ASSUME NEW q \in Request, Acquire(q) \/ CallerStep(q) PROVE caller'[p] = "ended" /\ ~Owes(p)'
  <2>1. CASE Acquire(q) \/ TurnedAway(q) \/ Admitted(q) \/ TryAgain(q)
    BY <1>1, <1>2, <1>3, <2>1
    DEF Acquire, Load, TurnedAway, Refuse, Admitted, Exchange, Permit, TryAgain, ExchangeFails
  <2>2. CASE Spawn(q) \/ SpawnFails(q) \/ Take(q) \/ Detach(q)
    BY <1>1, <1>2, <1>3, <2>2 DEF Spawn, SpawnFails, DropPermit, Take, Detach
  <2>3. QED
    BY <1>5, <2>1, <2>2 DEF CallerStep
<1>6. ASSUME NEW q \in Request, NEW why \in {"TimedOut", "Cancelled"}, GiveUp(q, why)
      PROVE  caller'[p] = "ended" /\ ~Owes(p)'
  BY <1>1, <1>2, <1>3, <1>6 DEF GiveUp
<1>7. ASSUME NEW q \in Request, WorkerStep(q) PROVE caller'[p] = "ended" /\ ~Owes(p)'
  <2>1. CASE Open(q) \/ KernelGrant(q) \/ NativeError(q) \/ ReturnGuard(q)
    BY <1>1, <1>2, <1>3, <2>1 DEF Open, KernelGrant, NativeError, ReturnGuard
  <2>2. CASE ReturnPermit(q) \/ Settle(q)
    BY <1>1, <1>2, <1>3, <2>2 DEF ReturnPermit, DropPermit, Settle
  <2>3. QED
    BY <1>7, <2>1, <2>2 DEF WorkerStep
<1>8. ASSUME NEW q \in Request, GuardStep(q) PROVE caller'[p] = "ended" /\ ~Owes(p)'
  BY <1>1, <1>2, <1>3, <1>8 DEF GuardStep, Unlock, Unreserve, EmitReleased
<1>9. QED
  BY <1>4, <1>5, <1>6, <1>7, <1>8 DEF Next

(* A caller that has given up, and whose request has come to owe nothing,
   will never find that it owes something after all. *)
THEOREM OweNothingForGoodHolds == Spec => OweNothingForGood
<1>1. IInv /\ AllPermitInv /\ [Next]_vars =>
         [\A q \in Request :
             caller[q] = "ended" /\ ~Owes(q) => caller'[q] = "ended" /\ ~Owes(q)']_vars
  BY StepOwesNothing
<1>2. QED
  BY <1>1, IInvHolds, PermitInvHolds, PTL DEF Spec, OweNothingForGood
=============================================================================
