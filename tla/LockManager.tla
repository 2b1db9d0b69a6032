----------------------------- MODULE LockManager -----------------------------
(***************************************************************************)
(* The synchronous core of zed-lock (src/lib.rs): acquire_blocking,        *)
(* try_acquire and the release of a LockGuard, run by the threads of       *)
(* several processes over the operating system's descriptor locks.         *)
(*                                                                         *)
(* Three pieces of state decide whether an attempt proceeds:               *)
(*   - the kernel's table of exclusive descriptor locks (shared by all);   *)
(*   - reserved_in_process, one set of identities per manager;             *)
(*   - HELD_LOCK_ORDER, one vector per thread.                             *)
(* Each is updated at another point of an acquisition and of a release, and *)
(* a guard may change threads in between.  A call slot c follows one       *)
(* acquisition from its first line to the end of its guard's release.      *)
(***************************************************************************)
EXTENDS Integers, FiniteSets

CONSTANTS
  Call,             \* slots for acquisitions in progress and the guards they yield
  Thread,           \* operating-system threads of all processes
  Process,          \* operating-system processes
  Manager,          \* LockManager instances
  Identity,         \* canonical lock identities (one rendezvous file each)
  Requests,         \* the LockRequests the callers make
  ThreadProcess,    \* the process a thread belongs to
  ManagerProcess,   \* the process whose memory a manager lives in
  PathKey,          \* path_sort_key, as a position in the order of keys
  HandOver,         \* pairs <<t, u>>: thread t may move a guard to thread u
  SinkMayPanic,     \* whether the event sink may panic on an Acquired event
  MaxEntries,       \* bound on equal entries in one thread's HELD_LOCK_ORDER
  SlotReuse,        \* bound: FALSE makes every call slot serve one acquisition only
  NoThread,         \* thread of an idle call slot
  NoRequest,        \* request of an idle call slot
  NoIdentity        \* owned by a call without a lock

Policy == {"Reject", "Queue"}

RequestType == [mgr: Manager, id: Identity, rank: Nat, policy: Policy]

ASSUME ConstantsAssumption ==
  /\ Requests \subseteq RequestType
  /\ ThreadProcess \in [Thread -> Process]
  /\ ManagerProcess \in [Manager -> Process]
  /\ PathKey \in [Identity -> Nat]
  /\ HandOver \subseteq Thread \X Thread
  /\ SinkMayPanic \in BOOLEAN
  /\ MaxEntries \in Nat \ {0}
  /\ SlotReuse \in BOOLEAN
  /\ NoThread \notin Thread
  /\ NoRequest \notin Requests
  /\ NoIdentity \notin Identity

(***************************************************************************)
(* How far a call has come.                                                *)
(*   "blocking"   reserved; asleep in lock_exclusive                       *)
(*   "trying"     reserved; about to call try_lock_exclusive               *)
(*   "granted"    the descriptor is locked, the guard not yet returned     *)
(*   "refused"    the kernel said no; the reservation is still there       *)
(*   "held"       a LockGuard in the caller's hands                        *)
(*   "unlocked"   guard dropped, descriptor closed; still reserved         *)
(*   "done"       over, in a slot that is not used again                   *)
(***************************************************************************)
Phase == {"idle", "blocking", "trying", "granted", "refused", "held", "unlocked",
          "done"}

Inactive == {"idle", "done"}

Rest == IF SlotReuse THEN "idle" ELSE "done"

VARIABLES
  pc,               \* phase of each call
  thr,              \* the thread that runs the call, then the one that has its guard
  req,              \* the request of each call
  home,             \* the thread whose HELD_LOCK_ORDER got the guard's registration
  locked,           \* calls whose open descriptor has the kernel's exclusive lock
  reserved,         \* reserved_in_process of each manager
  order             \* HELD_LOCK_ORDER of each thread, as the number of equal entries

vars == <<pc, thr, req, home, locked, reserved, order>>

(***************************************************************************)
(* Entries of HELD_LOCK_ORDER and their order.  The vector is only asked   *)
(* for its greatest entry and for the last of some equal entries, so the   *)
(* number of equal entries is all that matters of it.                      *)
(***************************************************************************)
Entry(r) == <<r.rank, r.id>>

Entries == {Entry(r) : r \in Requests}

(* Mutant: without the path as a tie-break. *)
BeforeByClass(e, f) == e[1] < f[1]

Before(e, f) ==
  \/ e[1] < f[1]
  \/ e[1] = f[1] /\ PathKey[e[2]] < PathKey[f[2]]

(* Mutant: the order check compares classes and forgets the path. *)
OrderInversionOfClasses(t, r) ==
  \E e \in Entries : order[t][e] > 0 /\ r.rank < e[1]

(* check_lock_order: the candidate is below the greatest entry exactly when
   it is below some entry. *)
OrderInversion(t, r) == \E e \in Entries : order[t][e] > 0 /\ Before(Entry(r), e)

Register(t, e) == order' = [order EXCEPT ![t][e] = @ + 1]

(* Mutant: the drop takes an entry for granted. *)
UnregisterUnchecked(t, e) == order' = [order EXCEPT ![t][e] = @ - 1]

(* Mutant: the drop retains only the entries of other classes. *)
UnregisterClass(t, e) ==
  order' = [order EXCEPT ![t] = [f \in Entries |-> IF f[1] = e[1] THEN 0 ELSE @[f]]]

(* HeldOrderRegistration::drop works on the vector of the thread it runs on,
   and finds nothing there when the registration was made on another one. *)
Unregister(t, e) ==
  order' = [order EXCEPT ![t][e] = IF @ > 0 THEN @ - 1 ELSE @]

(***************************************************************************)
(* reserve_if_required and remove_reservation.  A Queue request reserves   *)
(* nothing and is never turned away here.                                  *)
(***************************************************************************)
AlreadyReserved(r) == r.policy = "Reject" /\ r.id \in reserved[r.mgr]

Reserve(r) ==
  reserved' = IF r.policy = "Reject"
              THEN [reserved EXCEPT ![r.mgr] = @ \cup {r.id}]
              ELSE reserved

RemoveReservation(r) ==
  reserved' = IF r.policy = "Reject"
              THEN [reserved EXCEPT ![r.mgr] = @ \ {r.id}]
              ELSE reserved

(***************************************************************************)
(* Threads.  A thread is inside at most one call at a time; a guard it     *)
(* merely holds does not keep it busy.                                     *)
(***************************************************************************)
Busy(t) == \E c \in Call : thr[c] = t /\ pc[c] \notin Inactive \cup {"held"}

KernelFree(i) == \A d \in locked : req[d].id # i

MayUse(t, r) == ManagerProcess[r.mgr] = ThreadProcess[t]

Goto(c, phase) == pc' = [pc EXCEPT ![c] = phase]

(* The call returns without a guard, or its guard is gone. *)
Finish(c) ==
  /\ Goto(c, Rest)
  /\ thr' = [thr EXCEPT ![c] = NoThread]
  /\ req' = [req EXCEPT ![c] = NoRequest]
  /\ home' = [home EXCEPT ![c] = NoThread]

Init ==
  /\ pc = [c \in Call |-> "idle"]
  /\ thr = [c \in Call |-> NoThread]
  /\ req = [c \in Call |-> NoRequest]
  /\ home = [c \in Call |-> NoThread]
  /\ locked = {}
  /\ reserved = [m \in Manager |-> {}]
  /\ order = [t \in Thread |-> [e \in Entries |-> 0]]

(***************************************************************************)
(* The start of acquire_blocking and of try_acquire: open the rendezvous   *)
(* file, check the order against the thread's own vector, reserve.  Only   *)
(* the reservation touches shared state, so the three are one step.  When  *)
(* one of them fails the call returns an error and nothing has changed.    *)
(***************************************************************************)
Start(c, t, r, phase) ==
  /\ pc[c] = "idle"
  /\ MayUse(t, r)
  /\ ~Busy(t)
  /\ ~OrderInversion(t, r)
  /\ ~AlreadyReserved(r)
  /\ order[t][Entry(r)] < MaxEntries            \* bound
  /\ Goto(c, phase)
  /\ thr' = [thr EXCEPT ![c] = t]
  /\ req' = [req EXCEPT ![c] = r]
  /\ Reserve(r)
  /\ UNCHANGED <<home, locked, order>>

AcquireBlocking(c, t, r) == Start(c, t, r, "blocking")

TryAcquire(c, t, r) == Start(c, t, r, "trying")

(* The kernel gives a waiting or trying descriptor the exclusive lock. *)
KernelGrant(c) ==
  /\ pc[c] \in {"blocking", "trying"}
  /\ KernelFree(req[c].id)
  /\ Goto(c, "granted")
  /\ locked' = locked \cup {c}
  /\ UNCHANGED <<thr, req, home, reserved, order>>

(* Mutant: contention is taken for success. *)
ContendedIsSuccess(c) ==
  /\ pc[c] = "trying"
  /\ ~KernelFree(req[c].id)
  /\ Goto(c, "granted")
  /\ locked' = locked \cup {c}
  /\ UNCHANGED <<thr, req, home, reserved, order>>

(* Either native call may report an error, and try_lock_exclusive reports
   contention instead of waiting (is_lock_contention).  Both take the same
   way out; only the event differs. *)
NativeError(c) ==
  /\ pc[c] \in {"blocking", "trying"}
  /\ Goto(c, "refused")
  /\ UNCHANGED <<thr, req, home, locked, reserved, order>>

Contended(c) ==
  /\ pc[c] = "trying"
  /\ ~KernelFree(req[c].id)
  /\ Goto(c, "refused")
  /\ UNCHANGED <<thr, req, home, locked, reserved, order>>

(* Mutant: an error path that keeps the reservation. *)
AbandonAttemptReserved(c) ==
  /\ pc[c] = "refused"
  /\ Finish(c)
  /\ UNCHANGED <<locked, reserved, order>>

(* The error paths after a refusal: the reservation goes, the call returns
   Ok(None) or an error. *)
AbandonAttempt(c) ==
  /\ pc[c] = "refused"
  /\ RemoveReservation(req[c])
  /\ Finish(c)
  /\ UNCHANGED <<locked, order>>

(* Mutant: the guard does not keep the file open. *)
ReturnGuardWithoutFile(c) ==
  /\ pc[c] = "granted"
  /\ Register(thr[c], Entry(req[c]))
  /\ home' = [home EXCEPT ![c] = thr[c]]
  /\ Goto(c, "held")
  /\ locked' = locked \ {c}
  /\ UNCHANGED <<thr, req, reserved>>

(* Mutant: no registration. *)
ReturnGuardUnregistered(c) ==
  /\ pc[c] = "granted"
  /\ home' = [home EXCEPT ![c] = thr[c]]
  /\ Goto(c, "held")
  /\ UNCHANGED <<thr, req, locked, reserved, order>>

(* Mutant: the reservation covers the wait only. *)
ReturnGuardUnreserved(c) ==
  /\ pc[c] = "granted"
  /\ Register(thr[c], Entry(req[c]))
  /\ home' = [home EXCEPT ![c] = thr[c]]
  /\ Goto(c, "held")
  /\ RemoveReservation(req[c])
  /\ UNCHANGED <<thr, req, locked>>

(* Registration on the calling thread, the Acquired event, the guard. *)
ReturnGuard(c) ==
  /\ pc[c] = "granted"
  /\ Register(thr[c], Entry(req[c]))
  /\ home' = [home EXCEPT ![c] = thr[c]]
  /\ Goto(c, "held")
  /\ UNCHANGED <<thr, req, locked, reserved>>

(* The sink panics on the Acquired event.  Unwinding drops the registration
   and the file, which closes the descriptor; the reservation is a plain
   PathBuf until the guard exists, and nothing removes it. *)
SinkPanic(c) ==
  /\ SinkMayPanic
  /\ pc[c] = "granted"
  /\ locked' = locked \ {c}
  /\ Finish(c)
  /\ UNCHANGED <<reserved, order>>

(* LockGuard is Send: a guard moves to another thread of its process, as it
   does when a waiter thread publishes it.  The first thread may be asleep
   meanwhile, if it left the guard where others find it. *)
MoveGuard(c, u) ==
  /\ pc[c] = "held"
  /\ <<thr[c], u>> \in HandOver
  /\ ThreadProcess[u] = ThreadProcess[thr[c]]
  /\ ~Busy(u)
  /\ thr' = [thr EXCEPT ![c] = u]
  /\ UNCHANGED <<pc, req, home, locked, reserved, order>>

(* Mutant: a second handle keeps the descriptor open. *)
ReleaseKeepsDescriptor(c) ==
  /\ pc[c] = "held"
  /\ ~Busy(thr[c])
  /\ Goto(c, "unlocked")
  /\ Unregister(thr[c], Entry(req[c]))
  /\ UNCHANGED <<thr, req, home, locked, reserved>>

(* release_inner and LockGuard::drop up to the reservation: unlock, close
   the file (which unlocks even when the unlock call failed), and drop the
   registration on whatever thread this is. *)
Release(c) ==
  /\ pc[c] = "held"
  /\ ~Busy(thr[c])
  /\ Goto(c, "unlocked")
  /\ locked' = locked \ {c}
  /\ Unregister(thr[c], Entry(req[c]))
  /\ UNCHANGED <<thr, req, home, reserved>>

(* The rest of finish_release: the reservation goes, Released is emitted. *)
FinishRelease(c) ==
  /\ pc[c] = "unlocked"
  /\ RemoveReservation(req[c])
  /\ Finish(c)
  /\ UNCHANGED <<locked, order>>

(* A process ends at any point: the kernel closes its descriptors, and its
   managers and thread-locals go with its memory.  The same process may
   then start again. *)
Crash(p) ==
  LET dead == {c \in Call : pc[c] \notin Inactive /\ ThreadProcess[thr[c]] = p} IN
  /\ pc' = [c \in Call |-> IF c \in dead THEN Rest ELSE pc[c]]
  /\ thr' = [c \in Call |-> IF c \in dead THEN NoThread ELSE thr[c]]
  /\ req' = [c \in Call |-> IF c \in dead THEN NoRequest ELSE req[c]]
  /\ home' = [c \in Call |-> IF c \in dead THEN NoThread ELSE home[c]]
  /\ locked' = locked \ dead
  /\ reserved' = [m \in Manager |->
                    IF ManagerProcess[m] = p THEN {} ELSE reserved[m]]
  /\ order' = [t \in Thread |->
                 IF ThreadProcess[t] = p THEN [e \in Entries |-> 0] ELSE order[t]]

CallStep(c) ==
  \/ KernelGrant(c)
  \/ NativeError(c)
  \/ Contended(c)
  \/ AbandonAttempt(c)
  \/ ReturnGuard(c)
  \/ SinkPanic(c)
  \/ Release(c)
  \/ FinishRelease(c)

Next ==
  \/ \E c \in Call, t \in Thread, r \in Requests :
        AcquireBlocking(c, t, r) \/ TryAcquire(c, t, r)
  \/ \E c \in Call : CallStep(c)
  \/ \E c \in Call, u \in Thread : MoveGuard(c, u)
  \/ \E p \in Process : Crash(p)

Spec == Init /\ [][Next]_vars

(***************************************************************************)
(* Fairness.  A thread that is inside a call goes on with it, the kernel   *)
(* does not leave a waiter asleep while its lock stays free, and callers   *)
(* drop the guards they hold.  Nothing makes a caller start a call, move a *)
(* guard or die, or a native call fail.                                    *)
(***************************************************************************)
Fairness ==
  \A c \in Call :
     /\ WF_vars(KernelGrant(c))
     /\ WF_vars(AbandonAttempt(c))
     /\ WF_vars(ReturnGuard(c))
     /\ WF_vars(Release(c))
     /\ WF_vars(FinishRelease(c))

FairSpec == Spec /\ Fairness

-----------------------------------------------------------------------------

Locking(c) == pc[c] \in {"granted", "held"}

(* Every variable has its type, and an inactive slot names no thread, no
   request and no registration. *)
TypeOK ==
  /\ pc \in [Call -> Phase]
  /\ thr \in [Call -> Thread \cup {NoThread}]
  /\ req \in [Call -> Requests \cup {NoRequest}]
  /\ home \in [Call -> Thread \cup {NoThread}]
  /\ locked \in SUBSET Call
  /\ reserved \in [Manager -> SUBSET Identity]
  /\ order \in [Thread -> [Entries -> Nat]]
  /\ \A c \in Call : pc[c] \notin Inactive => thr[c] \in Thread /\ req[c] \in Requests

(* Exclusive ownership across threads, managers and processes: there are
   never two live guards (or a guard and a grant on its way to the caller)
   for one canonical identity, whatever releases, crashes and refusals come
   in between. *)
MutualExclusion ==
  \A c, d \in Call :
     Locking(c) /\ Locking(d) /\ req[c].id = req[d].id => c = d

(* A guard in a caller's hands is backed by its own descriptor's kernel
   lock, and no descriptor stays locked for a call that has no guard to
   release it: ownership is neither lost early nor leaked. *)
GuardsHoldTheirDescriptors == locked = {c \in Call : Locking(c)}

Claims(c) == pc[c] \notin Inactive /\ req[c].policy = "Reject"

(* reserved_in_process is exact: an identity is reserved in a manager while
   one Reject call of that manager is under way or has its guard, never
   longer, and never two such calls share the reservation (so that the one
   that ends first cannot take away the other's). *)
ReservationAccounting ==
  /\ \A m \in Manager : \A i \in Identity :
        i \in reserved[m] <=> \E c \in Call : /\ Claims(c)
                                              /\ req[c].mgr = m
                                              /\ req[c].id = i
  /\ \A c, d \in Call :
        /\ Claims(c) /\ Claims(d)
        /\ req[c].mgr = req[d].mgr
        /\ req[c].id = req[d].id
        => c = d

(* The registration a live guard made is still in the vector of the thread
   it was made on, although guards released elsewhere leave stale entries
   behind and drop other threads' entries by value. *)
RegistrationSurvives ==
  \A c \in Call : pc[c] = "held" => order[home[c]][Entry(req[c])] > 0

(* A thread never sleeps in the kernel for a lock below one that it holds
   and that it acquired itself (check_lock_order, for guards that did not
   change threads). *)
OrderedWaits ==
  \A c, d \in Call :
     /\ pc[c] = "blocking"
     /\ pc[d] = "held"
     /\ thr[d] = thr[c]
     /\ home[d] = thr[d]
     => ~Before(Entry(req[c]), Entry(req[d]))

(* Callers that are asleep, each for a lock whose guard is with one of the
   sleeping threads. *)
Stuck(S) ==
  \A c \in S :
     /\ pc[c] = "blocking"
     /\ \E d \in locked : /\ req[d].id = req[c].id
                          /\ \E b \in S : thr[b] = thr[d]

(* No set of callers waits for each other for ever.  It takes the order
   check of several threads in several processes together, and holds where
   guards stay on their threads and a class goes with each identity. *)
NoWaitCycle == \A S \in (SUBSET Call) \ {{}} : ~Stuck(S)

(* A Reject request never sleeps for a lock its own process owns: "Fail
   before entering a kernel wait ... avoids accidental self-deadlock". *)
RejectNeverWaitsOnOwnProcess ==
  \A c, d \in Call :
     /\ pc[c] = "blocking" /\ req[c].policy = "Reject"
     /\ Locking(d)
     /\ ThreadProcess[thr[d]] = ThreadProcess[thr[c]]
     => req[c].id # req[d].id

(* "descending lock classes must fail before a kernel wait", and what is
   refused is refused "while this thread already holds class rank ...": the
   order check knows exactly of the guards that a thread has, so that a
   thread free to ask is turned away from a lock just when it holds one
   above it. *)
OrderCheckKnowsGuards ==
  \A t \in Thread, r \in Requests :
     MayUse(t, r) /\ ~Busy(t) =>
        (OrderInversion(t, r) <=>
           \E c \in Call : pc[c] = "held" /\ thr[c] = t /\ Before(Entry(r), Entry(req[c])))

(* What each call owns, and the promise to callers the manager implements:
   a step of the manager takes a free identity, gives one back, loses those
   of a dying process, or changes nothing that a caller can see. *)
Owned == [c \in Call |-> IF Locking(c) THEN req[c].id ELSE NoIdentity]

Abstract == INSTANCE ExclusiveLock WITH Client <- Call, hold <- Owned

ImplementsExclusiveLock == Abstract!Spec

(* Every acquire_blocking returns: the order check keeps the system from
   deadlock, releases and crashes hand the lock on, and (with finitely many
   competitors) no one is passed over for ever. *)
EveryBlockingCallReturns ==
  \A c \in Call : pc[c] = "blocking" ~> pc[c] # "blocking"

=============================================================================
