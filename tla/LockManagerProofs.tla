-------------------------- MODULE LockManagerProofs --------------------------
(***************************************************************************)
(* What LockManager guarantees for every set of calls, threads, processes, *)
(* managers and identities, and every set of requests.                     *)
(***************************************************************************)
EXTENDS LockManager, FiniteSetTheorems, WellFoundedInduction, TLAPS

(***************************************************************************)
(* Typing                                                                  *)
(***************************************************************************)

LEMMA EntryInEntries == \A r \in Requests : Entry(r) \in Entries
  BY DEF Entries

LEMMA InitTypeOK == Init => TypeOK
  BY DEF Init, TypeOK, Phase, Inactive

(* A new call: Start changes the slot, the reservations and nothing else. *)
LEMMA StartTypeOK ==
  ASSUME NEW c \in Call, NEW t \in Thread, NEW r \in Requests,
         NEW phase \in {"blocking", "trying"}, TypeOK, Start(c, t, r, phase)
  PROVE  TypeOK'
<1>1. r.mgr \in Manager /\ r.id \in Identity
  BY ConstantsAssumption DEF RequestType
<1>2. reserved' \in [Manager -> SUBSET Identity]
  BY <1>1 DEF Start, Reserve, TypeOK
<1>3. pc' \in [Call -> Phase]
  BY DEF Start, Goto, TypeOK, Phase
<1>4. QED
  BY <1>2, <1>3 DEF Start, Goto, TypeOK, Inactive

LEMMA FinishType ==
  ASSUME NEW c \in Call, TypeOK, Finish(c)
  PROVE  /\ pc' \in [Call -> Phase]
         /\ thr' \in [Call -> Thread \cup {NoThread}]
         /\ req' \in [Call -> Requests \cup {NoRequest}]
         /\ home' \in [Call -> Thread \cup {NoThread}]
         /\ \A d \in Call : pc'[d] \notin Inactive => thr'[d] \in Thread /\ req'[d] \in Requests
  BY DEF Finish, Goto, TypeOK, Rest, Phase, Inactive

LEMMA RemoveReservationType ==
  ASSUME NEW r \in Requests, TypeOK, RemoveReservation(r)
  PROVE  reserved' \in [Manager -> SUBSET Identity]
  BY ConstantsAssumption DEF RemoveReservation, TypeOK, RequestType

LEMMA CallStepTypeOK ==
  ASSUME NEW c \in Call, TypeOK, CallStep(c)
  PROVE  TypeOK'
<1> USE DEF TypeOK, Phase, Inactive
<1>1. CASE KernelGrant(c)
  BY <1>1 DEF KernelGrant, Goto
<1>2. CASE NativeError(c)
  BY <1>2 DEF NativeError, Goto
<1>3. CASE Contended(c)
  BY <1>3 DEF Contended, Goto
<1>4. CASE AbandonAttempt(c)
  <2>1. req[c] \in Requests
    BY <1>4 DEF AbandonAttempt
  <2>2. QED
    BY <1>4, <2>1, FinishType, RemoveReservationType DEF AbandonAttempt
<1>5. CASE ReturnGuard(c)
  <2>1. thr[c] \in Thread /\ Entry(req[c]) \in Entries
    BY <1>5, EntryInEntries DEF ReturnGuard
  <2>2. order' \in [Thread -> [Entries -> Nat]]
    BY <1>5, <2>1 DEF ReturnGuard, Register
  <2>3. QED
    BY <1>5, <2>1, <2>2 DEF ReturnGuard, Goto
<1>6. CASE SinkPanic(c)
  BY <1>6, FinishType DEF SinkPanic
<1>7. CASE Release(c)
  <2>1. thr[c] \in Thread /\ Entry(req[c]) \in Entries
    BY <1>7, EntryInEntries DEF Release
  <2>2. order' \in [Thread -> [Entries -> Nat]]
    BY <1>7, <2>1 DEF Release, Unregister
  <2>3. QED
    BY <1>7, <2>1, <2>2 DEF Release, Goto
<1>8. CASE FinishRelease(c)
  <2>1. req[c] \in Requests
    BY <1>8 DEF FinishRelease
  <2>2. QED
    BY <1>8, <2>1, FinishType, RemoveReservationType DEF FinishRelease
<1>9. QED
  BY <1>1, <1>2, <1>3, <1>4, <1>5, <1>6, <1>7, <1>8 DEF CallStep

LEMMA MoveGuardTypeOK ==
  ASSUME NEW c \in Call, NEW u \in Thread, TypeOK, MoveGuard(c, u)
  PROVE  TypeOK'
  BY DEF MoveGuard, TypeOK, Inactive

LEMMA CrashTypeOK ==
  ASSUME NEW p \in Process, TypeOK, Crash(p)
  PROVE  TypeOK'
  BY DEF Crash, TypeOK, Rest, Phase, Inactive

LEMMA NextTypeOK == TypeOK /\ [Next]_vars => TypeOK'
<1> SUFFICES ASSUME TypeOK, [Next]_vars PROVE TypeOK'
  OBVIOUS
<1>1. ASSUME NEW c \in Call, NEW t \in Thread, NEW r \in Requests,
             AcquireBlocking(c, t, r) \/ TryAcquire(c, t, r)
      PROVE  TypeOK'
  BY <1>1, StartTypeOK DEF AcquireBlocking, TryAcquire
<1>2. ASSUME NEW c \in Call, CallStep(c) PROVE TypeOK'
  BY <1>2, CallStepTypeOK
<1>3. ASSUME NEW c \in Call, NEW u \in Thread, MoveGuard(c, u) PROVE TypeOK'
  BY <1>3, MoveGuardTypeOK
<1>4. ASSUME NEW p \in Process, Crash(p) PROVE TypeOK'
  BY <1>4, CrashTypeOK
<1>5. CASE UNCHANGED vars
  BY <1>5 DEF vars, TypeOK
<1>6. QED
  BY <1>1, <1>2, <1>3, <1>4, <1>5 DEF Next

(* Every variable of LockManager keeps its type, and an active call always
   names the thread that runs it and the request it serves. *)
THEOREM TypeCorrect == Spec => []TypeOK
  BY InitTypeOK, NextTypeOK, PTL DEF Spec

(***************************************************************************)
(* Exclusive ownership                                                     *)
(***************************************************************************)

(* The two facts are inductive together: the kernel turns a request away on *)
(* account of locked descriptors, which are exactly those of the guards.   *)
Exclusion == TypeOK /\ GuardsHoldTheirDescriptors /\ MutualExclusion

LEMMA InitExclusion == Init => Exclusion
  BY InitTypeOK DEF Init, Exclusion, GuardsHoldTheirDescriptors, MutualExclusion, Locking

(* A step that locks nothing new, and keeps the requests of all calls that
   go on owning a lock, keeps exclusion. *)
LEMMA FewerOwnersExclusion ==
  ASSUME Exclusion, TypeOK', locked' = {c \in Call : Locking(c)'},
         \A c \in Call : Locking(c)' => Locking(c) /\ req'[c] = req[c]
  PROVE  Exclusion'
  BY DEF Exclusion, GuardsHoldTheirDescriptors, MutualExclusion, Locking

LEMMA NextExclusion == Exclusion /\ [Next]_vars => Exclusion'
<1> SUFFICES ASSUME Exclusion, [Next]_vars PROVE Exclusion'
  OBVIOUS
<1>0. TypeOK /\ TypeOK' /\ locked = {c \in Call : Locking(c)}
  BY NextTypeOK DEF Exclusion, GuardsHoldTheirDescriptors
<1>1. ASSUME NEW c \in Call, NEW t \in Thread, NEW r \in Requests,
             AcquireBlocking(c, t, r) \/ TryAcquire(c, t, r)
      PROVE  Exclusion'
  <2>1. PICK phase \in {"blocking", "trying"} : Start(c, t, r, phase)
    BY <1>1 DEF AcquireBlocking, TryAcquire
  <2>2. QED
    BY <1>0, <2>1, FewerOwnersExclusion DEF Start, Goto, Locking, TypeOK
<1>2. ASSUME NEW c \in Call, CallStep(c) PROVE Exclusion'
  <2>1. CASE KernelGrant(c)
    <3>1. \A d \in Call : Locking(d)' <=> d = c \/ Locking(d)
      BY <1>0, <2>1 DEF KernelGrant, Goto, Locking, TypeOK
    <3>2. \A d \in Call : Locking(d) => req[d].id # req[c].id
      BY <1>0, <2>1 DEF KernelGrant, KernelFree
    <3>3. req' = req
      BY <2>1 DEF KernelGrant
    <3>4. locked' = {d \in Call : Locking(d)'}
      BY <1>0, <2>1, <3>1 DEF KernelGrant
    <3>5. MutualExclusion'
      BY <3>1, <3>2, <3>3 DEF Exclusion, MutualExclusion
    <3>6. QED
      BY <1>0, <3>4, <3>5 DEF Exclusion, GuardsHoldTheirDescriptors
  <2>2. CASE NativeError(c) \/ Contended(c)
    BY <1>0, <2>2, FewerOwnersExclusion DEF NativeError, Contended, Goto, Locking, TypeOK
  <2>3. CASE AbandonAttempt(c) \/ FinishRelease(c)
    BY <1>0, <2>3, FewerOwnersExclusion
    DEF AbandonAttempt, FinishRelease, Finish, Rest, Goto, Locking, TypeOK
  <2>4. CASE ReturnGuard(c)
    BY <1>0, <2>4, FewerOwnersExclusion DEF ReturnGuard, Goto, Locking, TypeOK
  <2>5. CASE SinkPanic(c)
    BY <1>0, <2>5, FewerOwnersExclusion DEF SinkPanic, Finish, Rest, Goto, Locking, TypeOK
  <2>6. CASE Release(c)
    BY <1>0, <2>6, FewerOwnersExclusion DEF Release, Goto, Locking, TypeOK
  <2>7. QED
    BY <1>2, <2>1, <2>2, <2>3, <2>4, <2>5, <2>6 DEF CallStep
<1>3. ASSUME NEW c \in Call, NEW u \in Thread, MoveGuard(c, u) PROVE Exclusion'
  BY <1>0, <1>3, FewerOwnersExclusion DEF MoveGuard, Locking, TypeOK
<1>4. ASSUME NEW p \in Process, Crash(p) PROVE Exclusion'
  BY <1>0, <1>4, FewerOwnersExclusion DEF Crash, Rest, Locking, Inactive, TypeOK
<1>5. CASE UNCHANGED vars
  BY <1>0, <1>5, FewerOwnersExclusion DEF vars, Locking
<1>6. QED
  BY <1>1, <1>2, <1>3, <1>4, <1>5 DEF Next

(* Types, unique owners, and a kernel table of exactly the owning calls. *)
THEOREM ExclusionHolds == Spec => []Exclusion
  BY InitExclusion, NextExclusion, PTL DEF Spec

(* Two calls never own one identity, whatever threads, processes and
   crashes there are. *)
THEOREM MutualExclusionHolds == Spec => []MutualExclusion
  BY ExclusionHolds, PTL DEF Exclusion

(* The kernel's locks are those of the guards: none is lost early, none
   leaks. *)
THEOREM GuardsHoldTheirDescriptorsHolds == Spec => []GuardsHoldTheirDescriptors
  BY ExclusionHolds, PTL DEF Exclusion

(***************************************************************************)
(* The manager implements the abstract exclusive lock                      *)
(***************************************************************************)

LEMMA OwnedIdentity ==
  ASSUME NEW c \in Call, TypeOK
  PROVE  /\ Locking(c) => req[c].id \in Identity /\ Owned[c] = req[c].id
         /\ ~Locking(c) => Owned[c] = NoIdentity
  BY ConstantsAssumption DEF Owned, Locking, TypeOK, Inactive, RequestType

LEMMA StutteringStep ==
  ASSUME \A c \in Call : /\ Locking(c)' <=> Locking(c)
                         /\ Locking(c) => req'[c] = req[c]
  PROVE  Owned' = Owned
  BY DEF Owned, Locking

(* A grant takes the identity, which nobody owns. *)
LEMMA GrantTakes ==
  ASSUME NEW c \in Call, Exclusion, KernelGrant(c)
  PROVE  Abstract!Take(c, req[c].id) /\ req[c].id \in Identity
<1>0. TypeOK /\ locked = {d \in Call : Locking(d)}
  BY DEF Exclusion, GuardsHoldTheirDescriptors
<1>1. req[c].id \in Identity /\ ~Locking(c) /\ Owned[c] = NoIdentity
  BY <1>0, OwnedIdentity, ConstantsAssumption
  DEF KernelGrant, Locking, TypeOK, Inactive, RequestType
<1>2. \A d \in Call : Locking(d)' <=> d = c \/ Locking(d)
  BY <1>0 DEF KernelGrant, Goto, Locking, TypeOK
<1>3. \A d \in Call : Owned[d] # req[c].id
  BY <1>0, <1>1, OwnedIdentity, ConstantsAssumption DEF KernelGrant, KernelFree
<1>4. Owned' = [Owned EXCEPT ![c] = req[c].id]
  BY <1>2 DEF KernelGrant, Owned
<1>5. QED
  BY <1>1, <1>3, <1>4 DEF Abstract!Take

(* A release, or the unwinding of a panicking sink, gives it back. *)
LEMMA ReleaseGivesBack ==
  ASSUME NEW c \in Call, TypeOK, Release(c) \/ SinkPanic(c)
  PROVE  Abstract!GiveBack(c)
<1>1. Locking(c) /\ Owned[c] # NoIdentity
  BY OwnedIdentity, ConstantsAssumption DEF Release, SinkPanic, Locking
<1>2. \A d \in Call : /\ Locking(d)' <=> d # c /\ Locking(d)
                      /\ d # c => req'[d] = req[d]
  BY DEF Release, SinkPanic, Finish, Rest, Goto, Locking, TypeOK
<1>3. Owned' = [Owned EXCEPT ![c] = NoIdentity]
  BY <1>2 DEF Owned
<1>4. QED
  BY <1>1, <1>3 DEF Abstract!GiveBack

LEMMA CrashIsDeath ==
  ASSUME NEW p \in Process, TypeOK, Crash(p)
  PROVE  \E D \in SUBSET Call : Abstract!Die(D)
<1> DEFINE dead == {c \in Call : pc[c] \notin Inactive /\ ThreadProcess[thr[c]] = p}
<1>1. \A c \in Call : /\ c \in dead => ~Locking(c)'
                      /\ c \notin dead => /\ Locking(c)' <=> Locking(c)
                                          /\ req'[c] = req[c]
  BY DEF Crash, Rest, Locking, TypeOK
<1>2. Owned' = [c \in Call |-> IF c \in dead THEN NoIdentity ELSE Owned[c]]
  BY <1>1 DEF Owned
<1>3. QED
  BY <1>2 DEF Abstract!Die

LEMMA StepImplementsAbstract ==
  ASSUME Exclusion, [Next]_vars
  PROVE  [Abstract!Next]_Owned
<1>0. TypeOK
  BY DEF Exclusion
<1>1. ASSUME NEW c \in Call, NEW t \in Thread, NEW r \in Requests,
             AcquireBlocking(c, t, r) \/ TryAcquire(c, t, r)
      PROVE  Owned' = Owned
  <2>1. PICK phase \in {"blocking", "trying"} : Start(c, t, r, phase)
    BY <1>1 DEF AcquireBlocking, TryAcquire
  <2>2. QED
    BY <1>0, <2>1, StutteringStep DEF Start, Goto, Locking, TypeOK
<1>2. ASSUME NEW c \in Call, CallStep(c) PROVE [Abstract!Next]_Owned
  <2>1. CASE KernelGrant(c)
    BY <2>1, GrantTakes DEF Abstract!Next
  <2>2. CASE NativeError(c) \/ Contended(c) \/ ReturnGuard(c)
    BY <1>0, <2>2, StutteringStep
    DEF NativeError, Contended, ReturnGuard, Goto, Locking, TypeOK
  <2>3. CASE AbandonAttempt(c) \/ FinishRelease(c)
    BY <1>0, <2>3, StutteringStep
    DEF AbandonAttempt, FinishRelease, Finish, Rest, Goto, Locking, TypeOK
  <2>4. CASE SinkPanic(c) \/ Release(c)
    BY <1>0, <2>4, ReleaseGivesBack DEF Abstract!Next
  <2>5. QED
    BY <1>2, <2>1, <2>2, <2>3, <2>4 DEF CallStep
<1>3. ASSUME NEW c \in Call, NEW u \in Thread, MoveGuard(c, u) PROVE Owned' = Owned
  BY <1>3, StutteringStep DEF MoveGuard, Locking
<1>4. ASSUME NEW p \in Process, Crash(p) PROVE Abstract!Next
  BY <1>0, <1>4, CrashIsDeath DEF Abstract!Next
<1>5. CASE UNCHANGED vars
  BY <1>5, StutteringStep DEF vars, Locking
<1>6. QED
  BY <1>1, <1>2, <1>3, <1>4, <1>5 DEF Next

LEMMA InitImplementsAbstract == Init => Abstract!Init
  BY DEF Init, Abstract!Init, Owned, Locking

(* Every behaviour of the manager, crashes included, is one of the abstract
   exclusive lock: identities are taken only while free, and are given up by
   their owners or with their owners' process. *)
THEOREM ManagerImplementsExclusiveLock == Spec => ImplementsExclusiveLock
  BY ExclusionHolds, InitImplementsAbstract, StepImplementsAbstract, PTL
  DEF Spec, ImplementsExclusiveLock, Abstract!Spec

(***************************************************************************)
(* HELD_LOCK_ORDER                                                         *)
(***************************************************************************)

InCall(c) == pc[c] \notin Inactive \cup {"held"}

(* A thread is in one call at a time. *)
OneCallPerThread ==
  \A c, d \in Call : InCall(c) /\ InCall(d) /\ thr[c] = thr[d] => c = d

(* A live guard's registration is on a thread of its own process, in the
   vector of that thread. *)
Registered ==
  \A c \in Call : pc[c] = "held" =>
     /\ home[c] \in Thread
     /\ ThreadProcess[home[c]] = ThreadProcess[thr[c]]
     /\ order[home[c]][Entry(req[c])] > 0

(* The order check goes on to hold while a call sleeps: its thread, being
   asleep, registers nothing new. *)
WaitsInOrder == \A c \in Call : pc[c] = "blocking" => ~OrderInversion(thr[c], req[c])

OrderFacts == OneCallPerThread /\ Registered /\ WaitsInOrder

OrderInv == Exclusion /\ OrderFacts

LEMMA InitOrderInv == Init => OrderInv
  BY InitExclusion
  DEF Init, OrderInv, OrderFacts, OneCallPerThread, Registered, WaitsInOrder, InCall, Inactive

(* A step that starts no call and moves none to another thread. *)
LEMMA OneCallKept ==
  ASSUME OneCallPerThread,
         \A c \in Call : InCall(c)' => InCall(c) /\ thr'[c] = thr[c]
  PROVE  OneCallPerThread'
  BY DEF OneCallPerThread, InCall

(* Fewer entries make no inversion. *)
LEMMA WaitsKept ==
  ASSUME TypeOK, TypeOK', WaitsInOrder,
         \A c \in Call : pc'[c] = "blocking" =>
            /\ pc[c] = "blocking" /\ thr'[c] = thr[c] /\ req'[c] = req[c]
            /\ \A e \in Entries : order'[thr[c]][e] <= order[thr[c]][e]
  PROVE  WaitsInOrder'
<1> SUFFICES ASSUME NEW c \in Call, pc'[c] = "blocking",
                    NEW e \in Entries, order'[thr'[c]][e] > 0, Before(Entry(req'[c]), e)
             PROVE  FALSE
  BY DEF WaitsInOrder, OrderInversion, Before, Entry
<1>1. /\ pc[c] = "blocking" /\ thr'[c] = thr[c] /\ req'[c] = req[c]
      /\ order'[thr[c]][e] <= order[thr[c]][e]
      /\ thr[c] \in Thread
  BY DEF TypeOK, Inactive
<1>2. order[thr[c]][e] \in Nat /\ order'[thr[c]][e] \in Nat
  BY <1>1 DEF TypeOK
<1>3. order[thr[c]][e] > 0
  BY <1>1, <1>2
<1>4. OrderInversion(thr[c], req[c])
  BY <1>1, <1>3 DEF OrderInversion
<1>5. QED
  BY <1>1, <1>4 DEF WaitsInOrder

LEMMA StartOrderInv ==
  ASSUME OrderInv, TypeOK', NEW c \in Call, NEW t \in Thread, NEW r \in Requests,
         NEW phase \in {"blocking", "trying"}, Start(c, t, r, phase)
  PROVE  OrderFacts'
<1> USE DEF OrderInv, OrderFacts, Exclusion
<1>1. OneCallPerThread'
  BY DEF Start, Goto, OneCallPerThread, InCall, Busy, TypeOK
<1>2. Registered'
  BY DEF Start, Goto, Registered, TypeOK
<1>3. WaitsInOrder'
  BY DEF Start, Goto, WaitsInOrder, OrderInversion, Before, Entry, TypeOK
<1>4. QED
  BY <1>1, <1>2, <1>3

LEMMA ReturnGuardOrderInv ==
  ASSUME OrderInv, TypeOK', NEW c \in Call, ReturnGuard(c)
  PROVE  OrderFacts'
<1> USE DEF OrderInv, OrderFacts, Exclusion
<1>0. /\ pc[c] = "granted" /\ thr[c] \in Thread /\ Entry(req[c]) \in Entries
      /\ TypeOK /\ InCall(c)
  BY EntryInEntries DEF ReturnGuard, TypeOK, Inactive, InCall
<1>1. OneCallPerThread'
  BY <1>0, OneCallKept DEF ReturnGuard, Goto, InCall, Inactive, TypeOK
<1>2. Registered'
  <2> SUFFICES ASSUME NEW d \in Call, pc'[d] = "held"
               PROVE  /\ home'[d] \in Thread
                      /\ ThreadProcess[home'[d]] = ThreadProcess[thr'[d]]
                      /\ order'[home'[d]][Entry(req'[d])] > 0
    BY DEF Registered, Entry
  <2>1. CASE d = c
    BY <1>0, <2>1 DEF ReturnGuard, Register, TypeOK
  <2>2. CASE d # c
    <3>1. pc[d] = "held" /\ req[d] \in Requests
      BY <2>2 DEF ReturnGuard, Goto, TypeOK, Inactive
    <3>2. Entry(req[d]) \in Entries
      BY <3>1, EntryInEntries
    <3>3. QED
      BY <1>0, <2>2, <3>1, <3>2 DEF ReturnGuard, Register, Registered, TypeOK
  <2>3. QED
    BY <2>1, <2>2
<1>3. WaitsInOrder'
  <2>1. ASSUME NEW d \in Call, pc'[d] = "blocking"
        PROVE  /\ pc[d] = "blocking" /\ thr'[d] = thr[d] /\ req'[d] = req[d]
               /\ \A e \in Entries : order'[thr[d]][e] <= order[thr[d]][e]
    <3>1. pc[d] = "blocking" /\ d # c /\ InCall(d) /\ thr[d] \in Thread
      BY <1>0, <2>1 DEF ReturnGuard, Goto, InCall, Inactive, TypeOK
    <3>2. thr[d] # thr[c]
      BY <1>0, <3>1 DEF OneCallPerThread
    <3>3. order'[thr[d]] = order[thr[d]]
      BY <1>0, <3>1, <3>2 DEF ReturnGuard, Register, TypeOK
    <3>4. \A e \in Entries : order[thr[d]][e] \in Nat
      BY <1>0, <3>1 DEF TypeOK
    <3>5. QED
      BY <3>1, <3>3, <3>4 DEF ReturnGuard
  <2>2. QED
    BY <1>0, <2>1, WaitsKept
<1>4. QED
  BY <1>1, <1>2, <1>3

(* The entry that a release drops may be another guard's only if that guard
   has the same identity, and then it cannot live. *)
LEMMA ReleaseOrderInv ==
  ASSUME OrderInv, TypeOK', NEW c \in Call, Release(c)
  PROVE  OrderFacts'
<1> USE DEF OrderInv, OrderFacts, Exclusion
<1>0. /\ pc[c] = "held" /\ thr[c] \in Thread /\ Entry(req[c]) \in Entries
      /\ TypeOK /\ ~Busy(thr[c])
  BY EntryInEntries DEF Release, TypeOK, Inactive
<1>1. OneCallPerThread'
  BY <1>0 DEF Release, Goto, OneCallPerThread, InCall, Busy, TypeOK
<1>2. \A t \in Thread, e \in Entries :
        /\ order'[t][e] <= order[t][e]
        /\ e # Entry(req[c]) => order'[t][e] = order[t][e]
  BY <1>0 DEF Release, Unregister, TypeOK
<1>3. Registered'
  <2> SUFFICES ASSUME NEW d \in Call, pc'[d] = "held"
               PROVE  /\ home'[d] \in Thread
                      /\ ThreadProcess[home'[d]] = ThreadProcess[thr'[d]]
                      /\ order'[home'[d]][Entry(req'[d])] > 0
    BY DEF Registered, Entry
  <2>1. d # c /\ pc[d] = "held" /\ req[d] \in Requests
    BY <1>0 DEF Release, Goto, TypeOK, Inactive
  <2>2. req[d].id # req[c].id
    BY <1>0, <2>1 DEF MutualExclusion, Locking
  <2>3. Entry(req[d]) \in Entries /\ Entry(req[d]) # Entry(req[c])
    BY <2>1, <2>2, EntryInEntries DEF Entry
  <2>4. QED
    BY <1>2, <2>1, <2>3 DEF Release, Registered
<1>4. WaitsInOrder'
  <2>1. ASSUME NEW d \in Call, pc'[d] = "blocking"
        PROVE  pc[d] = "blocking" /\ thr'[d] = thr[d] /\ req'[d] = req[d] /\ thr[d] \in Thread
    BY <1>0, <2>1 DEF Release, Goto, TypeOK, Inactive
  <2>2. QED
    BY <1>0, <1>2, <2>1, WaitsKept
<1>5. QED
  BY <1>1, <1>3, <1>4

(* The other steps leave the vectors alone. *)
LEMMA QuietOrderInv ==
  ASSUME OrderInv, TypeOK', order' = order,
         \A c \in Call :
            /\ InCall(c)' => InCall(c) /\ thr'[c] = thr[c]
            /\ pc'[c] = "held" => /\ pc[c] = "held" /\ home'[c] = home[c]
                                  /\ req'[c] = req[c]
                                  /\ ThreadProcess[thr'[c]] = ThreadProcess[thr[c]]
            /\ pc'[c] = "blocking" => /\ pc[c] = "blocking" /\ thr'[c] = thr[c]
                                      /\ req'[c] = req[c]
  PROVE  OrderFacts'
<1>1. OneCallPerThread'
  BY OneCallKept DEF OrderInv, OrderFacts
<1>2. Registered'
  BY DEF OrderInv, OrderFacts, Registered
<1>3. WaitsInOrder'
  BY DEF OrderInv, OrderFacts, WaitsInOrder, OrderInversion
<1>4. QED
  BY <1>1, <1>2, <1>3 DEF OrderFacts

LEMMA CrashOrderInv ==
  ASSUME OrderInv, TypeOK', NEW p \in Process, Crash(p)
  PROVE  OrderFacts'
<1> USE DEF OrderInv, OrderFacts, Exclusion
<1>0. TypeOK
  OBVIOUS
<1>1. \A c \in Call :
         pc'[c] \notin Inactive =>
            /\ pc'[c] = pc[c] /\ thr'[c] = thr[c] /\ req'[c] = req[c] /\ home'[c] = home[c]
            /\ thr[c] \in Thread /\ ThreadProcess[thr[c]] # p
  BY DEF Crash, Rest, Inactive, TypeOK
<1>2. \A t \in Thread : ThreadProcess[t] # p => order'[t] = order[t]
  BY DEF Crash
<1>3. OneCallPerThread'
  BY <1>1, OneCallKept DEF InCall
<1>4. Registered'
  <2> SUFFICES ASSUME NEW c \in Call, pc'[c] = "held"
               PROVE  /\ home'[c] \in Thread
                      /\ ThreadProcess[home'[c]] = ThreadProcess[thr'[c]]
                      /\ order'[home'[c]][Entry(req'[c])] > 0
    BY DEF Registered, Entry
  <2>1. /\ pc[c] = "held" /\ thr'[c] = thr[c] /\ req'[c] = req[c] /\ home'[c] = home[c]
        /\ ThreadProcess[thr[c]] # p
    BY <1>1 DEF Inactive
  <2>2. QED
    BY <1>2, <2>1 DEF Registered
<1>5. WaitsInOrder'
  <2> SUFFICES ASSUME NEW c \in Call, pc'[c] = "blocking"
               PROVE  ~OrderInversion(thr[c], req[c])'
    BY DEF WaitsInOrder
  <2>1. /\ pc[c] = "blocking" /\ thr'[c] = thr[c] /\ req'[c] = req[c]
        /\ thr[c] \in Thread /\ ThreadProcess[thr[c]] # p
    BY <1>1 DEF Inactive
  <2>2. order'[thr'[c]] = order[thr[c]]
    BY <1>2, <2>1
  <2>3. QED
    BY <2>1, <2>2 DEF WaitsInOrder, OrderInversion
<1>6. QED
  BY <1>3, <1>4, <1>5

LEMMA NextOrderFacts == OrderInv /\ [Next]_vars => OrderFacts'
<1> SUFFICES ASSUME OrderInv, [Next]_vars PROVE OrderFacts'
  OBVIOUS
<1>0. Exclusion' /\ TypeOK' /\ TypeOK
  BY NextExclusion DEF OrderInv, Exclusion
<1>1. ASSUME NEW c \in Call, NEW t \in Thread, NEW r \in Requests,
             AcquireBlocking(c, t, r) \/ TryAcquire(c, t, r)
      PROVE  OrderFacts'
  BY <1>0, <1>1, StartOrderInv DEF AcquireBlocking, TryAcquire
<1>2. ASSUME NEW c \in Call, CallStep(c) PROVE OrderFacts'
  <2>1. CASE KernelGrant(c)
    BY <1>0, <2>1, QuietOrderInv DEF KernelGrant, Goto, InCall, Inactive, TypeOK
  <2>2. CASE NativeError(c) \/ Contended(c)
    BY <1>0, <2>2, QuietOrderInv DEF NativeError, Contended, Goto, InCall, Inactive, TypeOK
  <2>3. CASE AbandonAttempt(c) \/ FinishRelease(c)
    BY <1>0, <2>3, QuietOrderInv
    DEF AbandonAttempt, FinishRelease, Finish, Rest, Goto, InCall, Inactive, TypeOK
  <2>4. CASE SinkPanic(c)
    BY <1>0, <2>4, QuietOrderInv DEF SinkPanic, Finish, Rest, Goto, InCall, Inactive, TypeOK
  <2>5. CASE ReturnGuard(c)
    BY <1>0, <2>5, ReturnGuardOrderInv
  <2>6. CASE Release(c)
    BY <1>0, <2>6, ReleaseOrderInv
  <2>7. QED
    BY <1>2, <2>1, <2>2, <2>3, <2>4, <2>5, <2>6 DEF CallStep
<1>3. ASSUME NEW c \in Call, NEW u \in Thread, MoveGuard(c, u) PROVE OrderFacts'
  BY <1>0, <1>3, QuietOrderInv DEF MoveGuard, InCall, Inactive, TypeOK
<1>4. ASSUME NEW p \in Process, Crash(p) PROVE OrderFacts'
  BY <1>0, <1>4, CrashOrderInv
<1>5. CASE UNCHANGED vars
  BY <1>0, <1>5, QuietOrderInv DEF vars, InCall
<1>6. QED
  BY <1>1, <1>2, <1>3, <1>4, <1>5 DEF Next

LEMMA NextOrderInv == OrderInv /\ [Next]_vars => OrderInv'
  BY NextExclusion, NextOrderFacts DEF OrderInv

(* The bookkeeping of HELD_LOCK_ORDER: live guards are registered, and the
   order check of a sleeping call still holds. *)
THEOREM OrderInvHolds == Spec => []OrderInv
  BY InitOrderInv, NextOrderInv, PTL DEF Spec

(* Whatever guards are released where, the registration of a live guard
   stays in the vector of the thread that acquired it. *)
THEOREM RegistrationSurvivesHolds == Spec => []RegistrationSurvives
<1>1. OrderInv => RegistrationSurvives
  BY DEF OrderInv, OrderFacts, Registered, RegistrationSurvives
<1>2. QED
  BY <1>1, OrderInvHolds, PTL

(* No thread sleeps for a lock below one that it acquired and still holds. *)
THEOREM OrderedWaitsHolds == Spec => []OrderedWaits
<1>1. OrderInv => OrderedWaits
  <2> SUFFICES ASSUME OrderInv, NEW c \in Call, NEW d \in Call,
                      pc[c] = "blocking", pc[d] = "held",
                      thr[d] = thr[c], home[d] = thr[d]
               PROVE  ~Before(Entry(req[c]), Entry(req[d]))
    BY DEF OrderedWaits
  <2>1. Entry(req[d]) \in Entries
    BY EntryInEntries DEF OrderInv, Exclusion, TypeOK, Inactive
  <2>2. order[thr[c]][Entry(req[d])] > 0
    BY DEF OrderInv, OrderFacts, Registered
  <2>3. QED
    BY <2>1, <2>2 DEF OrderInv, OrderFacts, WaitsInOrder, OrderInversion
<1>2. QED
  BY <1>1, OrderInvHolds, PTL

(***************************************************************************)
(* reserved_in_process                                                     *)
(***************************************************************************)

(* Calls use the managers of their own process, so that a crash takes both
   or neither. *)
OwnManager ==
  \A c \in Call : pc[c] \notin Inactive =>
                   ManagerProcess[req[c].mgr] = ThreadProcess[thr[c]]

Claim(c, m, i) == Claims(c) /\ req[c].mgr = m /\ req[c].id = i

(* Every claim is covered by a reservation, and no two share one. *)
Covered ==
  \A c \in Call : Claims(c) => req[c].id \in reserved[req[c].mgr]

Unshared ==
  \A c, d \in Call :
     /\ Claims(c) /\ Claims(d)
     /\ req[c].mgr = req[d].mgr /\ req[c].id = req[d].id
     => c = d

(* Only a panicking sink leaves a reservation without a claim. *)
NoLeak ==
  \/ SinkMayPanic
  \/ \A m \in Manager : \A i \in reserved[m] : \E c \in Call : Claim(c, m, i)

ReservationInv == TypeOK /\ OwnManager /\ Covered /\ Unshared /\ NoLeak

LEMMA InitReservationInv == Init => ReservationInv
  BY InitTypeOK
  DEF Init, ReservationInv, OwnManager, Covered, Unshared, NoLeak, Claims, Inactive

LEMMA RequestFields ==
  ASSUME NEW c \in Call, TypeOK, pc[c] \notin Inactive
  PROVE  /\ req[c] \in Requests /\ thr[c] \in Thread
         /\ req[c].mgr \in Manager /\ req[c].id \in Identity
  BY ConstantsAssumption DEF TypeOK, RequestType

(* A step that leaves the reservations, and who claims them, alone. *)
LEMMA ClaimsKept ==
  ASSUME ReservationInv, TypeOK', reserved' = reserved,
         \A c \in Call :
            /\ pc'[c] \in Inactive <=> pc[c] \in Inactive
            /\ req'[c] = req[c]
            /\ pc'[c] \notin Inactive => ThreadProcess[thr'[c]] = ThreadProcess[thr[c]]
  PROVE  ReservationInv'
<1> USE DEF ReservationInv
<1>1. OwnManager'
  BY DEF OwnManager
<1>2. \A c \in Call : Claims(c)' <=> Claims(c)
  BY DEF Claims
<1>3. Covered' /\ Unshared'
  BY <1>2 DEF Covered, Unshared
<1>4. NoLeak'
  BY <1>2 DEF NoLeak, Claim
<1>5. QED
  BY <1>1, <1>3, <1>4

LEMMA StartReservationInv ==
  ASSUME ReservationInv, TypeOK', NEW c \in Call, NEW t \in Thread, NEW r \in Requests,
         NEW phase \in {"blocking", "trying"}, Start(c, t, r, phase)
  PROVE  ReservationInv'
<1> USE DEF ReservationInv
<1>0. /\ pc[c] \in Inactive /\ ~Claims(c) /\ r.mgr \in Manager /\ r.id \in Identity
      /\ req'[c] = r /\ thr'[c] = t /\ pc'[c] \notin Inactive
  BY ConstantsAssumption DEF Start, Goto, Claims, Inactive, TypeOK, RequestType
<1>1. \A d \in Call : d # c => /\ pc'[d] = pc[d] /\ req'[d] = req[d] /\ thr'[d] = thr[d]
  BY DEF Start, Goto, TypeOK
<1>2. OwnManager'
  BY <1>0, <1>1 DEF OwnManager, Start, MayUse
<1>3. \A d \in Call : Claims(d) => Claims(d)' /\ d # c /\ req'[d] = req[d]
  BY <1>0, <1>1 DEF Claims
<1>4. \A d \in Call :
         Claims(d)' => \/ d = c /\ r.policy = "Reject"
                       \/ d # c /\ Claims(d)
  BY <1>0, <1>1 DEF Claims
<1>5. \A m \in Manager : \A i \in Identity :
         i \in reserved'[m] <=> \/ i \in reserved[m]
                                \/ r.policy = "Reject" /\ m = r.mgr /\ i = r.id
  BY <1>0 DEF Start, Reserve, TypeOK
<1>6. \A d \in Call : Claims(d) => req[d].mgr \in Manager /\ req[d].id \in Identity
  BY RequestFields DEF Claims
<1>7. Covered'
  BY <1>0, <1>1, <1>4, <1>5, <1>6 DEF Covered
<1>8. Unshared'
  <2>1. ASSUME r.policy = "Reject", NEW d \in Call, Claims(d), req[d].mgr = r.mgr
        PROVE  req[d].id # r.id
    BY <2>1 DEF Covered, Start, AlreadyReserved
  <2>2. QED
    BY <1>0, <1>1, <1>4, <2>1 DEF Unshared
<1>9. NoLeak'
  <2> SUFFICES ASSUME ~SinkMayPanic, NEW m \in Manager, NEW i \in reserved'[m]
               PROVE  \E d \in Call : Claim(d, m, i)'
    BY DEF NoLeak, Claim, Claims
  <2>0. i \in Identity
    BY DEF TypeOK
  <2>1. CASE i \in reserved[m]
    <3>1. PICK d \in Call : Claim(d, m, i)
      BY <2>1 DEF NoLeak
    <3>2. QED
      BY <1>3, <3>1 DEF Claim
  <2>2. CASE r.policy = "Reject" /\ m = r.mgr /\ i = r.id
    BY <1>0, <2>2 DEF Claim, Claims
  <2>3. QED
    BY <1>5, <2>0, <2>1, <2>2
<1>10. QED
  BY <1>2, <1>7, <1>8, <1>9

(* The end of a call, with its reservation removed or (after a panic of the
   sink) not. *)
LEMMA FinishReservationInv ==
  ASSUME ReservationInv, TypeOK', NEW c \in Call, pc[c] \notin Inactive, Finish(c),
         \/ RemoveReservation(req[c])
         \/ SinkMayPanic /\ UNCHANGED reserved
  PROVE  ReservationInv'
<1> USE DEF ReservationInv
<1>0. req[c].mgr \in Manager /\ req[c].id \in Identity /\ ~Claims(c)'
  BY RequestFields DEF Finish, Rest, Goto, Claims, Inactive, TypeOK
<1>1. \A d \in Call : d # c => /\ pc'[d] = pc[d] /\ req'[d] = req[d] /\ thr'[d] = thr[d]
  BY DEF Finish, Goto, TypeOK
<1>2. OwnManager'
  BY <1>1 DEF OwnManager, Finish, Rest, Goto, Inactive, TypeOK
<1>3. \A d \in Call : Claims(d)' <=> d # c /\ Claims(d)
  BY <1>0, <1>1 DEF Claims
<1>4. \A m \in Manager : \A i \in Identity :
         i \in reserved[m] /\ ~Claim(c, m, i) => i \in reserved'[m]
  BY <1>0 DEF RemoveReservation, Claim, Claims, TypeOK
<1>5. \A d \in Call : Claims(d) => req[d].mgr \in Manager /\ req[d].id \in Identity
  BY RequestFields DEF Claims
<1>6. Unshared'
  BY <1>1, <1>3 DEF Unshared
<1>7. Covered'
  BY <1>1, <1>3, <1>4, <1>5 DEF Covered, Unshared, Claim
<1>8. NoLeak'
  <2> SUFFICES ASSUME ~SinkMayPanic, NEW m \in Manager, NEW i \in reserved'[m]
               PROVE  \E d \in Call : Claim(d, m, i)'
    BY DEF NoLeak, Claim, Claims
  <2>1. i \in reserved[m] /\ ~Claim(c, m, i)
    BY <1>0 DEF RemoveReservation, Claim, Claims, TypeOK
  <2>2. PICK d \in Call : Claim(d, m, i)
    BY <2>1 DEF NoLeak
  <2>3. QED
    BY <1>1, <1>3, <2>1, <2>2 DEF Claim
<1>9. QED
  BY <1>2, <1>6, <1>7, <1>8

LEMMA CrashReservationInv ==
  ASSUME ReservationInv, TypeOK', NEW p \in Process, Crash(p)
  PROVE  ReservationInv'
<1> USE DEF ReservationInv
<1> DEFINE dead(c) == pc[c] \notin Inactive /\ ThreadProcess[thr[c]] = p
<1>1. \A c \in Call : /\ dead(c) => pc'[c] \in Inactive
                      /\ ~dead(c) => pc'[c] = pc[c] /\ req'[c] = req[c] /\ thr'[c] = thr[c]
  BY DEF Crash, Rest, Inactive, TypeOK
<1>2. \A m \in Manager : reserved'[m] = IF ManagerProcess[m] = p THEN {} ELSE reserved[m]
  BY DEF Crash
<1>3. OwnManager'
  BY <1>1 DEF OwnManager
<1>4. \A c \in Call : Claims(c)' <=> Claims(c) /\ ManagerProcess[req[c].mgr] # p
  BY <1>1 DEF Claims, OwnManager
<1>5. \A c \in Call : Claims(c)' => req'[c] = req[c] /\ req[c].mgr \in Manager
  BY <1>1, RequestFields DEF Claims
<1>6. Covered'
  BY <1>2, <1>4, <1>5 DEF Covered
<1>7. Unshared'
  BY <1>4, <1>5 DEF Unshared
<1>8. NoLeak'
  BY <1>2, <1>4, <1>5 DEF NoLeak, Claim
<1>9. QED
  BY <1>3, <1>6, <1>7, <1>8

LEMMA NextReservationInv == ReservationInv /\ [Next]_vars => ReservationInv'
<1> SUFFICES ASSUME ReservationInv, [Next]_vars PROVE ReservationInv'
  OBVIOUS
<1>0. TypeOK /\ TypeOK'
  BY NextTypeOK DEF ReservationInv
<1>1. ASSUME NEW c \in Call, NEW t \in Thread, NEW r \in Requests,
             AcquireBlocking(c, t, r) \/ TryAcquire(c, t, r)
      PROVE  ReservationInv'
  BY <1>0, <1>1, StartReservationInv DEF AcquireBlocking, TryAcquire
<1>2. ASSUME NEW c \in Call, CallStep(c) PROVE ReservationInv'
  <2>1. CASE KernelGrant(c) \/ NativeError(c) \/ Contended(c)
    BY <1>0, <2>1, ClaimsKept
    DEF KernelGrant, NativeError, Contended, Goto, Inactive, TypeOK
  <2>2. CASE ReturnGuard(c) \/ Release(c)
    BY <1>0, <2>2, ClaimsKept DEF ReturnGuard, Release, Goto, Inactive, TypeOK
  <2>3. CASE AbandonAttempt(c) \/ FinishRelease(c)
    BY <1>0, <2>3, FinishReservationInv DEF AbandonAttempt, FinishRelease, Inactive
  <2>4. CASE SinkPanic(c)
    BY <1>0, <2>4, FinishReservationInv DEF SinkPanic, Inactive
  <2>5. QED
    BY <1>2, <2>1, <2>2, <2>3, <2>4 DEF CallStep
<1>3. ASSUME NEW c \in Call, NEW u \in Thread, MoveGuard(c, u) PROVE ReservationInv'
  BY <1>0, <1>3, ClaimsKept DEF MoveGuard, TypeOK
<1>4. ASSUME NEW p \in Process, Crash(p) PROVE ReservationInv'
  BY <1>0, <1>4, CrashReservationInv
<1>5. CASE UNCHANGED vars
  BY <1>0, <1>5, ClaimsKept DEF vars
<1>6. QED
  BY <1>1, <1>2, <1>3, <1>4, <1>5 DEF Next

(* Every claim is reserved, and by one call only. *)
THEOREM ReservationInvHolds == Spec => []ReservationInv
  BY InitReservationInv, NextReservationInv, PTL DEF Spec

(* As long as the event sink does not panic, a manager has an identity
   reserved exactly while one Reject request of its own is under way or has
   its guard. *)
THEOREM ReservationAccountingHolds ==
  ASSUME ~SinkMayPanic PROVE Spec => []ReservationAccounting
<1>1. ReservationInv => ReservationAccounting
  <2> SUFFICES ASSUME ReservationInv PROVE ReservationAccounting
    OBVIOUS
  <2>1. ASSUME NEW m \in Manager, NEW i \in Identity
        PROVE  i \in reserved[m] <=> \E c \in Call : Claim(c, m, i)
    BY DEF ReservationInv, Covered, NoLeak, Claim
  <2>2. QED
    BY <2>1 DEF ReservationInv, Unshared, ReservationAccounting, Claim
<1>2. QED
  BY <1>1, ReservationInvHolds, PTL

(***************************************************************************)
(* No thread waits for itself, and no threads wait for each other          *)
(***************************************************************************)

OneManagerPerProcess ==
  \A m, n \in Manager : ManagerProcess[m] = ManagerProcess[n] => m = n

AllReject == \A r \in Requests : r.policy = "Reject"

(* Where every request is a Reject request and a process has one manager,
   no request sleeps for a lock of its own process. *)
THEOREM RejectNeverWaitsOnOwnProcessHolds ==
  ASSUME OneManagerPerProcess, AllReject
  PROVE  Spec => []RejectNeverWaitsOnOwnProcess
<1>1. ReservationInv => RejectNeverWaitsOnOwnProcess
  <2> SUFFICES ASSUME ReservationInv, NEW c \in Call, NEW d \in Call,
                      pc[c] = "blocking", Locking(d),
                      ThreadProcess[thr[d]] = ThreadProcess[thr[c]],
                      req[c].id = req[d].id
               PROVE  FALSE
    BY DEF RejectNeverWaitsOnOwnProcess
  <2>1. pc[c] \notin Inactive /\ pc[d] \notin Inactive /\ c # d
    BY DEF Locking, Inactive
  <2>2. Claims(c) /\ Claims(d)
    BY <2>1, RequestFields DEF Claims, AllReject, ReservationInv
  <2>3. req[c].mgr = req[d].mgr
    BY <2>1, RequestFields DEF OneManagerPerProcess, ReservationInv, OwnManager
  <2>4. QED
    BY <2>1, <2>2, <2>3 DEF ReservationInv, Unshared
<1>2. QED
  BY <1>1, ReservationInvHolds, PTL

(* A relation under which every element of a finite set has a greater one
   in it is no strict order: drop an element, send those below it to one
   above it, and so on until nothing is left. *)
Climbs(S, R) == S # {} /\ \A x \in S : \E y \in S : <<x, y>> \in R

LEMMA NoFiniteClimb ==
  ASSUME NEW S, IsFiniteSet(S), NEW R,
         \A x \in S : <<x, x>> \notin R,
         \A x, y, z \in S : <<x, y>> \in R /\ <<y, z>> \in R => <<x, z>> \in R
  PROVE  ~Climbs(S, R)
<1> SUFFICES ASSUME Climbs(S, R) PROVE FALSE
  OBVIOUS
<1> DEFINE Sizes == {n \in Nat : \E T \in SUBSET S : Cardinality(T) = n /\ Climbs(T, R)}
<1>1. Sizes # {}
  <2>1. Cardinality(S) \in Nat
    BY FS_CardinalityType
  <2>2. Cardinality(S) \in Sizes
    BY <2>1
  <2>3. QED
    BY <2>2
<1>2. PICK n \in Sizes : \A k \in Sizes : ~(<<k, n>> \in OpToRel(<, Nat))
  <2>1. Sizes \subseteq Nat
    OBVIOUS
  <2> HIDE DEF Sizes
  <2>2. QED
    BY <1>1, <2>1, NatLessThanWellFounded, WFMin
<1>3. PICK T \in SUBSET S : Cardinality(T) = n /\ Climbs(T, R)
  OBVIOUS
<1>4. PICK x \in T : TRUE
  BY <1>3 DEF Climbs
<1> DEFINE U == T \ {x}
<1>5. IsFiniteSet(T) /\ Cardinality(U) = n - 1 /\ U \in SUBSET S
  BY <1>3, <1>4, FS_Subset, FS_RemoveElement
<1>6. IsFiniteSet(U) /\ Cardinality(U) \in Nat
  BY <1>5, FS_Subset, FS_CardinalityType
<1>7. PICK y \in T : <<x, y>> \in R
  BY <1>3, <1>4 DEF Climbs
<1>8. y \in U
  BY <1>4, <1>7
<1>9. ASSUME NEW u \in U PROVE \E v \in U : <<u, v>> \in R
  <2>1. PICK v \in T : <<u, v>> \in R
    BY <1>3 DEF Climbs
  <2>2. CASE v = x
    BY <1>4, <1>7, <1>8, <2>1, <2>2
  <2>3. CASE v # x
    BY <2>1, <2>3
  <2>4. QED
    BY <2>2, <2>3
<1>10. Climbs(U, R)
  BY <1>8, <1>9 DEF Climbs
<1>11. n - 1 \in Sizes /\ n \in Nat
  BY <1>5, <1>6, <1>10
<1>12. <<n - 1, n>> \in OpToRel(<, Nat)
  BY <1>11 DEF OpToRel
<1>13. QED
  BY <1>2, <1>11, <1>12

(* Guards stay on the thread that acquired them. *)
Home == \A c \in Call : pc[c] = "held" => home[c] = thr[c]

LEMMA HomeHolds == ASSUME HandOver = {} PROVE Spec => [](TypeOK /\ Home)
<1>1. Init => TypeOK /\ Home
  BY InitTypeOK DEF Init, Home
<1>2. TypeOK /\ Home /\ [Next]_vars => (TypeOK /\ Home)'
  <2> SUFFICES ASSUME TypeOK, Home, [Next]_vars PROVE Home'
    BY NextTypeOK
  <2>1. ASSUME NEW c \in Call, NEW t \in Thread, NEW r \in Requests,
               AcquireBlocking(c, t, r) \/ TryAcquire(c, t, r)
        PROVE  Home'
    BY <2>1 DEF AcquireBlocking, TryAcquire, Start, Goto, Home, TypeOK
  <2>2. ASSUME NEW c \in Call, CallStep(c) PROVE Home'
    <3>1. CASE KernelGrant(c) \/ NativeError(c) \/ Contended(c)
      BY <3>1 DEF KernelGrant, NativeError, Contended, Goto, Home, TypeOK
    <3>2. CASE AbandonAttempt(c) \/ FinishRelease(c) \/ SinkPanic(c)
      BY <3>2 DEF AbandonAttempt, FinishRelease, SinkPanic, Finish, Rest, Goto, Home, TypeOK
    <3>3. CASE ReturnGuard(c)
      BY <3>3 DEF ReturnGuard, Goto, Home, TypeOK
    <3>4. CASE Release(c)
      BY <3>4 DEF Release, Goto, Home, TypeOK
    <3>5. QED
      BY <2>2, <3>1, <3>2, <3>3, <3>4 DEF CallStep
  <2>3. ASSUME NEW c \in Call, NEW u \in Thread, MoveGuard(c, u) PROVE Home'
    BY <2>3 DEF MoveGuard
  <2>4. ASSUME NEW p \in Process, Crash(p) PROVE Home'
    BY <2>4 DEF Crash, Rest, Home, TypeOK
  <2>5. CASE UNCHANGED vars
    BY <2>5 DEF vars, Home
  <2>6. QED
    BY <2>1, <2>2, <2>3, <2>4, <2>5 DEF Next
<1>3. QED
  BY <1>1, <1>2, PTL DEF Spec

ClassPerIdentity == \A r, s \in Requests : r.id = s.id => r.rank = s.rank

DistinctKeys == \A i, j \in Identity : PathKey[i] = PathKey[j] => i = j

(* A waits-for edge: c is asleep for the lock of d, which is with the thread
   of b. *)
Edge(c, d, b) == req[d].id = req[c].id /\ thr[b] = thr[d]

(* The edges of a ring do not all climb in the order of entries. *)
LEMMA RingStopsClimbing ==
  ASSUME IsFiniteSet(Call), NEW S \in SUBSET Call, S # {}, Stuck(S),
         \A c \in S : req[c] \in Requests
  PROVE  \E c, b \in S, d \in locked : /\ Edge(c, d, b)
                                       /\ ~Before(Entry(req[c]), Entry(req[b]))
<1> SUFFICES ASSUME \A c, b \in S, d \in locked :
                       Edge(c, d, b) => Before(Entry(req[c]), Entry(req[b]))
             PROVE  FALSE
  OBVIOUS
<1> DEFINE R == {e \in S \X S : Before(Entry(req[e[1]]), Entry(req[e[2]]))}
<1>1. \A c \in S : req[c].rank \in Nat /\ PathKey[req[c].id] \in Nat
  BY ConstantsAssumption DEF RequestType
<1>2. \A x \in S : <<x, x>> \notin R
  BY <1>1 DEF Before, Entry
<1>3. \A x, y, z \in S : <<x, y>> \in R /\ <<y, z>> \in R => <<x, z>> \in R
  BY <1>1 DEF Before, Entry
<1>4. Climbs(S, R)
  BY DEF Climbs, Stuck, Edge
<1>5. IsFiniteSet(S)
  BY FS_Subset
<1> HIDE DEF R
<1>6. QED
  BY <1>2, <1>3, <1>4, <1>5, NoFiniteClimb

(* The request of a sleeping call, and of an owner that a sleeping thread
   has. *)
LEMMA EdgeRequests ==
  ASSUME OrderInv, NEW c \in Call, NEW d \in locked, NEW b \in Call,
         pc[c] = "blocking", pc[b] = "blocking", Edge(c, d, b)
  PROVE  /\ req[c] \in Requests /\ req[b] \in Requests /\ req[d] \in Requests
         /\ d \in Call /\ pc[d] = "held"
<1> USE DEF OrderInv, OrderFacts, Exclusion
<1>1. /\ d \in Call /\ Locking(d) /\ pc[d] \notin Inactive
      /\ pc[c] \notin Inactive /\ pc[b] \notin Inactive
  BY DEF GuardsHoldTheirDescriptors, Locking, Inactive
<1>2. req[c] \in Requests /\ req[b] \in Requests /\ req[d] \in Requests
  BY <1>1, RequestFields
<1>3. pc[d] = "held"
  BY <1>1 DEF OneCallPerThread, InCall, Locking, Inactive, Edge
<1>4. QED
  BY <1>1, <1>2, <1>3

(* An edge through a guard that is where it was registered, under one class
   on both sides, does not go down. *)
LEMMA EdgeGoesNotDown ==
  ASSUME OrderInv, NEW c \in Call, NEW d \in locked, NEW b \in Call,
         pc[c] = "blocking", pc[b] = "blocking", Edge(c, d, b),
         home[d] = thr[d], req[d].rank = req[c].rank
  PROVE  ~Before(Entry(req[b]), Entry(req[c]))
<1> USE DEF OrderInv, OrderFacts
<1>1. d \in Call /\ pc[d] = "held" /\ req[d] \in Requests
  BY EdgeRequests
<1>2. Entry(req[d]) \in Entries /\ order[thr[b]][Entry(req[d])] > 0
  BY <1>1, EntryInEntries DEF Registered, Edge
<1>3. Entry(req[d]) = Entry(req[c])
  BY DEF Entry, Edge
<1>4. QED
  BY <1>2, <1>3 DEF WaitsInOrder, OrderInversion

Level(e, f) == e[1] = f[1] /\ PathKey[e[2]] = PathKey[f[2]]

(* What a ring of waiters needs.  Somewhere in it a thread owns a guard that
   was acquired on another thread; or an identity is owned under one class
   and waited for under another; or a thread that owns an identity waits for
   one of the same class and sort key, which may be the same again. *)
RingsHaveACause ==
  \A S \in (SUBSET Call) \ {{}} :
     Stuck(S) =>
        \E c, b \in S, d \in locked :
           /\ Edge(c, d, b)
           /\ \/ home[d] # thr[d]
              \/ req[d].rank # req[c].rank
              \/ Level(Entry(req[c]), Entry(req[b]))

(* HELD_LOCK_ORDER excludes every deadlock but those with a cause that it
   does not see.  Nothing is assumed of the callers: any policies, managers,
   classes, keys and moves of guards. *)
THEOREM RingsHaveACauseHolds == ASSUME IsFiniteSet(Call) PROVE Spec => []RingsHaveACause
<1>1. OrderInv => RingsHaveACause
  <2> SUFFICES ASSUME OrderInv, NEW S \in SUBSET Call, S # {}, Stuck(S)
               PROVE  \E c, b \in S, d \in locked :
                         /\ Edge(c, d, b)
                         /\ \/ home[d] # thr[d]
                            \/ req[d].rank # req[c].rank
                            \/ Level(Entry(req[c]), Entry(req[b]))
    BY DEF RingsHaveACause
  <2>1. \A c \in S : pc[c] = "blocking" /\ req[c] \in Requests
    BY EdgeRequests DEF Stuck, Edge
  <2>2. PICK c \in S, b \in S, d \in locked :
           Edge(c, d, b) /\ ~Before(Entry(req[c]), Entry(req[b]))
    BY <2>1, RingStopsClimbing
  <2>3. CASE home[d] = thr[d] /\ req[d].rank = req[c].rank
    <3>1. ~Before(Entry(req[b]), Entry(req[c]))
      BY <2>1, <2>2, <2>3, EdgeGoesNotDown
    <3>2. /\ req[c].rank \in Nat /\ PathKey[req[c].id] \in Nat
          /\ req[b].rank \in Nat /\ PathKey[req[b].id] \in Nat
      BY <2>1, ConstantsAssumption DEF RequestType
    <3>3. Level(Entry(req[c]), Entry(req[b]))
      BY <2>2, <3>1, <3>2 DEF Before, Entry, Level
    <3>4. QED
      BY <2>2, <3>3
  <2>4. QED
    BY <2>2, <2>3
<1>2. QED
  BY <1>1, OrderInvHolds, PTL

(* A thread asleep for a lock that it owns. *)
WaitsForItself(c) ==
  pc[c] = "blocking" /\ \E d \in locked : thr[d] = thr[c] /\ req[d].id = req[c].id

RingsAreSelfWaits ==
  \A S \in (SUBSET Call) \ {{}} : Stuck(S) => \E c \in S : WaitsForItself(c)

(* Where guards stay on their threads, each identity has one class, and sort
   keys are distinct, threads never wait for each other: a deadlock is a
   thread that waits for itself, with Queue requests or two managers. *)
THEOREM RingsAreSelfWaitsHolds ==
  ASSUME HandOver = {}, ClassPerIdentity, DistinctKeys, IsFiniteSet(Call)
  PROVE  Spec => []RingsAreSelfWaits
<1>1. OrderInv /\ RingsHaveACause /\ Home => RingsAreSelfWaits
  <2> SUFFICES ASSUME OrderInv, RingsHaveACause, Home,
                      NEW S \in SUBSET Call, S # {}, Stuck(S)
               PROVE  \E c \in S : WaitsForItself(c)
    BY DEF RingsAreSelfWaits
  <2>1. PICK c \in S, b \in S, d \in locked :
           /\ Edge(c, d, b)
           /\ \/ home[d] # thr[d]
              \/ req[d].rank # req[c].rank
              \/ Level(Entry(req[c]), Entry(req[b]))
    BY DEF RingsHaveACause
  <2>2. pc[c] = "blocking" /\ pc[b] = "blocking"
    BY DEF Stuck
  <2>3. /\ req[c] \in Requests /\ req[b] \in Requests /\ req[d] \in Requests
        /\ d \in Call /\ pc[d] = "held"
    BY <2>1, <2>2, EdgeRequests
  <2>4. home[d] = thr[d] /\ req[d].rank = req[c].rank
    BY <2>1, <2>3 DEF Home, ClassPerIdentity, Edge
  <2>5. req[c].id = req[b].id
    BY <2>1, <2>3, <2>4, ConstantsAssumption DEF RequestType, DistinctKeys, Level, Entry
  <2>6. QED
    BY <2>1, <2>2, <2>5 DEF WaitsForItself, Edge
<1>2. QED
  BY <1>1, OrderInvHolds, RingsHaveACauseHolds, HomeHolds, PTL

(* Callers never wait for each other in a ring, however many threads,
   processes and locks there are: where guards stay on their threads, each
   identity has one class, sort keys are distinct, requests are Reject
   requests, and a process has one manager. *)
THEOREM NoWaitCycleHolds ==
  ASSUME HandOver = {}, ClassPerIdentity, DistinctKeys, OneManagerPerProcess, AllReject,
         IsFiniteSet(Call)
  PROVE  Spec => []NoWaitCycle
<1>1. OrderInv /\ RingsAreSelfWaits /\ RejectNeverWaitsOnOwnProcess => NoWaitCycle
  <2> SUFFICES ASSUME OrderInv, RejectNeverWaitsOnOwnProcess,
                      NEW c \in Call, WaitsForItself(c)
               PROVE  FALSE
    BY DEF NoWaitCycle, RingsAreSelfWaits
  <2>1. PICK d \in locked : Edge(c, d, c)
    BY DEF WaitsForItself, Edge
  <2>2. req[c] \in Requests /\ d \in Call /\ pc[d] = "held"
    BY <2>1, EdgeRequests DEF WaitsForItself
  <2>3. QED
    BY <2>1, <2>2
    DEF WaitsForItself, RejectNeverWaitsOnOwnProcess, AllReject, Locking, Edge
<1>2. QED
  BY <1>1, OrderInvHolds, RingsAreSelfWaitsHolds, RejectNeverWaitsOnOwnProcessHolds, PTL

=============================================================================
