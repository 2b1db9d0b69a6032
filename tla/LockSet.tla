-------------------------------- MODULE LockSet --------------------------------
(***************************************************************************)
(* acquire_many_blocking and LockSetGuard (src/lib.rs) over LockManager:   *)
(* each thread acquires a set of locks member by member, through the       *)
(* manager's own steps, gives all of them back when one member fails, and  *)
(* releases a complete set in reverse.  Other threads run in between.      *)
(*                                                                         *)
(* A panic of the event sink (LockManager!SinkPanic) and guards that leave *)
(* their threads are left to LockManager's own runs.                       *)
(***************************************************************************)
EXTENDS LockManager, SequencesExt

CONSTANTS
  LockSets,         \* the sequences of requests that callers pass
  Slots             \* the call slots a thread uses for the members of its set

ASSUME LockSetAssumption ==
  /\ LockSets \subseteq Seq(Requests)
  /\ Slots \in [Thread -> Seq(Call)]
  /\ \A t \in Thread, s \in LockSets : Len(s) <= Len(Slots[t])
  /\ \A s \in LockSets : \A i, j \in DOMAIN s : s[i].mgr = s[j].mgr

VARIABLES
  phase,            \* "none", "acquiring", "unwinding" or "owned", of each thread's set
  todo,             \* the members not yet started
  guards,           \* the calls whose guards the set has, in the order acquired
  asked             \* the members requested, of a set being acquired or owned

setVars == <<phase, todo, guards, asked>>

allVars == <<vars, setVars>>

SetInit ==
  /\ Init
  /\ phase = [t \in Thread |-> "none"]
  /\ todo = [t \in Thread |-> <<>>]
  /\ guards = [t \in Thread |-> <<>>]
  /\ asked = [t \in Thread |-> {}]

(***************************************************************************)
(* requests.sort_by: stable, by class and then by path_sort_key.           *)
(***************************************************************************)
Follows(s, i, j) ==
  \/ Before(Entry(s[j]), Entry(s[i]))
  \/ ~Before(Entry(s[i]), Entry(s[j])) /\ j <= i

Place(s, i) == Cardinality({j \in DOMAIN s : Follows(s, i, j)})

(* Mutant: the members stay in the caller's order. *)
Unsorted(s) == s

Sorted(s) == [k \in DOMAIN s |-> s[CHOOSE i \in DOMAIN s : Place(s, i) = k]]

(* Mutant: only requests that agree in everything count as duplicates. *)
DuplicateRequests(s) == \E i, j \in DOMAIN s : i # j /\ s[i] = s[j]

Duplicates(s) == \E i, j \in DOMAIN s : i # j /\ s[i].id = s[j].id

Goes(t, p) == phase' = [phase EXCEPT ![t] = p]

(* Canonicalize, sort, and refuse duplicates.  A set that is refused, or
   whose paths cannot be opened, changes nothing. *)
AcquireMany(t, s) ==
  /\ phase[t] = "none"
  /\ \A k \in DOMAIN Slots[t] : pc[Slots[t][k]] = "idle"
  /\ \A i \in DOMAIN s : MayUse(t, s[i])
  /\ ~Duplicates(s)
  /\ Goes(t, IF s = <<>> THEN "owned" ELSE "acquiring")
  /\ todo' = [todo EXCEPT ![t] = Sorted(s)]
  /\ asked' = [asked EXCEPT ![t] = ToSet(s)]
  /\ UNCHANGED <<vars, guards>>

Acquiring(t) == phase[t] = "acquiring" /\ ~Busy(t)

(* The next member enters acquire_blocking. *)
StartMember(t) ==
  /\ Acquiring(t)
  /\ todo[t] # <<>>
  /\ Len(guards[t]) < Len(Slots[t])             \* bound
  /\ AcquireBlocking(Slots[t][Len(guards[t]) + 1], t, Head(todo[t]))
  /\ todo' = [todo EXCEPT ![t] = Tail(@)]
  /\ UNCHANGED <<phase, guards, asked>>

(* unwind_in_reverse begins: the members to come are dropped. *)
GiveUp(t) ==
  /\ Goes(t, IF guards[t] = <<>> THEN "none" ELSE "unwinding")
  /\ todo' = [todo EXCEPT ![t] = <<>>]
  /\ asked' = [asked EXCEPT ![t] = {}]
  /\ UNCHANGED guards

(* Mutant: the loop goes on with the next member. *)
MemberSkipped(t) ==
  /\ Acquiring(t)
  /\ todo[t] # <<>>
  /\ todo' = [todo EXCEPT ![t] = Tail(@)]
  /\ Goes(t, IF Len(todo[t]) = 1 THEN "owned" ELSE "acquiring")
  /\ UNCHANGED <<vars, guards, asked>>

(* It fails at once: the path cannot be opened, the order check or the
   reservation refuses it. *)
MemberRefused(t) ==
  /\ Acquiring(t)
  /\ todo[t] # <<>>
  /\ GiveUp(t)
  /\ UNCHANGED vars

(* It fails in the kernel. *)
MemberFails(c) ==
  /\ AbandonAttempt(c)
  /\ GiveUp(thr[c])

(* guards.push, and LockSetGuard when it was the last member. *)
MemberAcquired(c) ==
  /\ ReturnGuard(c)
  /\ guards' = [guards EXCEPT ![thr[c]] = Append(@, c)]
  /\ IF todo[thr[c]] = <<>> THEN Goes(thr[c], "owned") ELSE UNCHANGED phase
  /\ UNCHANGED <<todo, asked>>

(* LockSetGuard::release or its drop begins. *)
ReleaseSet(t) ==
  /\ phase[t] = "owned"
  /\ Goes(t, IF guards[t] = <<>> THEN "none" ELSE "unwinding")
  /\ asked' = [asked EXCEPT ![t] = {}]
  /\ UNCHANGED <<vars, todo, guards>>

(* Mutant: the guards are dropped in the order they were acquired. *)
PopFirst(t) ==
  /\ phase[t] = "unwinding" /\ guards[t] # <<>>
  /\ Release(Head(guards[t]))
  /\ guards' = [guards EXCEPT ![t] = Tail(@)]
  /\ UNCHANGED <<phase, todo, asked>>

(* Mutant: the last guard is released where it is, and stays. *)
PopNothing(t) ==
  /\ phase[t] = "unwinding" /\ guards[t] # <<>>
  /\ Release(Last(guards[t]))
  /\ UNCHANGED setVars

(* unwind_in_reverse and the loop of LockSetGuard::release: pop the last
   guard and release it.  An unlock error is kept for later. *)
Pop(t) ==
  /\ phase[t] = "unwinding" /\ guards[t] # <<>>
  /\ Release(Last(guards[t]))
  /\ guards' = [guards EXCEPT ![t] = Front(@)]
  /\ UNCHANGED <<phase, todo, asked>>

(* The release of the member is over, and the call with the last one. *)
Popped(c) ==
  /\ FinishRelease(c)
  /\ IF guards[thr[c]] = <<>> THEN Goes(thr[c], "none") ELSE UNCHANGED phase
  /\ UNCHANGED <<todo, guards, asked>>

CrashSets(p) ==
  LET kept(f, x) == [t \in Thread |-> IF ThreadProcess[t] = p THEN x ELSE f[t]] IN
  /\ Crash(p)
  /\ phase' = kept(phase, "none")
  /\ todo' = kept(todo, <<>>)
  /\ guards' = kept(guards, <<>>)
  /\ asked' = kept(asked, {})

KernelStep(c) == (KernelGrant(c) \/ NativeError(c)) /\ UNCHANGED setVars

SetStep(t) == StartMember(t) \/ MemberRefused(t) \/ ReleaseSet(t) \/ Pop(t)

MemberStep(c) == MemberFails(c) \/ MemberAcquired(c) \/ Popped(c)

SetNext ==
  \/ \E t \in Thread, s \in LockSets : AcquireMany(t, s)
  \/ \E t \in Thread : SetStep(t)
  \/ \E c \in Call : KernelStep(c) \/ MemberStep(c)
  \/ \E p \in Process : CrashSets(p)

SetSpec == SetInit /\ [][SetNext]_allVars

(***************************************************************************)
(* Fairness: a thread inside a call goes on, the kernel does not leave a   *)
(* lock free with a waiter asleep for it, and owners release their sets.   *)
(***************************************************************************)
SetFairness ==
  /\ \A t \in Thread : WF_allVars(SetStep(t))
  /\ \A c \in Call : /\ WF_allVars(KernelGrant(c) /\ UNCHANGED setVars)
                     /\ WF_allVars(MemberStep(c))

FairSetSpec == SetSpec /\ SetFairness

-----------------------------------------------------------------------------

(* Every variable has its type, and a set's guards are held calls of its
   own thread. *)
SetTypeOK ==
  /\ TypeOK
  /\ phase \in [Thread -> {"none", "acquiring", "unwinding", "owned"}]
  /\ asked \in [Thread -> SUBSET Requests]
  /\ \A t \in Thread :
        /\ todo[t] \in Seq(Requests)
        /\ \A k \in DOMAIN guards[t] : LET c == guards[t][k] IN
              c \in Call /\ pc[c] = "held" /\ thr[c] = t

(* All or nothing: a call that failed at any member, and a set that was
   released, leaves its thread without a guard, a kernel lock, an entry of
   HELD_LOCK_ORDER or a reservation; and a set that is owned has a guard
   for each request that was asked for, and for nothing else. *)
AllOrNothing ==
  /\ \A t \in Thread : phase[t] = "none" =>
        /\ \A c \in Call : thr[c] # t
        /\ \A e \in Entries : order[t][e] = 0
  /\ \A m \in Manager :
        (\A t \in Thread : ThreadProcess[t] = ManagerProcess[m] => phase[t] = "none")
        => reserved[m] = {}
  /\ \A t \in Thread : phase[t] = "owned" =>
        /\ ~Busy(t)
        /\ asked[t] = {req[guards[t][k]] : k \in DOMAIN guards[t]}

(* "or use acquire_many_blocking": whatever order the caller lists them in,
   no member of a set fails the check against those acquired before it. *)
SetsPassOrderCheck ==
  \A t \in Thread :
     Acquiring(t) /\ todo[t] # <<>> => ~OrderInversion(t, Head(todo[t]))

(* Guards are released in reverse order: whatever a thread unlocks, short of
   its end, none of the set that it still holds is above it. *)
ReleasedInReverse ==
  [][\A c \in locked \ locked' :
        pc'[c] = "unlocked" =>
           \A d \in locked' :
              thr[d] = thr[c] => ~Before(Entry(req[c]), Entry(req[d]))]_allVars

(* "a lock set in deterministic hierarchy order": two sets never hold one
   of two locks each and still need the other's. *)
NeedsAndHolds(t, i, j) ==
  /\ \E c \in locked : thr[c] = t /\ req[c].id = j
  /\ \/ \E k \in DOMAIN todo[t] : todo[t][k].id = i
     \/ \E c \in Call : thr[c] = t /\ pc[c] = "blocking" /\ req[c].id = i

DeterministicOrder ==
  \A t, u \in Thread, i, j \in Identity : ~(NeedsAndHolds(t, i, j) /\ NeedsAndHolds(u, j, i))

(* Every acquire_many_blocking returns, with the whole set or with nothing:
   neither sets that overlap nor members that fail leave it waiting. *)
SetsReturn ==
  \A t \in Thread : phase[t] = "acquiring" ~> phase[t] \in {"owned", "none"}

=============================================================================
