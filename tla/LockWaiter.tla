------------------------------ MODULE LockWaiter ------------------------------
(***************************************************************************)
(* One LockWaiter (src/lib.rs): the worker thread that runs the blocking   *)
(* acquisition, the receiver that waits for it, polls it or gives it up,   *)
(* and SharedWait between them.  The mutex of SharedWait protects one step *)
(* at a time here; everything done outside it is a step of its own, so     *)
(* that a result may come at any point of a timeout, a drop or a poll.     *)
(***************************************************************************)
EXTENDS FiniteSets

CONSTANTS
  Task,             \* the tasks that may poll the waiter, each with its own waker
  NoTask,           \* no waker
  WakeMayPanic,     \* whether Waker::wake may panic
  SinkMayPanic      \* whether the event sink may panic on TimedOut or Cancelled

ASSUME WaiterAssumption ==
  /\ NoTask \notin Task
  /\ WakeMayPanic \in BOOLEAN
  /\ SinkMayPanic \in BOOLEAN

(***************************************************************************)
(* The worker: "acquiring" runs the closure; "settling" has its result;    *)
(* "notifying" has published it; "waking" has notified the condition       *)
(* variable; "discarding" found the receiver gone; then the thread ends.   *)
(***************************************************************************)
WorkerPhase ==
  {"acquiring", "settling", "notifying", "waking", "discarding", "exited", "panicked"}

(***************************************************************************)
(* The handle: "idle" between calls; "checking" looks for a result under   *)
(* the mutex and "asleep" waits on the condition variable, both in wait or *)
(* wait_timeout; "joining" has the result and joins the worker; "expired"  *)
(* is acquire_timeout after its deadline; "cancelling" and "detaching" are *)
(* the two halves of Drop.                                                 *)
(***************************************************************************)
HandlePhase ==
  {"idle", "checking", "asleep", "joining", "expired", "cancelling", "detaching", "gone"}

Result == {"none", "guard", "error"}

VARIABLES
  worker,           \* phase of the worker thread
  outcome,          \* what the acquire closure returned
  result,           \* state.result
  receiver_alive,   \* state.receiver_alive
  waker,            \* state.waker
  taken,            \* the waker that the worker took out of the state
  handle,           \* phase of the LockWaiter
  call,             \* the method in progress: "none", "wait", "wait_timeout", "poll"
  timed,            \* the handle is the local variable of acquire_timeout
  completed,        \* LockWaiter.completed
  on_cancel,        \* LockWaiter.on_cancel is still there
  hand,             \* the result that a method took out of the state
  caller,           \* what the caller got
  released,         \* the library has dropped the guard
  events,           \* terminal events emitted for the receiver
  panicked,         \* the sink has panicked
  parked,           \* the task that last polled Pending
  woken             \* the tasks woken since they last polled

state == <<result, receiver_alive, waker>>
tasks == <<parked, woken>>
fate == <<caller, released, events, panicked>>
handleVars == <<handle, call, timed, completed, on_cancel, hand>>
workerVars == <<worker, outcome, taken>>

vars == <<state, tasks, fate, handleVars, workerVars>>

(* A waiter from acquire (or spawn, which has no cancel callback), or the
   one inside acquire_timeout, which goes straight to wait_timeout. *)
Init ==
  /\ worker = "acquiring" /\ outcome = "none" /\ taken = NoTask
  /\ result = "none" /\ receiver_alive = TRUE /\ waker = NoTask
  /\ timed \in BOOLEAN /\ on_cancel \in BOOLEAN /\ (timed => on_cancel)
  /\ handle = (IF timed THEN "checking" ELSE "idle")
  /\ call = (IF timed THEN "wait_timeout" ELSE "none")
  /\ completed = FALSE /\ hand = "none"
  /\ caller = "none" /\ released = FALSE /\ events = {} /\ panicked = FALSE
  /\ parked = NoTask /\ woken = {}

Ended(w) == w \in {"exited", "panicked"}

(* Dropping a result drops the guard in it, which releases the lock. *)
Dropping(r) == released' = (released \/ r = "guard")

(* The last of the worker and the handle to go drops SharedWait and with it
   a result that nobody took. *)
LastOwner(other) == IF other THEN result' = "none" /\ Dropping(result)
                    ELSE UNCHANGED <<result, released>>

-----------------------------------------------------------------------------
(* The worker thread. *)

(* The closure returns, or panics and is caught, after any time. *)
Acquire ==
  /\ worker = "acquiring"
  /\ outcome' \in {"guard", "error"}
  /\ worker' = "settling"
  /\ UNCHANGED <<taken, state, tasks, fate, handleVars>>

(* Under the mutex: publish and take the waker, or find the receiver gone. *)
Settle ==
  /\ worker = "settling"
  /\ IF receiver_alive
     THEN /\ result' = outcome
          /\ taken' = waker
          /\ waker' = NoTask
          /\ worker' = "notifying"
     ELSE /\ worker' = "discarding"
          /\ UNCHANGED <<result, waker, taken>>
  /\ UNCHANGED <<outcome, receiver_alive, tasks, fate, handleVars>>

(* Mutant: the result of a detached request is forgotten, not dropped. *)
DiscardForgets ==
  /\ worker = "discarding"
  /\ worker' = "exited"
  /\ UNCHANGED <<outcome, taken, state, tasks, fate, handleVars>>

(* drop(result) of a detached request, and the end of the thread. *)
Discard ==
  /\ worker = "discarding"
  /\ worker' = "exited"
  /\ Dropping(outcome)
  /\ UNCHANGED <<outcome, taken, state, tasks, caller, events, panicked, handleVars>>

(* Mutant: whoever has a waker is not waiting on the condition variable. *)
NotifyWithoutWaker ==
  /\ worker = "notifying"
  /\ handle' = IF handle = "asleep" /\ taken = NoTask THEN "checking" ELSE handle
  /\ worker' = "waking"
  /\ UNCHANGED <<outcome, taken, state, tasks, fate,
                 call, timed, completed, on_cancel, hand>>

(* notify_all *)
Notify ==
  /\ worker = "notifying"
  /\ handle' = IF handle = "asleep" THEN "checking" ELSE handle
  /\ worker' = "waking"
  /\ UNCHANGED <<outcome, taken, state, tasks, fate,
                 call, timed, completed, on_cancel, hand>>

(* Mutant: the waker is taken for granted. *)
WakeUnchecked ==
  /\ worker = "waking"
  /\ woken' = woken \cup {taken}
  /\ worker' = "exited"
  /\ taken' = NoTask
  /\ LastOwner(handle = "gone")
  /\ UNCHANGED <<outcome, receiver_alive, waker, parked, caller, events, panicked,
                 handleVars>>

(* waker.wake() if there was one, and the end of the thread, by which its
   share of SharedWait goes. *)
Wake ==
  /\ worker = "waking"
  /\ \/ /\ woken' = woken \cup ({taken} \ {NoTask})
        /\ worker' = "exited"
     \/ /\ WakeMayPanic /\ taken # NoTask
        /\ worker' = "panicked"
        /\ UNCHANGED woken
  /\ taken' = NoTask
  /\ LastOwner(handle = "gone")
  /\ UNCHANGED <<outcome, receiver_alive, waker, parked, caller, events, panicked,
                 handleVars>>

-----------------------------------------------------------------------------
(* The receiver: wait, wait_timeout, poll. *)

Begin(method) ==
  /\ handle = "idle" /\ ~timed /\ ~completed
  /\ handle' = "checking"
  /\ call' = method
  /\ UNCHANGED <<timed, completed, on_cancel, hand, workerVars, state, tasks, fate>>

Wait == Begin("wait")

WaitTimeout == Begin("wait_timeout")

(* Mutant: the result is shared instead of taken. *)
TakeResultShared ==
  /\ result # "none"
  /\ hand' = result
  /\ completed' = TRUE
  /\ on_cancel' = FALSE
  /\ handle' = "joining"
  /\ UNCHANGED result

(* state.result.take() and the first lines of finish. *)
TakeResult ==
  /\ result # "none"
  /\ hand' = result
  /\ result' = "none"
  /\ completed' = TRUE
  /\ on_cancel' = FALSE
  /\ handle' = "joining"

Take ==
  /\ handle = "checking"
  /\ TakeResult
  /\ UNCHANGED <<call, timed, receiver_alive, waker, workerVars, tasks, fate>>

Sleep ==
  /\ handle = "checking"
  /\ result = "none"
  /\ handle' = "asleep"
  /\ UNCHANGED <<call, timed, completed, on_cancel, hand, workerVars, state, tasks, fate>>

(* A condition variable may wake up for nothing, or for the deadline. *)
SpuriousWakeup ==
  /\ handle = "asleep"
  /\ handle' = "checking"
  /\ UNCHANGED <<call, timed, completed, on_cancel, hand, workerVars, state, tasks, fate>>

(* The deadline has passed and there is no result. *)
TimeOut ==
  /\ handle \in {"checking", "asleep"} /\ call = "wait_timeout"
  /\ result = "none"
  /\ handle' = IF timed THEN "expired" ELSE "idle"
  /\ call' = "none"
  /\ UNCHANGED <<timed, completed, on_cancel, hand, workerVars, state, tasks, fate>>

(* Mutant: a waker that is there already is kept. *)
PollKeepsWaker(k) ==
  /\ handle = "idle" /\ ~timed /\ ~completed
  /\ woken' = woken \ {k}
  /\ \/ /\ TakeResult
        /\ call' = "poll"
        /\ parked' = NoTask
        /\ UNCHANGED waker
     \/ /\ result = "none"
        /\ waker' = IF waker = NoTask THEN k ELSE waker
        /\ parked' = k
        /\ UNCHANGED <<handle, call, completed, on_cancel, hand, result>>
  /\ UNCHANGED <<timed, receiver_alive, workerVars, fate>>

(* poll, from any task at any time: the result, or this task's waker in
   place of any other. *)
Poll(k) ==
  /\ handle = "idle" /\ ~timed /\ ~completed
  /\ woken' = woken \ {k}
  /\ \/ /\ TakeResult
        /\ call' = "poll"
        /\ parked' = NoTask
        /\ UNCHANGED waker
     \/ /\ result = "none"
        /\ waker' = k
        /\ parked' = k
        /\ UNCHANGED <<handle, call, completed, on_cancel, hand, result>>
  /\ UNCHANGED <<timed, receiver_alive, workerVars, fate>>

(* join_worker, which waits for the worker to end, and the return.  A
   worker that panicked costs the caller the result.  wait consumes the
   handle, and acquire_timeout drops it when it returns. *)
Join ==
  /\ handle = "joining"
  /\ Ended(worker)
  /\ IF worker = "panicked"
     THEN caller' = "error" /\ Dropping(hand)
     ELSE caller' = hand /\ UNCHANGED released
  /\ hand' = "none"
  /\ handle' = IF call = "wait" \/ timed THEN "gone" ELSE "idle"
  /\ call' = "none"
  /\ UNCHANGED <<timed, completed, on_cancel, workerVars, state, tasks, events, panicked>>

-----------------------------------------------------------------------------
(* The receiver: giving up. *)

Terminal(kind) == events' = events \cup {kind}

(* Mutant: acquire_timeout without suppress_cancel_event. *)
ExpireUnsuppressed ==
  /\ handle = "expired"
  /\ Terminal("TimedOut")
  /\ handle' = "cancelling"
  /\ UNCHANGED <<call, timed, completed, on_cancel, hand, workerVars, state, tasks,
                 caller, released, panicked>>

(* acquire_timeout emits TimedOut, suppresses the cancel callback and drops
   the waiter.  When the sink panics, unwinding drops it unsuppressed. *)
Expire ==
  /\ handle = "expired"
  /\ Terminal("TimedOut")
  /\ handle' = "cancelling"
  /\ \/ on_cancel' = FALSE /\ UNCHANGED panicked
     \/ SinkMayPanic /\ panicked' = TRUE /\ UNCHANGED on_cancel
  /\ UNCHANGED <<call, timed, completed, hand, workerVars, state, tasks, caller, released>>

(* The caller drops the handle: at once after completion, else through the
   cancel callback. *)
DropHandle ==
  /\ handle = "idle" /\ ~timed
  /\ handle' = IF completed THEN "gone" ELSE "cancelling"
  /\ UNCHANGED <<call, timed, completed, on_cancel, hand, workerVars, state, tasks, fate>>

(* on_cancel emits Cancelled. *)
Cancel ==
  /\ handle = "cancelling"
  /\ handle' = "detaching"
  /\ on_cancel' = FALSE
  /\ IF on_cancel THEN Terminal("Cancelled") ELSE UNCHANGED events
  /\ UNCHANGED <<call, timed, completed, hand, workerVars, state, tasks,
                 caller, released, panicked>>

(* When the sink panics here, the rest of Drop does not run: the fields are
   dropped, but receiver_alive stays.  (A second panic, while unwinding,
   would end the process.) *)
CancelPanics ==
  /\ handle = "cancelling" /\ on_cancel
  /\ SinkMayPanic /\ ~panicked
  /\ Terminal("Cancelled")
  /\ panicked' = TRUE
  /\ on_cancel' = FALSE
  /\ handle' = "gone"
  /\ LastOwner(Ended(worker))
  /\ UNCHANGED <<call, timed, completed, hand, workerVars, receiver_alive, waker,
                 tasks, caller>>

(* Under the mutex: no more receiver, no more waker, and no more result. *)
Detach ==
  /\ handle = "detaching"
  /\ handle' = "gone"
  /\ receiver_alive' = FALSE
  /\ waker' = NoTask
  /\ result' = "none"
  /\ Dropping(result)
  /\ UNCHANGED <<call, timed, completed, on_cancel, hand, workerVars, tasks,
                 caller, events, panicked>>

Next ==
  \/ Acquire \/ Settle \/ Discard \/ Notify \/ Wake
  \/ Wait \/ WaitTimeout \/ Take \/ Sleep \/ SpuriousWakeup \/ TimeOut
  \/ \E k \in Task : Poll(k)
  \/ Join \/ Expire \/ DropHandle \/ Cancel \/ CancelPanics \/ Detach

Spec == Init /\ [][Next]_vars

(***************************************************************************)
(* Fairness: the worker goes on once the kernel has answered (it may never *)
(* answer), a method that has been called goes on, and a task that was     *)
(* woken polls again.  Nobody has to call, to drop or to time out.         *)
(***************************************************************************)
Fairness ==
  /\ WF_vars(Settle) /\ WF_vars(Discard) /\ WF_vars(Notify) /\ WF_vars(Wake)
  /\ WF_vars(Take) /\ WF_vars(Join)
  /\ WF_vars(Expire) /\ WF_vars(Cancel) /\ WF_vars(Detach)
  /\ \A k \in Task : WF_vars(k \in woken /\ Poll(k))

FairSpec == Spec /\ Fairness

-----------------------------------------------------------------------------

(* Every variable has its type. *)
TypeOK ==
  /\ worker \in WorkerPhase /\ handle \in HandlePhase
  /\ outcome \in Result /\ result \in Result /\ hand \in Result /\ caller \in Result
  /\ waker \in Task \cup {NoTask} /\ taken \in Task \cup {NoTask}
  /\ parked \in Task \cup {NoTask} /\ woken \in SUBSET Task
  /\ call \in {"none", "wait", "wait_timeout", "poll"}
  /\ events \in SUBSET {"TimedOut", "Cancelled"}
  /\ receiver_alive \in BOOLEAN /\ timed \in BOOLEAN /\ completed \in BOOLEAN
  /\ on_cancel \in BOOLEAN /\ released \in BOOLEAN /\ panicked \in BOOLEAN

(* Where the guard is: in the worker's hands, in SharedWait, in a method's
   hands, with the caller, or dropped. *)
Owner == {"worker", "slot", "method", "caller", "dropped"}

Owns(x) ==
  \/ x = "worker" /\ worker \in {"settling", "discarding"} /\ outcome = "guard"
  \/ x = "slot" /\ result = "guard"
  \/ x = "method" /\ hand = "guard"
  \/ x = "caller" /\ caller = "guard"
  \/ x = "dropped" /\ released

(* The one guard that a successful acquisition yields is never lost and
   never in two places, wherever timeouts, drops, panics of the sink and
   panics of the waker cut in: it is not leaked locked, not handed out
   after it was dropped and not dropped after it was handed out. *)
OwnedOnce ==
  /\ outcome = "guard" => \E x \in Owner : Owns(x)
  /\ \A x \in Owner : Owns(x) => outcome = "guard"
  /\ \A x, y \in Owner : Owns(x) /\ Owns(y) => x = y

(* A request ends in one way: a caller told TimedOut or Cancelled gets
   neither guard nor error, and is told only one of the two (unless the sink
   itself panicked on TimedOut, which drops the waiter unsuppressed). *)
OneEnding ==
  /\ events # {} => caller = "none" /\ hand = "none"
  /\ ~panicked => events # {"TimedOut", "Cancelled"}

(* No wakeup is lost between the look at the result and the sleep, or when
   the waiter is polled by another task than before: while a result is
   there, a sleeper is about to be notified, and the task that saw Pending
   last has been woken or is about to be. *)
NoLostWakeup ==
  result # "none" =>
     /\ handle = "asleep" => worker = "notifying"
     /\ handle = "idle" /\ parked # NoTask =>
           \/ parked \in woken
           \/ taken = parked /\ worker \in {"notifying", "waking"}
           \/ worker = "panicked"

(* Once the acquisition has come to its end, a wait, a wait_timeout or the
   poll that found the result returns: nothing waits for a notification
   that has gone by or for a worker that waits itself. *)
CallsReturn == (call # "none" /\ worker # "acquiring") ~> (call = "none")

(* The guard and the caller's patience as the abstract handoff sees them. *)
GuardOf == IF outcome # "guard" THEN "none"
           ELSE IF caller = "guard" THEN "given"
           ELSE IF released THEN "released"
           ELSE "held"

GivenUp == /\ handle \in {"expired", "cancelling", "detaching", "gone"}
           /\ caller = "none"

Handoff == INSTANCE WaiterHandoff WITH guard <- GuardOf, over <- GivenUp

(* "No ownership can leak past the timeout": a guard goes to a caller who
   still waits or is released, and once the caller has given up it is
   released by the library alone. *)
ImplementsHandoff == Handoff!Spec

=============================================================================
