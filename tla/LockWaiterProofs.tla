--------------------------- MODULE LockWaiterProofs ---------------------------
(***************************************************************************)
(* What LockWaiter guarantees for every set of polling tasks and whatever  *)
(* panics: where the guard is, how a request ends, and that no wakeup is   *)
(* lost.                                                                   *)
(***************************************************************************)
EXTENDS LockWaiter, Naturals, TLAPS

Published == worker \in {"notifying", "waking", "exited", "panicked"}

(* The result exists from the end of the closure on, and is in one place. *)
ResultInv ==
  /\ worker = "acquiring" <=> outcome = "none"
  /\ result # "none" => /\ Published /\ result = outcome
                        /\ ~completed /\ ~released /\ receiver_alive
                        /\ handle = "gone" => ~Ended(worker)
  /\ hand # "none" <=> handle = "joining"
  /\ hand # "none" => Published /\ hand = outcome /\ result = "none" /\ ~released
  /\ released => /\ outcome = "guard" /\ result = "none" /\ hand = "none"
                 /\ worker \notin {"acquiring", "settling", "discarding"}
                 /\ caller # "guard"
  /\ caller # "none" => Published /\ (caller = "guard" => outcome = "guard")
  /\ Published => \/ result # "none" \/ hand # "none" \/ released
                  \/ caller = "guard" \/ outcome = "error"

(* Completion, and what it leaves possible. *)
HandleInv ==
  /\ completed <=> hand # "none" \/ caller # "none"
  /\ hand # "none" => caller = "none"
  /\ completed => Published /\ result = "none" /\ events = {}
  /\ handle \in {"checking", "asleep", "expired", "cancelling", "detaching"} => ~completed
  /\ ~receiver_alive => handle = "gone" /\ result = "none"
  /\ worker = "discarding" => ~receiver_alive
  /\ handle = "asleep" /\ result # "none" => worker = "notifying"

(* The terminal events of the receiver. *)
EventInv ==
  /\ events # {} => handle \in {"cancelling", "detaching", "gone"}
  /\ "Cancelled" \in events => handle \in {"detaching", "gone"}
  /\ "TimedOut" \in events /\ ~panicked => ~on_cancel /\ "Cancelled" \notin events
  /\ "TimedOut" \in events => handle # "expired"

(* The waker of the task that waits is in the state until the result is,
   and on its way to that task from then on. *)
WakerInv ==
  /\ parked # NoTask /\ worker \in {"acquiring", "settling"} /\ receiver_alive
        => waker = parked
  /\ parked # NoTask /\ result # "none"
        => \/ parked \in woken
           \/ taken = parked /\ worker \in {"notifying", "waking"}
           \/ worker = "panicked"

Facts == ResultInv /\ HandleInv /\ EventInv /\ WakerInv

IInv == TypeOK /\ Facts

LEMMA InitIInv == Init => IInv
  BY WaiterAssumption
  DEF Init, IInv, Facts, TypeOK, ResultInv, HandleInv, EventInv, WakerInv, WorkerPhase,
      HandlePhase, Result, Published, Ended

(* Typing, one lemma per group of actions. *)
LEMMA WorkerTypeOK ==
  ASSUME TypeOK, Acquire \/ Settle \/ Discard \/ Notify \/ Wake
  PROVE  TypeOK'
<1> USE WaiterAssumption
    DEF TypeOK, WorkerPhase, HandlePhase, Result, state, tasks, fate, handleVars, workerVars
<1>1. CASE Acquire
  BY <1>1 DEF Acquire
<1>2. CASE Settle
  BY <1>2 DEF Settle
<1>3. CASE Discard
  <2>1. released' \in BOOLEAN
    BY <1>3 DEF Discard, Dropping
  <2>2. QED
    BY <1>3, <2>1 DEF Discard, Dropping
<1>4. CASE Notify
  BY <1>4 DEF Notify
<1>5. CASE Wake
  <2>1. released' \in BOOLEAN
    BY <1>5 DEF Wake, LastOwner, Dropping
  <2>2. QED
    BY <1>5, <2>1 DEF Wake, LastOwner, Dropping
<1>6. QED
  BY <1>1, <1>2, <1>3, <1>4, <1>5

LEMMA WaitTypeOK ==
  ASSUME TypeOK, Wait \/ WaitTimeout \/ Take \/ Sleep \/ SpuriousWakeup \/ TimeOut
  PROVE  TypeOK'
<1> USE WaiterAssumption
    DEF TypeOK, WorkerPhase, HandlePhase, Result, state, tasks, fate, handleVars, workerVars
<1>1. CASE Wait
  BY <1>1 DEF Wait, Begin
<1>2. CASE WaitTimeout
  BY <1>2 DEF WaitTimeout, Begin
<1>3. CASE Take
  <2>1. completed' \in BOOLEAN /\ on_cancel' \in BOOLEAN
    BY <1>3 DEF Take, TakeResult
  <2>2. QED
    BY <1>3, <2>1 DEF Take, TakeResult
<1>4. CASE Sleep
  BY <1>4 DEF Sleep
<1>5. CASE SpuriousWakeup
  BY <1>5 DEF SpuriousWakeup
<1>6. CASE TimeOut
  BY <1>6 DEF TimeOut
<1>7. QED
  BY <1>1, <1>2, <1>3, <1>4, <1>5, <1>6

LEMMA GiveUpTypeOK ==
  ASSUME TypeOK, Join \/ Expire \/ DropHandle \/ Cancel \/ CancelPanics \/ Detach
  PROVE  TypeOK'
<1> USE WaiterAssumption
    DEF TypeOK, WorkerPhase, HandlePhase, Result, state, tasks, fate, handleVars, workerVars
<1>1. CASE Join
  <2>1. released' \in BOOLEAN
    BY <1>1 DEF Join, Dropping
  <2>2. QED
    BY <1>1, <2>1 DEF Join, Dropping
<1>2. CASE Expire
  <2>1. on_cancel' \in BOOLEAN /\ panicked' \in BOOLEAN
    BY <1>2 DEF Expire, Terminal
  <2>2. events' \in SUBSET {"TimedOut", "Cancelled"}
    BY <1>2 DEF Expire, Terminal
  <2>3. QED
    BY <1>2, <2>1, <2>2 DEF Expire, Terminal
<1>3. CASE DropHandle
  BY <1>3 DEF DropHandle
<1>4. CASE Cancel
  <2>1. on_cancel' \in BOOLEAN
    BY <1>4 DEF Cancel, Terminal
  <2>2. events' \in SUBSET {"TimedOut", "Cancelled"}
    BY <1>4 DEF Cancel, Terminal
  <2>3. QED
    BY <1>4, <2>1, <2>2 DEF Cancel, Terminal
<1>5. CASE CancelPanics
  <2>1. released' \in BOOLEAN /\ panicked' \in BOOLEAN /\ on_cancel' \in BOOLEAN
    BY <1>5 DEF CancelPanics, Terminal, LastOwner, Dropping
  <2>2. events' \in SUBSET {"TimedOut", "Cancelled"}
    BY <1>5 DEF CancelPanics, Terminal
  <2>3. QED
    BY <1>5, <2>1, <2>2 DEF CancelPanics, Terminal, LastOwner, Dropping
<1>6. CASE Detach
  <2>1. released' \in BOOLEAN /\ receiver_alive' \in BOOLEAN
    BY <1>6 DEF Detach, Dropping
  <2>2. QED
    BY <1>6, <2>1 DEF Detach, Dropping
<1>7. QED
  BY <1>1, <1>2, <1>3, <1>4, <1>5, <1>6

LEMMA PollTypeOK ==
  ASSUME TypeOK, NEW k \in Task, Poll(k)
  PROVE  TypeOK'
<1> USE WaiterAssumption DEF TypeOK, HandlePhase, Result, Poll, TakeResult, fate, workerVars
<1>1. completed' \in BOOLEAN /\ on_cancel' \in BOOLEAN
  OBVIOUS
<1>2. QED
  BY <1>1

LEMMA NextTypeOK == TypeOK /\ [Next]_vars => TypeOK'
<1> SUFFICES ASSUME TypeOK, [Next]_vars PROVE TypeOK'
  OBVIOUS
<1>1. CASE UNCHANGED vars
  BY <1>1 DEF vars, TypeOK, state, tasks, fate, handleVars, workerVars
<1>2. CASE Next
  BY <1>2, WorkerTypeOK, WaitTypeOK, PollTypeOK, GiveUpTypeOK DEF Next
<1>3. QED
  BY <1>1, <1>2

(* The rest of the invariant, in the same order. *)
LEMMA WorkerFacts ==
  ASSUME IInv, Acquire \/ Settle \/ Discard \/ Notify \/ Wake
  PROVE  Facts'
<1> USE WaiterAssumption
    DEF IInv, Facts, ResultInv, HandleInv, EventInv, WakerInv, Published, Ended,
        state, tasks, fate, handleVars, workerVars
<1>0. released \in BOOLEAN /\ outcome \in {"none", "guard", "error"}
  BY DEF TypeOK, Result
<1>1. CASE Acquire
  <2>1. ResultInv'
    BY <1>1 DEF Acquire
  <2>2. HandleInv'
    BY <1>1 DEF Acquire
  <2>3. EventInv'
    BY <1>1 DEF Acquire
  <2>4. WakerInv'
    BY <1>1 DEF Acquire
  <2>5. QED
    BY <2>1, <2>2, <2>3, <2>4
<1>2. CASE Settle
  <2>1. ResultInv'
    BY <1>2 DEF Settle
  <2>2. HandleInv'
    BY <1>2 DEF Settle
  <2>3. EventInv'
    BY <1>2 DEF Settle
  <2>4. WakerInv'
    BY <1>2 DEF Settle
  <2>5. QED
    BY <2>1, <2>2, <2>3, <2>4
<1>3. CASE Discard
  <2>1. ResultInv'
    BY <1>0, <1>3 DEF Discard, Dropping
  <2>2. HandleInv'
    BY <1>3 DEF Discard, Dropping
  <2>3. EventInv'
    BY <1>3 DEF Discard, Dropping
  <2>4. WakerInv'
    BY <1>3 DEF Discard, Dropping
  <2>5. QED
    BY <2>1, <2>2, <2>3, <2>4
<1>4. CASE Notify
  <2>1. ResultInv'
    BY <1>4 DEF Notify
  <2>2. HandleInv'
    BY <1>4 DEF Notify
  <2>3. EventInv'
    BY <1>4 DEF Notify
  <2>4. WakerInv'
    BY <1>4 DEF Notify
  <2>5. QED
    BY <2>1, <2>2, <2>3, <2>4
<1>5. CASE Wake
  <2>1. ResultInv'
    BY <1>0, <1>5 DEF Wake, LastOwner, Dropping
  <2>2. HandleInv'
    BY <1>5 DEF Wake, LastOwner, Dropping
  <2>3. EventInv'
    BY <1>5 DEF Wake, LastOwner, Dropping
  <2>4. WakerInv'
    BY <1>5 DEF Wake, LastOwner, Dropping
  <2>5. QED
    BY <2>1, <2>2, <2>3, <2>4
<1>6. QED
  BY <1>1, <1>2, <1>3, <1>4, <1>5

LEMMA WaitFacts ==
  ASSUME IInv, Wait \/ WaitTimeout \/ Take \/ Sleep \/ SpuriousWakeup \/ TimeOut
  PROVE  Facts'
<1> USE WaiterAssumption
    DEF IInv, Facts, ResultInv, HandleInv, EventInv, WakerInv, Published, Ended,
        state, tasks, fate, handleVars, workerVars
<1>1. CASE Wait
  <2>1. ResultInv'
    BY <1>1 DEF Wait, Begin
  <2>2. HandleInv'
    BY <1>1 DEF Wait, Begin
  <2>3. EventInv'
    BY <1>1 DEF Wait, Begin
  <2>4. WakerInv'
    BY <1>1 DEF Wait, Begin
  <2>5. QED
    BY <2>1, <2>2, <2>3, <2>4
<1>2. CASE WaitTimeout
  <2>1. ResultInv'
    BY <1>2 DEF WaitTimeout, Begin
  <2>2. HandleInv'
    BY <1>2 DEF WaitTimeout, Begin
  <2>3. EventInv'
    BY <1>2 DEF WaitTimeout, Begin
  <2>4. WakerInv'
    BY <1>2 DEF WaitTimeout, Begin
  <2>5. QED
    BY <2>1, <2>2, <2>3, <2>4
<1>3. CASE Take
  <2>1. ResultInv'
    BY <1>3 DEF Take, TakeResult
  <2>2. HandleInv'
    BY <1>3 DEF Take, TakeResult
  <2>3. EventInv'
    BY <1>3 DEF Take, TakeResult
  <2>4. WakerInv'
    BY <1>3 DEF Take, TakeResult
  <2>5. QED
    BY <2>1, <2>2, <2>3, <2>4
<1>4. CASE Sleep
  <2>1. ResultInv'
    BY <1>4 DEF Sleep
  <2>2. HandleInv'
    BY <1>4 DEF Sleep
  <2>3. EventInv'
    BY <1>4 DEF Sleep
  <2>4. WakerInv'
    BY <1>4 DEF Sleep
  <2>5. QED
    BY <2>1, <2>2, <2>3, <2>4
<1>5. CASE SpuriousWakeup
  <2>1. ResultInv'
    BY <1>5 DEF SpuriousWakeup
  <2>2. HandleInv'
    BY <1>5 DEF SpuriousWakeup
  <2>3. EventInv'
    BY <1>5 DEF SpuriousWakeup
  <2>4. WakerInv'
    BY <1>5 DEF SpuriousWakeup
  <2>5. QED
    BY <2>1, <2>2, <2>3, <2>4
<1>6. CASE TimeOut
  <2>1. ResultInv'
    BY <1>6 DEF TimeOut
  <2>2. HandleInv'
    BY <1>6 DEF TimeOut
  <2>3. EventInv'
    BY <1>6 DEF TimeOut
  <2>4. WakerInv'
    BY <1>6 DEF TimeOut
  <2>5. QED
    BY <2>1, <2>2, <2>3, <2>4
<1>7. QED
  BY <1>1, <1>2, <1>3, <1>4, <1>5, <1>6

LEMMA GiveUpFacts ==
  ASSUME IInv, Join \/ Expire \/ DropHandle \/ Cancel \/ CancelPanics \/ Detach
  PROVE  Facts'
<1> USE WaiterAssumption
    DEF IInv, Facts, ResultInv, HandleInv, EventInv, WakerInv, Published, Ended,
        state, tasks, fate, handleVars, workerVars
<1>0. released \in BOOLEAN /\ outcome \in {"none", "guard", "error"}
  BY DEF TypeOK, Result
<1>1. CASE Join
  <2>1. ResultInv'
    BY <1>0, <1>1 DEF Join, Dropping
  <2>2. HandleInv'
    BY <1>1 DEF Join, Dropping
  <2>3. EventInv'
    BY <1>1 DEF Join, Dropping
  <2>4. WakerInv'
    BY <1>1 DEF Join, Dropping
  <2>5. QED
    BY <2>1, <2>2, <2>3, <2>4
<1>2. CASE Expire
  <2>1. ResultInv'
    BY <1>2 DEF Expire, Terminal
  <2>2. HandleInv'
    BY <1>2 DEF Expire, Terminal
  <2>3. EventInv'
    BY <1>2 DEF Expire, Terminal
  <2>4. WakerInv'
    BY <1>2 DEF Expire, Terminal
  <2>5. QED
    BY <2>1, <2>2, <2>3, <2>4
<1>3. CASE DropHandle
  <2>1. ResultInv'
    BY <1>3 DEF DropHandle
  <2>2. HandleInv'
    BY <1>3 DEF DropHandle
  <2>3. EventInv'
    BY <1>3 DEF DropHandle
  <2>4. WakerInv'
    BY <1>3 DEF DropHandle
  <2>5. QED
    BY <2>1, <2>2, <2>3, <2>4
<1>4. CASE Cancel
  <2>1. ResultInv'
    BY <1>4 DEF Cancel, Terminal
  <2>2. HandleInv'
    BY <1>4 DEF Cancel, Terminal
  <2>3. EventInv'
    BY <1>4 DEF Cancel, Terminal
  <2>4. WakerInv'
    BY <1>4 DEF Cancel, Terminal
  <2>5. QED
    BY <2>1, <2>2, <2>3, <2>4
<1>5. CASE CancelPanics
  <2>1. ResultInv'
    BY <1>0, <1>5 DEF CancelPanics, Terminal, LastOwner, Dropping
  <2>2. HandleInv'
    BY <1>5 DEF CancelPanics, Terminal, LastOwner, Dropping
  <2>3. EventInv'
    BY <1>5 DEF CancelPanics, Terminal, LastOwner, Dropping
  <2>4. WakerInv'
    BY <1>5 DEF CancelPanics, Terminal, LastOwner, Dropping
  <2>5. QED
    BY <2>1, <2>2, <2>3, <2>4
<1>6. CASE Detach
  <2>1. ResultInv'
    BY <1>0, <1>6 DEF Detach, Dropping
  <2>2. HandleInv'
    BY <1>6 DEF Detach, Dropping
  <2>3. EventInv'
    BY <1>6 DEF Detach, Dropping
  <2>4. WakerInv'
    BY <1>6 DEF Detach, Dropping
  <2>5. QED
    BY <2>1, <2>2, <2>3, <2>4
<1>7. QED
  BY <1>1, <1>2, <1>3, <1>4, <1>5, <1>6

LEMMA PollFacts == ASSUME IInv, NEW k \in Task, Poll(k) PROVE Facts'
<1> USE WaiterAssumption
    DEF IInv, Facts, ResultInv, HandleInv, EventInv, WakerInv, Published, Ended,
        state, tasks, fate, handleVars, workerVars
<1>1. ResultInv'
  BY DEF Poll, TakeResult
<1>2. HandleInv'
  BY DEF Poll, TakeResult
<1>3. EventInv'
  BY DEF Poll, TakeResult
<1>4. WakerInv'
  BY DEF Poll, TakeResult
<1>5. QED
  BY <1>1, <1>2, <1>3, <1>4

LEMMA NextIInv == IInv /\ [Next]_vars => IInv'
<1> SUFFICES ASSUME IInv, [Next]_vars PROVE IInv'
  OBVIOUS
<1>0. TypeOK'
  BY NextTypeOK DEF IInv
<1>1. CASE UNCHANGED vars
  <2>1. Facts'
    BY <1>1
    DEF vars, IInv, Facts, ResultInv, HandleInv, EventInv, WakerInv, Published, Ended,
        state, tasks, fate, handleVars, workerVars
  <2>2. QED
    BY <1>0, <2>1 DEF IInv
<1>2. CASE Next
  BY <1>0, <1>2, WorkerFacts, WaitFacts, PollFacts, GiveUpFacts DEF Next, IInv
<1>3. QED
  BY <1>1, <1>2

(* The inductive invariant of the waiter. *)
THEOREM IInvHolds == Spec => []IInv
  BY InitIInv, NextIInv, PTL DEF Spec

(* Every variable keeps its type. *)
THEOREM TypeCorrect == Spec => []TypeOK
<1>1. IInv => TypeOK
  BY DEF IInv
<1>2. QED
  BY <1>1, IInvHolds, PTL

(* The guard of a successful acquisition is never lost and never in two
   places. *)
THEOREM OwnedOnceHolds == Spec => []OwnedOnce
<1>1. IInv => OwnedOnce
  <2> SUFFICES ASSUME IInv PROVE OwnedOnce
    OBVIOUS
  <2> USE DEF IInv, Facts, TypeOK, ResultInv, HandleInv, Published, Ended, Owns, Owner,
              WorkerPhase, Result
  <2>1. outcome = "guard" => \E x \in Owner : Owns(x)
    OBVIOUS
  <2>2. \A x \in Owner : Owns(x) => outcome = "guard"
    OBVIOUS
  <2>3. \A x, y \in Owner : Owns(x) /\ Owns(y) => x = y
    OBVIOUS
  <2>4. QED
    BY <2>1, <2>2, <2>3 DEF OwnedOnce
<1>2. QED
  BY <1>1, IInvHolds, PTL

(* A request that ended in TimedOut or Cancelled ended in that alone. *)
THEOREM OneEndingHolds == Spec => []OneEnding
<1>1. IInv => OneEnding
  BY DEF IInv, Facts, HandleInv, ResultInv, EventInv, OneEnding
<1>2. QED
  BY <1>1, IInvHolds, PTL

(* A sleeper is notified of the result, and the task that polled last is
   woken for it. *)
THEOREM NoLostWakeupHolds == Spec => []NoLostWakeup
<1>1. IInv => NoLostWakeup
  BY DEF IInv, Facts, HandleInv, WakerInv, NoLostWakeup
<1>2. QED
  BY <1>1, IInvHolds, PTL

(***************************************************************************)
(* The safety half of the handoff                                          *)
(***************************************************************************)

(* Nothing that the caller of the waiter can tell: the guard stays where it
   counts as held, or there is none, and no one gives up. *)
LEMMA Unseen ==
  ASSUME outcome' = outcome, caller' = caller, released' = released, GivenUp' = GivenUp
  PROVE  UNCHANGED <<GuardOf, GivenUp>>
  BY DEF GuardOf

LEMMA InitHandoff == Init => Handoff!Init
  BY DEF Init, Handoff!Init, GuardOf, GivenUp

LEMMA StepHandoff == ASSUME IInv, [Next]_vars PROVE [Handoff!Next]_<<GuardOf, GivenUp>>
<1> USE DEF state, tasks, fate, handleVars, workerVars
<1>1. CASE Acquire
  <2>1. GuardOf = "none" /\ GuardOf' \in {"none", "held"} /\ GivenUp' = GivenUp
    BY <1>1 DEF Acquire, GuardOf, GivenUp, IInv, Facts, ResultInv, Published
  <2>2. QED
    BY <2>1 DEF Handoff!Next, Handoff!Grant
<1>2. CASE Settle \/ Notify \/ Wait \/ WaitTimeout \/ Take \/ Sleep \/ SpuriousWakeup
  BY <1>2, Unseen
  DEF Settle, Notify, Wait, WaitTimeout, Begin, Take, TakeResult, Sleep, SpuriousWakeup,
      GivenUp, IInv, Facts, HandleInv
<1>3. CASE Discard \/ Wake \/ CancelPanics \/ Detach
  <2>1. caller' = caller /\ outcome' = outcome /\ GivenUp' = GivenUp
    BY <1>3 DEF Discard, Wake, CancelPanics, Detach, GivenUp
  <2>2. released' # released => released' = TRUE /\ GuardOf = "held"
    BY <1>3
    DEF Discard, Wake, CancelPanics, Detach, Dropping, LastOwner, GuardOf, IInv, Facts, TypeOK,
        ResultInv, HandleInv, Published
  <2>3. CASE released' = released
    BY <2>1, <2>3, Unseen
  <2>4. CASE released' # released
    <3>1. GuardOf = "held" /\ GuardOf' = "released"
      BY <2>1, <2>2, <2>4 DEF GuardOf
    <3>2. QED
      BY <2>1, <3>1 DEF Handoff!Next, Handoff!Release
  <2>5. QED
    BY <2>3, <2>4
<1>4. CASE TimeOut \/ Expire \/ DropHandle \/ Cancel
  <2>1. GuardOf' = GuardOf /\ (GivenUp' = GivenUp \/ GivenUp' = TRUE)
    BY <1>4 DEF TimeOut, Expire, DropHandle, Cancel, GuardOf, GivenUp
  <2>2. GivenUp' = TRUE => GuardOf # "given"
    BY <1>4 DEF TimeOut, Expire, DropHandle, Cancel, GuardOf, GivenUp
  <2>3. QED
    BY <2>1, <2>2 DEF Handoff!Next, Handoff!GiveUp
<1>5. ASSUME NEW k \in Task, Poll(k) PROVE UNCHANGED <<GuardOf, GivenUp>>
  BY <1>5, Unseen DEF Poll, TakeResult, GivenUp
<1>6. CASE Join
  <2>1. caller = "none" /\ ~released /\ hand = outcome /\ hand # "none"
    BY <1>6 DEF Join, IInv, Facts, ResultInv, HandleInv
  <2>2. ~GivenUp /\ GivenUp' = GivenUp
    BY <1>6, <2>1 DEF Join, GivenUp
  <2>3. outcome' = outcome
    BY <1>6 DEF Join
  <2>4. CASE outcome # "guard"
    <3>1. GuardOf' = GuardOf
      BY <2>3, <2>4 DEF GuardOf
    <3>2. QED
      BY <2>2, <3>1
  <2>5. CASE outcome = "guard"
    <3>1. GuardOf = "held" /\ GuardOf' \in {"given", "released"}
      BY <1>6, <2>1, <2>3, <2>5 DEF Join, Dropping, GuardOf
    <3>2. QED
      BY <2>2, <3>1 DEF Handoff!Next, Handoff!Give, Handoff!Release
  <2>6. QED
    BY <2>4, <2>5
<1>7. CASE UNCHANGED vars
  BY <1>7, Unseen DEF vars, GivenUp
<1>8. QED
  BY <1>1, <1>2, <1>3, <1>4, <1>5, <1>6, <1>7 DEF Next

(* A guard goes to a caller who still waits, or is released, and not both;
   nothing goes to a caller who gave up. *)
THEOREM WaiterIsSafeHandoff == Spec => Handoff!Safe
  BY IInvHolds, InitHandoff, StepHandoff, PTL DEF Spec, Handoff!Safe, Handoff!vars
(***************************************************************************)
(* A published result ends the call                                        *)
(***************************************************************************)

(* A call is in one of three phases.  A result that was published is there
   until a method takes it or the handle is given up. *)
CallInv ==
  /\ call # "none" <=> handle \in {"checking", "asleep", "joining"}
  /\ Published /\ ~completed /\ handle # "gone" => result # "none"

LEMMA CallInvHolds == Spec => []CallInv
<1>1. Init => CallInv
  BY DEF Init, CallInv, Published
<1>2. IInv /\ CallInv /\ [Next]_vars => CallInv'
  <2> SUFFICES ASSUME IInv, CallInv, [Next]_vars PROVE CallInv'
    OBVIOUS
  <2> USE DEF IInv, Facts, TypeOK, ResultInv, HandleInv, CallInv, Published, Ended,
          WorkerPhase, state, tasks, fate, handleVars, workerVars
  <2>1. CASE Acquire \/ Settle \/ Discard \/ Notify
    BY <2>1 DEF Acquire, Settle, Discard, Notify
  <2>2. CASE Wake
    BY <2>2 DEF Wake, LastOwner
  <2>3. CASE Wait \/ WaitTimeout
    BY <2>3 DEF Wait, WaitTimeout, Begin
  <2>4. CASE Take \/ Sleep \/ SpuriousWakeup \/ TimeOut
    BY <2>4 DEF Take, TakeResult, Sleep, SpuriousWakeup, TimeOut
  <2>5. CASE \E k \in Task : Poll(k)
    BY <2>5 DEF Poll, TakeResult
  <2>6. CASE Join \/ Expire \/ DropHandle \/ Cancel \/ CancelPanics \/ Detach
    BY <2>6 DEF Join, Expire, DropHandle, Cancel, CancelPanics, Detach
  <2>7. CASE UNCHANGED vars
    BY <2>7 DEF vars
  <2>8. QED
    BY <2>1, <2>2, <2>3, <2>4, <2>5, <2>6, <2>7 DEF Next
<1>3. QED
  BY <1>1, <1>2, IInvHolds, PTL DEF Spec

(* What goes on by itself while a call waits: the worker, or the call. *)
CallCanGo ==
  call # "none" /\ worker # "acquiring" =>
     \/ worker \in {"settling", "notifying", "waking"}
     \/ handle = "checking" /\ result # "none"
     \/ handle = "joining" /\ Ended(worker)

(* No call waits for a notification that has gone by, nor for a worker that
   waits itself: once the acquisition has come to its end, the worker or the
   call can take its next step. *)
THEOREM CallCanGoHolds == Spec => []CallCanGo
<1>1. IInv /\ CallInv => CallCanGo
  BY DEF IInv, Facts, TypeOK, ResultInv, HandleInv, CallInv, CallCanGo, Published, Ended,
         WorkerPhase
<1>2. QED
  BY <1>1, IInvHolds, CallInvHolds, PTL

WorkerRank == CASE worker = "notifying" -> 2 [] worker = "waking" -> 1 [] OTHER -> 0

CallRank ==
  IF call = "none" THEN 0
  ELSE WorkerRank + (IF handle = "asleep" THEN 3 ELSE IF handle = "checking" THEN 2 ELSE 1)

(* While a call is in progress and the result is published, whatever happens
   is one of the five steps or fewer that are left of the call. *)
CallsAreShort ==
  [][call # "none" /\ Published => CallRank' < CallRank]_vars

(* After the result is there no timeout, spurious wakeup or panic of a waker
   keeps a call from its return. *)
THEOREM CallsAreShortHolds == Spec => CallsAreShort
<1>1. IInv /\ CallInv /\ [Next]_vars => [call # "none" /\ Published => CallRank' < CallRank]_vars
  <2> SUFFICES ASSUME IInv, CallInv, Next, call # "none", Published
               PROVE  CallRank' < CallRank
    OBVIOUS
  <2> USE DEF IInv, Facts, TypeOK, ResultInv, HandleInv, CallInv, Published, Ended, WorkerPhase,
          state, tasks, fate, handleVars, workerVars, CallRank, WorkerRank
  <2>1. CASE Acquire \/ Settle \/ Discard
    BY <2>1 DEF Acquire, Settle, Discard
  <2>2. CASE Notify
    BY <2>2 DEF Notify
  <2>3. CASE Wake
    BY <2>3 DEF Wake
  <2>4. CASE Wait \/ WaitTimeout \/ \E k \in Task : Poll(k)
    BY <2>4 DEF Wait, WaitTimeout, Begin, Poll
  <2>5. CASE Take
    BY <2>5 DEF Take, TakeResult
  <2>6. CASE Sleep \/ SpuriousWakeup \/ TimeOut
    BY <2>6 DEF Sleep, SpuriousWakeup, TimeOut
  <2>7. CASE Join
    BY <2>7 DEF Join
  <2>8. CASE Expire \/ DropHandle \/ Cancel \/ CancelPanics \/ Detach
    BY <2>8 DEF Expire, DropHandle, Cancel, CancelPanics, Detach
  <2>9. QED
    BY <2>1, <2>2, <2>3, <2>4, <2>5, <2>6, <2>7, <2>8 DEF Next
<1>2. QED
  BY <1>1, IInvHolds, CallInvHolds, PTL DEF Spec, CallsAreShort

=============================================================================
