# zed-lock in TLA+

zed-lock gives processes of one machine exclusive, crash-safe locks. A lock is
an operating-system lock on the descriptor of a *rendezvous file*; around it the
library keeps what the operating system does not: a hierarchy of lock classes
per thread, a refusal of requests that would wait for their own process, waiter
threads that turn the blocking system call into a future with timeouts, and a
private path policy for the file itself.

This directory models that code (`src/lib.rs`, `src/path_security.rs`), checks
the models with TLC on small instances and proves theorems about them with
TLAPS for every value of the constants. File names below are relative to the
repository; `PROJECT.json` maps every definition to its lines.

## The system and its parts

| Part | State | Operations | What is hard about it |
|---|---|---|---|
| `LockManager` (synchronous core) | `reserved_in_process` per manager; `HELD_LOCK_ORDER` per thread; the kernel's locks | `acquire_blocking`, `try_acquire`, `check_lock_order`, `reserve_if_required` | three pieces of state with three scopes (machine, manager, thread), each updated at another point; crashes; deadlock |
| `LockGuard` | file, reservation, order registration | `release`, `Drop` | three-step release; it is `Send`, its registration belongs to a thread |
| `LockWaiter` | `WaitState {result, receiver_alive, waker}` under a mutex, condition variable, worker thread, `completed`, `on_cancel` | `wait`, `wait_timeout`, `poll`, `Drop` | the result races with deadline, drop and polls; panics of foreign code (sink, waker) |
| `WaiterLimiter` | `active` | `reserve`, permit `Drop` | compare-exchange loop at the limit; the permit's life against the guard's |
| `acquire`, `acquire_timeout` | none of their own | compose manager, limiter and waiter | the guard is acquired on one thread and used on another |
| `acquire_many_blocking`, `LockSetGuard` | vector of guards | canonicalize, sort, refuse duplicates, acquire, unwind | partial failure; files opened twice |
| path opening | the file system | `open_lock_file`: parents, open-or-create loop, validation, identity | several processes create; files replaced between steps |
| SDDL classifiers | none (pure) | `sddl_is_user_private`, ... | what counts as private, in two spellings of a right |
| Windows ACL calls | the DACLs of directory and file | apply, require | a window between creation and tightening; set again by path while others use it |
| Owner diagnostics, event payloads | | | formatting: not modelled |
| CI, linters, packaging script, Quint model, test vectors | | | not part of the library: not modelled |

A caller's thread enters the manager, which opens the path, asks its own
thread's `HELD_LOCK_ORDER`, inserts into its `reserved_in_process`, and calls the
kernel; on success it registers the order entry, emits `Acquired` through the
event sink (a callback of the user) and returns a guard that holds an `Arc` of
the manager. `acquire` runs exactly this on a worker thread and hands the guard
over through `SharedWait`.

What makes each part correct:

- manager and guard: one owner per identity; a guard always has its descriptor's
  lock and no lock remains without a guard; a reservation lasts exactly as long
  as its call; a live guard's order entry survives what other guards do; no
  thread waits below what it holds; no cycle of waits; every blocked call
  returns;
- waiter: the guard is delivered once or dropped, never both and never neither;
  one ending per request; no lost wakeup; methods return;
- limiter: never more than the limit; no permit is lost or given out twice; a
  refusal means the limit was reached;
- `acquire` from end to end: a request that gave up comes to owe nothing, its
  reservation lasts as long as it may still get the lock, events tell who owns;
- lock set: all or nothing, in order, unwound in reverse, every call returns;
- path: openers that end with a descriptor share one file per identity, and what a
  `Private` one accepts is private and stays so.

## Modules

| Module | What it is |
|---|---|
| `ExclusiveLock` | abstract: clients take free identities, give them back, lose them when they die |
| `LockManager` | the synchronous core; refines `ExclusiveLock` |
| `LockManagerProofs` | theorems about `LockManager` |
| `MCLockManager` | its instances for TLC |
| `WaiterHandoff` | abstract: a guard is given to a caller who still waits, or released |
| `LockWaiter` | one waiter with its worker; refines `WaiterHandoff` |
| `LockWaiterProofs` | theorems about `LockWaiter` |
| `MCLockWaiter` | its instance for TLC |
| `Permits` | abstract: permits granted while there are some, refused while there are none |
| `WaiterLimiter` | the atomic counter and its loop; refines `Permits` |
| `WaiterLimiterProofs` | theorems about `WaiterLimiter` |
| `AcquireSystem` | `acquire` and `acquire_timeout` of several requests: extends `WaiterLimiter` with callers, workers, guards and events; refines `ExclusiveLock` |
| `AcquireSystemProofs` | theorems about `AcquireSystem` |
| `MCAcquireSystem` | its instance for TLC |
| `LockSet` | `acquire_many_blocking` and `LockSetGuard`: extends `LockManager` and runs its actions |
| `LockSetProofs` | theorems about `LockSet`, on top of `LockManagerProofs` |
| `MCLockSet` | its instances for TLC |
| `PathOpen` | several openers of one rendezvous path, call by call (Unix) |
| `PathOpenProofs` | theorems about `PathOpen` |
| `MCPathOpen` | its instance for TLC |
| `Sddl` | the classifiers of access-control lists, beside what the lists mean |
| `WindowsOpen` | several openers of one path with the Windows DACL calls; extends `Sddl` |
| `WindowsOpenProofs` | theorems about `Sddl` and `WindowsOpen` |
| `MCWindowsOpen` | its instance for TLC |

### LockManager

A *call slot* `c` follows one acquisition from its start to the end of its
guard's release: `pc[c]` says how far it has come, `thr[c]` which thread runs it
or has its guard, `req[c]` the request, `home[c]` the thread that registered the
guard. `locked` is the kernel's table: the calls whose own open descriptor is
locked (each call opens its own, so ownership is per call). `reserved` and
`order` are `reserved_in_process` and `HELD_LOCK_ORDER`; the vector is kept as
the number of equal entries, since the code only asks for its greatest entry
and removes the last of some equal ones.

| Action | Code |
|---|---|
| `AcquireBlocking`, `TryAcquire` | open, `check_lock_order`, `reserve_if_required`. One step: only the last touches shared state. A failure of any of them returns with nothing changed and is no step |
| `KernelGrant`, `NativeError`, `Contended` | the native call: granted, an error, contention |
| `AbandonAttempt` | the error paths: `remove_reservation`, return |
| `ReturnGuard`, `SinkPanic` | registration, `Acquired`, the guard; or the sink panics there |
| `MoveGuard` | a guard sent to another thread of its process |
| `Release`, `FinishRelease` | `release_inner`/`Drop`: unlock, close, registration; then the reservation |
| `Crash` | a process dies at any point |

Two abstractions to know of. The explicit unlock, closing the descriptor and dropping the
registration are one step: after the unlock the open descriptor no longer excludes anybody, and the
vector is private to the thread that drops. And identities are the canonical paths that `open_lock_file` returned;
that one identity is one file, and so one kernel lock, is what `PathOpen` shows.

### LockWaiter

The worker and the handle each have a phase; `result`, `receiver_alive` and
`waker` are `WaitState`. Whatever the code does under the mutex of `SharedWait`
is one step, whatever it does outside is a step of its own: publishing,
`notify_all` and `wake` are three steps of the worker; the `Cancelled` event, the
detachment and the drop of a late result are steps of `Drop`. `timed` is chosen
initially and makes the handle the local variable of `acquire_timeout`. The
closure is a black box that ends with a guard or an error after any time, or
never. `parked` and `woken` stand for the executor: the last task that saw
`Pending`, and the tasks woken since.

### PathOpen

Each opener runs `open_lock_file`, one system call per step: `symlink_metadata` from
the parent upwards (`Inspect...`), `mkdir` and `chmod` of each missing level
(`CreateDirectory`, `TightenDirectory`), `ValidateDirectory`, the loop of
`OpenExisting` and `CreateExclusive`, `TightenFile`, `ValidateFile`, `Canonicalize`.
The file system is `dirs` (what each level is), `entry` (the file that the last
component names) and `kind` (what each file is). Other programs (`Outsider...`)
create acceptable and refusable entries and unlink the file. Links are dangling: a
link in the way is refused by name at the level where it is, and what is behind it
is not followed. `spoiled` and `removals` record what others did, for the
properties that are conditional on it.

### WaiterLimiter

`active` is the atomic; `stage[q]` and `current[q]` are a request's place in `reserve`
and its local variable. `Load` reads; then, on what it read, a request is refused
(`Refuse`), takes the permit (`Exchange`, if the counter still has that value) or goes
round (`ExchangeFails`: with another value, or, as the weak form may, with the same).
`DropPermit` is `WaiterPermit::drop`. In `Permits` a request is turned away in one step
at a moment when all permits are out; the refinement mapping takes that moment to be
the read of a full counter, not the later return.

### AcquireSystem

A request has three threads of control, each with its own phase: `caller` (from
`acquire` to its end or its ownership), `worker` (the thread, from `Open` to the
result), `guard` (where it is, and the steps of its release). None waits for another
where the code does not.

| Action | Code |
|---|---|
| `Acquire`, `TurnedAway`, `Admitted`, `TryAgain` | `limiter.reserve` |
| `Spawn`, `SpawnFails` | `spawn_internal`; without a thread the closure is dropped, and the permit with it |
| `Open`, `KernelGrant`, `NativeError`, `ReturnGuard` | `acquire_blocking` in the closure |
| `ReturnPermit` | the end of the closure: `_permit` goes before anything is published |
| `Settle` | `settle_waiter_completion`: publish, or drop the result |
| `Take`, `GiveUp`, `Detach` | the result; the deadline or a drop with its event, then `LockWaiter::drop` |
| `Unlock`, `Unreserve`, `EmitReleased` | `release_inner` and `finish_release`, by the owner or by the library |

The order check is left out because a worker is a fresh thread with an empty
`HELD_LOCK_ORDER`. One manager, so one limiter and one set of reservations.

The refinement of `ExclusiveLock` takes requests for clients. Ownership is not read off the
kernel's table: a request owns (`Owns`) while its worker has been granted the lock or its guard is with the
worker, in the published result, with the caller or on its way to be dropped. So the refinement says that
whoever has a guard anywhere has the identity to itself, whatever timeouts, drops and late
grants do; what happens between the grant and `Unlock`, the handoff or the drop of a guard
that nobody took, is a stutter.

### LockSet

Each thread has at most one lock set: `phase`, `todo` (members not started) and
`guards`. Every step that touches a lock is an action of `LockManager`
conjoined with what the set adds: `StartMember` is `AcquireBlocking`, `MemberFails` is
`AbandonAttempt`, `MemberAcquired` is `ReturnGuard`, `Pop` is `Release` of the last guard,
`Popped` is `FinishRelease`. `Sorted` is `sort_by` (stable, by class and then by
`path_sort_key`) and `Duplicates` the check on canonical paths; `AcquireMany` is both. A set that is refused
changes nothing and is no step. The empty set is owned at once, as in the code. All
requests of a set are of one manager, as `acquire_many_blocking` is its method. `asked` records the
requests of the call, for `AllOrNothing`: an owned set has a guard for each of them.

### Sddl and WindowsOpen

A DACL is a control bit and a list of entries; an entry has a type, flags, a trustee and
rights, which are a set of two-letter tokens, a hexadecimal mask (as the set of
its bits) or unreadable. A trustee is a text, a SID or one of Windows' aliases. `Rendered` is how
Windows writes a SID (the alias, where there is one) and `Denotes` how it reads a text. `Canonical` is
what `canonical_user_private_sddl` yields and what is read back after
`apply_user_private_dacl`: `UserPrivate` of the rendered SID, so `D:P(A;;FA;;;LA)` for the local
administrator and `D:P(A;;FA;;;LS)` for LocalService. The classifiers get the numeric SID, as in the code.

The second part of `Sddl` says what a list *means* and does not use the code's tables: the bits of
every token of access rights, the rights that a generic bit maps to on files, what modifies (a
right that writing needs and reading does not, deletion, or a change of list or owner), which
SIDs are broad. The two disagree, as the modules say openly. `sddl_rights_can_modify` (`path_security.rs:221-226`) takes
`LC` and `RP` for reading, which are `0x4` and `0x10` of its own `MODIFY_MASK` and on files append data
(in directories, create one) and write extended attributes; and it refuses `CC`, `SW` and `WP`, which only
read. `DirectoryMeansPrivate` excepts `LC` and `RP` and bounds what they give;
`SpellingDecides` proves that `(A;;LC;;;AU)` is accepted where `(A;;0x4;;;AU)` is refused, against the doc
at `path_security.rs:85-93` ("rejects write-capable allow ACEs for broad user groups").

`WindowsOpen` runs the Windows branches of `open_lock_file` by several openers of one `user`, each
call a step: what is created has the `inherited` DACL until it is tightened,
every `Private` opener tightens the file again by path. `Reset` is another program that
sets a DACL. Links, parents and removals are in `PathOpen` only.

### How they meet

`PathOpen` gives the identity that `LockManager` takes as one lock. `LockSet` runs
`LockManager` itself, so it inherits its refinement of `ExclusiveLock`. `AcquireSystem` runs the limiter itself; of `LockManager` and
`LockWaiter` it has the steps that other requests can see, while
the details of the handoff (mutex, condition variable, polls, panics) stay in
`LockWaiter`, and the guard's way from the worker to the caller is `LockManager`'s
`MoveGuard`. What ties it to the modules it abstracts from is proved: to `ExclusiveLock` it
does what `LockManager` does (`RequestsImplementExclusiveLock`), and the handoff of
each of its requests is the `WaiterHandoff` that `LockWaiter` refines (`RequestsHandOff`).

## Runs

| Run | Instance | What it shows |
|---|---|---|
| `mixed` | 3 calls, 3 threads, 2 processes, 2 identities, guards move between the two threads of a process, slots are reused | `MutualExclusion`, `GuardsHoldTheirDescriptors`, `ReservationAccounting`, `RegistrationSurvives`, `OrderedWaits`, `ImplementsExclusiveLock` |
| `hierarchy` | 4 calls, each slot used once, the discipline the library asks for, a sink that may panic, fairness | `NoWaitCycle`, `RejectNeverWaitsOnOwnProcess`, `EveryBlockingCallReturns` |
| `waiter` | one waiter, two polling tasks, panics of sink and waker, fairness | `OwnedOnce`, `OneEnding`, `NoLostWakeup`, `CallsReturn`, `ImplementsHandoff` |
| `path_open` | 3 openers, one of them `Shared`, two missing directories, one removal, fairness | `OneFilePerIdentity`, `PrivateRendezvous`, `NoSpuriousRefusal`, `EveryOpenEnds` |
| `system` | 3 requests for one identity, two that `Reject` and one `Queue`, 2 permits, fairness | `PermitsCounted`, `ReservationSpan`, `EventsTellOwnership`, `ImplementsExclusiveLock`, `ImplementsPermits`, `AbandonedOwesNothing`, `PermitsComeBack` |
| `lock_set` | 3 threads, 2 processes, 3 identities, sets of up to three in unsorted orders, one identity listed twice, the empty set, crashes, fairness | `AllOrNothing`, `NoWaitCycle`, `SetsPassOrderCheck`, `DeterministicOrder`, `ReleasedInReverse`, `SetsReturn` |
| `windows_open` | 3 openers, one of them `Shared`, of an ordinary user, the local administrator or LocalSystem, every inherited list of up to two of 17 entries, one reset | `DirectoryMeansPrivate`, `FileStaysProtected`, `NoSpuriousRefusal` |
| `moved_guard` | 2 calls, 2 threads, guards move, two classes | violated: `OrderCheckKnowsGuards` |
| `two_managers` | one thread, two managers, a Queue request beside Reject ones | violated: `RejectNeverWaitsOnOwnProcess` |
| `service_account` | `windows_open` for LocalService | violated: `NoSpuriousRefusal` |
| `sink_panic` | the sink panics on `Acquired` | violated: `ReservationAccounting` |
| `same_key` | `lock_set` with two identities of one sort key | violated: `DeterministicOrder` |

Every passing run also has its type invariant. The five violations show six disagreements between the code and what its own
comments, messages and tests say; `PROJECT.json` quotes both sides:

1. `moved_guard`: the order check consults the calling thread's vector, and a guard may leave that
   thread. In the last state of the run `t1` has handed its guard of `a` to `t2`. `t2` is not refused
   the lower class of `b`, although "descending lock classes must fail before a kernel
   wait"; so it is for every guard of `acquire`, which the worker thread registers.
2. `moved_guard`, the other side: `t1` holds nothing and is refused `b` "while this thread already
   holds class rank" 20. Its entry stays for good, because the drop searches the vector of the
   thread that drops.
3. `two_managers`: a thread owns a lock and then waits for the same lock with a `Reject`
   request, since reservations are per manager (and are not made by `Queue` requests).
4. `sink_panic`: a panic of the sink on `Acquired` releases the lock and leaks
   the reservation.
5. `same_key`: `path_sort_key` is lossy (and folds case on Windows). Members with
   one key stay in the order the caller listed them, and the order check refuses
   neither order, so two sets can hold one lock each and need the other's.
6. `service_account`: an opener that runs as LocalService creates and tightens the lock
   directory, passes `require_protected_user_private_dacl`, and is refused by `sddl_is_user_private`,
   which does not know `LS` for its SID. The same holds of NetworkService and the guest
   (`OwnListAccepted`).

### Bounds

- `Call`: three slots give an owner, a waiter and a third that intrudes or
  releases late; four in `hierarchy` give two threads that hold one lock and wait
  for one each, the smallest cycle, with both processes involved. A cycle
  of more threads has the same shape, and the theorem covers it.
- `Thread`, `Process`: two threads of one process (moves, same-process
  rejections, thread-local order) and one of another (crashes on one side only).
- `Identity`: two, ordered by `PathKey`; `MixedRequests` gives one of them two
  classes so that ranks and paths both decide.
- `MaxEntries = 2` caps equal entries of one thread, which grow without bound when
  guards are released elsewhere; two distinguishes "one of several" from "the
  only one".
- `SlotReuse = FALSE` in `hierarchy` makes every slot serve one acquisition, so
  that a waiter meets finitely many competitors: the kernel's locks promise
  no fairness among waiters, and without it nobody could promise that a
  call returns. `mixed` reuses slots, for safety.
- `Depth = 2` lets a directory be found missing under one that is missing too, and
  `MaxRemovals = 1` lets an opener lose the file between its open and its
  canonicalization, and go round the loop once more. Unbounded removals could keep
  an opener in that loop for ever; the code has no bound either.
- `Request`: three for two permits is one more than the limit, and for one identity gives an
  owner, a request that gave up behind it, and a retry; `Limit = 2` tells a permit
  lost from all permits lost. Each request runs once.
- `Slots`, `LockSets`: sets of three, two and two members, listed in different orders and
  with both policies, overlap pairwise; three threads can hold one lock each. Each slot
  serves once (`SlotReuse = FALSE`), so a thread runs a second set only if its first used no
  slot (the empty set, or one that failed at its first member before a wait).
- `Users`: one whose SID Windows writes in full, one that it writes `LA` (a controller that the
  classifier trusts by its alias) and one that it writes `SY` (which the code compares by
  alias and by SID); `service_account` has the remaining kind.
- `Lists`: lists of up to two entries have every pair of an entry that grants control and one
  that taints it, in both orders and both spellings. What is found or created has the list
  inherited, tightened or reset. `MaxResets = 1` is one interference; the properties
  speak of the time before it.
- Calls are interchangeable, and `mixed` uses that as a symmetry; the run with a
  liveness property does not.

### Fairness

`LockManager`: a thread inside a call goes on (`AbandonAttempt`, `ReturnGuard`,
`FinishRelease`), the kernel grants a free lock to a waiter that stays
(`KernelGrant`), and callers drop their guards (`Release`, an obligation of
the caller: Rust drops a guard at the end of its scope). It is weak everywhere.
No fairness on starting calls, errors, moves, panics or crashes.

`LockWaiter`: the worker goes on after the closure has returned, methods in
progress go on, a task that was woken polls again. The closure may never
return, and nobody has to call, drop or time out.

`AcquireSystem`: a caller that has begun to reserve, spawn or leave goes on, and takes a
published result sooner or later (a waiter kept for ever with a guard in it is an owner
who never releases); so does a worker, the kernel grants a free lock to a waiter, and guards are dropped. No
fairness on giving up, on errors of the kernel or on failing to spawn.

`LockSet`: as in `LockManager`, with sets released by their owners.

`PathOpen`: an opener goes on until it has an answer; nothing makes others act.

## Proofs

Every theorem is for all constants that satisfy the named assumptions of its module
(`ConstantsAssumption`, `WaiterAssumption`, `PathAssumption`, `LimiterAssumption`, `RequestsAssumption`,
`LockSetAssumption`, `SidAssumption`, `WindowsAssumption`, `AbsentAssumption`), without bounds on calls,
threads, processes, requests, tasks, openers, directories or entries.

- **Types and ownership.** `Exclusion` (types, unique owners, and `locked` being
  exactly the calls that own) is inductive, because a grant needs
  `KernelFree` and every step that ends ownership also clears `locked`.
  `MutualExclusionHolds` and `GuardsHoldTheirDescriptorsHolds` follow.
- **Refinement.** `ManagerImplementsExclusiveLock`: under `Owned` a grant is a `Take`,
  a release a `GiveBack`, a crash a `Die`, every other step a stutter.
- **Order.** `OrderInv` adds to `Exclusion` that a thread is in one call at a time,
  that a live guard is registered on a thread of its own process, and that the order
  check, passed at the start of a call, still holds while the call sleeps (a
  sleeping thread registers nothing). A registration survives because a drop
  removes an entry of the dropped guard's own value only, and mutual exclusion
  leaves one live guard per identity; the entries of others are at most stale.
  The process is part of it because a crash clears the vectors of a whole process.
  `RegistrationSurvivesHolds` and `OrderedWaitsHolds` follow.
- **Reservations.** `ReservationInv` states that reserved identities are claimed by at most
  one call and that each claim is reserved; the converse (nothing else is reserved) needs a
  sink that does not panic, which `ReservationAccountingHolds` assumes by
  name. `RejectNeverWaitsOnOwnProcessHolds` does not need it: a leaked
  reservation refuses too much, never too little.
- **Deadlock.** In a stuck set every waiter waits for an entry that another waiter's thread
  holds. If each were strictly higher than the last, that climb would have to end in a
  finite set (`NoFiniteClimb`). `RingsHaveACauseHolds` assumes nothing of the callers and says
  where the climb fails: a ring has in it a guard that is not on the thread that
  acquired it, or an identity owned under one class and waited for under
  another, or an owner who waits for an identity of the same class and sort key.
  `RingsAreSelfWaitsHolds` excludes these causes one by one (guards stay, one class per identity,
  distinct path keys): what is left is one thread that waits for its own lock,
  so no two threads or processes ever wait for each other.
  `NoWaitCycleHolds` adds `Reject` requests and one manager per process, which exclude that
  too. These assumptions are the discipline that the code leaves to its callers.
- **Waiter.** `IInv` says where a result can be in each pair of phases, which phases
  the handle's flags allow, which events have been emitted, and who holds the waker.
  `OwnedOnceHolds`, `OneEndingHolds`, `NoLostWakeupHolds` follow, and
  `WaiterIsSafeHandoff`, the safety half of the refinement of `WaiterHandoff`. `CallInv` adds
  that a published result stays until a method takes it. `CallCanGoHolds`: once the closure has
  returned, a call in progress never waits for a notification that has gone by or for a worker
  that waits itself. `CallsAreShortHolds`: after the publication every step, whoever takes
  it, is one of the last five of that call.
- **Limiter.** `LimiterInv` (types, and `active` being the number of permitted requests) is
  inductive because an exchange compares. `LimiterImplementsPermits` maps each step of
  the loop to a whole step of `Permits` or none.
- **Requests.** `RequestsUseLimiter` shows that every step of a request is a step of the
  limiter or leaves it alone, which carries both results over. `IInv` adds what each pair of
  phases of *one* request implies about its guard, events and lock (`Local`), which no
  step of another request touches, and `ReservationSpan`, which is about all of
  them: a claim is added only when the identity is not reserved, and removed by
  the claimant alone. `RequestsImplementExclusiveLock` and `OneGuardPerIdentityHolds` rest on `Locks`: the requests that own
  by their phases are those that the kernel has locked, and so a grant, which needs the kernel's consent, finds
  no other owner;
  `RequestsHandOff` shows of each request by itself that its guard reaches a caller who has not
  given up, once, or is unlocked by the library. `StepsCountHolds` ranks the phases of a
  request: every step of anyone but a failed exchange lowers one rank and leaves the others
  alone. `NeverStuckHolds`: a request that is not over can step, or be granted its lock, or sleeps
  behind an owner who can step. `OweNothingForGoodHolds`: what an abandoned request
  no longer owes it never owes again.
- **Lock sets.** `SortedIsSorted` is about the sort itself. `SetsRunTheManager`: a set does to the
  manager only what callers may, so the theorems above hold of sets. `SetInv`
  says that the guards, the member under way and those to come form one ascending line of
  distinct identities (`LineInv`), and that `HELD_LOCK_ORDER` has exactly one entry for
  each guard (`CountInv`). From this line: no member fails the order check, what is
  unlocked is the topmost, and a waiter waits above everything it holds, so that
  `NoFiniteClimb` excludes rings, here for `Queue` requests too.
  `DeterministicOrderHolds` and `SetsNeverWaitInARing` assume one class per identity and
  distinct keys; `same_key` shows that the second is needed. `AllOrNothingHolds` assumes a
  sink that does not panic, because `sink_panic` leaks; `AskedInv` (the guards, the member under way and
  those to come are, together, what was asked for) gives its last clause. `SetsImplementExclusiveLock` needs no
  assumption. `SetsNeverStuckHolds`: an idle thread has a next thing to do (`NeverIdle`), so only
  sleepers wait (`OnlySleepersWait`), and those not in a ring (under the same two assumptions). `SetRanksFallHolds`: a set
  of `n` members begins with at most `5 * n + 2` steps; every step begins a set, ends a process, or
  lowers the count of one thread's set and leaves those of the others.
- **Windows.** `RenderedDenotes` and `BroadByEitherName` are about the two names of a SID,
  `MaskIsExact` and `TokenTable` about the two spellings of a right. Together they give
  `WhereCanModifyErrs`: every mask is judged exactly, generic bits included; a set of tokens is
  wrongly passed just if it has `LC` or `RP` and nothing that the code refuses, and wrongly refused
  just if it has `CC`, `SW` or `WP` and otherwise only harmless tokens. `ClassifierIsSound` and `ClassifierIsComplete`
  carry this to lists of any length, modulo just these tokens; the latter also asks that
  full control be spelled `FA`, `GA`, `0x1f01ff` or `0x10000000` (the code compares by exact match and
  refuses `FA` together with `FR`), and that the list be as Windows writes it, to a user whose
  name in it the code knows. `OwnListAccepted` says who these are: all but LocalService, NetworkService and the
  guest. `ProductionCheckIsExclusive`: what production requires of the descriptor after it has set the list
  leaves the user alone with full control, and the strict classifier that only the tests call agrees
  just if the user's SID is written in full or as `SY`. With `DirectoryPasses` and
  `FileIsUserPrivate` (what was validated is only ever replaced by the user's own list) these give
  `DirectoryMeansPrivateHolds` and `FileStaysProtectedHolds`, for every user.
  `NoSpuriousRefusalHolds` assumes that nobody is among the three accounts; `service_account` shows
  that it must. `OpensAreShortHolds`: an opener takes at most thirteen steps, whatever others create or set.
- **Paths.** `PathOpenProofs` carries along that every descriptor is of the file that
  the path names until a removal, that what a `Private` opener validated stays
  private (nothing in the model widens a mode, and directories are not removed), and
  that openers among themselves only make private things.
  `OneFilePerIdentityHolds`, `PrivateRendezvousHolds`, `NoSpuriousRefusalHolds` follow.
  `OpensAreShortHolds` bounds the loop: an opener begins with a rank of at most
  `3 * Depth + 4 * MaxRemovals + 10`, each of its steps lowers it, and no step of another
  raises it, because only a removal can send it round again.

Only model-checked: `EveryBlockingCallReturns`, `CallsReturn`, `EveryOpenEnds`, `AbandonedOwesNothing`,
`PermitsComeBack`, `SetsReturn` and the liveness
half of `ImplementsHandoff`. Liveness under fairness needs `ENABLED`, which is
beyond the provers used. What is proved beside them is what each would follow from, given
that actors who can step do: somebody can go on (`CallCanGo`, `NeverStuck`,
`SetsNeverStuck`), the steps that are left are counted and nobody adds to them (`CallsAreShort`,
`StepsCount`, `SetRanksFall`, both `OpensAreShort`), and what has been reached
stays (`OweNothingForGood`). These are formulas over the steps of the specification
without its fairness, for every value of the constants. Two gaps remain to a proof of liveness even so: a
compare-exchange may fail for ever (`StepsCount` exempts its retries), and for the
reused slots of `LockManager`, where a waiter may meet new competitors without end, there is only
`NoWaitCycleHolds`.

`OneEnding` exempts one case on purpose: when the sink panics on `TimedOut`,
unwinding drops the waiter before `suppress_cancel_event` runs, and `Cancelled`
is emitted as well.

A request is no longer counted by `active_waiters` once its permit is dropped
(`lib.rs:543`), which is before a detached guard is dropped: `tests/den_2037_sixth_order.rs:218`
waits for the count to reach zero and then expects to get the lock. The model has that
window (`ReturnPermit` before `Settle`), so no property ties the count to ownership;
`AbandonedOwesNothing` says what does hold, that the window closes.

## What is not modelled

Owner diagnostics, thread names and messages are formatting. `EINTR` and other
native errors are one outcome, `NativeError`. A waker
that polls the same future from inside `wake` on the worker thread would join
itself (`finish` joins the worker); the model takes `wake` to return or to panic.
A process forked while it holds locks is left out, since the library
opens its descriptors close-on-exec and offers no fork.

Of path opening, `..` components (refused before any call), entries of other owners
(refused like any refusable entry), umasks that take bits from the owner, and
removed or renamed directories are left out; on Windows also reparse points, handle
inheritance, native errors, and the FFI beneath a DACL call. `TightenDirectory` sets
the mode of a directory that someone else created in the race; no doc of the repository says what
should happen to it.

In `AcquireSystem` no sink or waker panics and no process crashes: those are in `LockManager`
and `LockWaiter`, whose runs have them. In `LockSet` no sink panics and no guard leaves its thread. A lock set
opens each path twice; the model lets the second open fail, and takes a file replaced
in between to be the removal that `SECURITY.md:28` forbids.

One identity under two classes, used by different callers, defeats the order check; the
library does not enforce one class per identity. `RingsHaveACauseHolds` names it as one of the three
causes of a deadlock, and the other deadlock theorems assume it away by name.

## Further work

- A second activation of `Poll` on the worker's own thread, for executors that poll from `wake`.
- Removals in `WindowsOpen`, where a DACL is set by path after the file was opened by handle.

## Running

    tlc -workers 2 -config LockManager_mixed.cfg MCLockManager.tla
    tlc -workers 2 -config LockWaiter.cfg MCLockWaiter.tla
    tlc -workers 2 -config PathOpen.cfg MCPathOpen.tla
    tlc -workers 2 -config AcquireSystem.cfg MCAcquireSystem.tla
    tlc -workers 2 -config LockSet.cfg MCLockSet.tla
    tlc -workers 2 -config WindowsOpen.cfg MCWindowsOpen.tla
    tlc -workers 2 -config WindowsOpen_service_account.cfg MCWindowsOpen.tla
    tlapm LockManagerProofs.tla
    tlapm LockWaiterProofs.tla
    tlapm PathOpenProofs.tla
    tlapm WaiterLimiterProofs.tla
    tlapm AcquireSystemProofs.tla
    tlapm LockSetProofs.tla
    tlapm WindowsOpenProofs.tla
