# Threads, monitors and waits of Portable.NET: a TLA+ development

Portable.NET (pnet) is an implementation of the Common Language Infrastructure in
C: a runtime (`src/engine`), its support library (`src/support`), an image library
(`src/image`), compilers and tools. Most of it is sequential: input to output. What
is hard to get right, and hardly reachable by the tests under `src/tests`, is the
synchronisation that `src/support` implements on its own on top of POSIX threads:
the monitors behind `lock`, the wait handles behind `WaitHandle.WaitAny`, the life of
a thread with its interrupts, aborts and suspensions; and what the engine builds on
it: the class constructors that several threads may need at once, and the finalizer
thread. This development models that layer, from the bottom up.

## 1. Inventory

| Part | Source | State it keeps | Operations | Model |
|---|---|---|---|---|
| Platform monitor | `support/pt_defs.c`, `pt_defs.h` | two semaphores `_enterLock`, `_waitLock`; the counter `_waitValue`; the pending interrupt signal | create, try/timed enter, exit, timed wait, pulse, pulse all, interrupt signal | `PtMonitor`, proofs in `PtMonitorProofs` |
| Object monitors | `support/monitor.c` | the location in the object; `owner`, `enterCount`, `users` of an `ILMonitor`; pool list, pool freelist, thread-local freelists; the pool lock | enter, exit, wait, pulse, end of a thread, reclaim by the collector | `ILMonitor`, proofs in `ILMonitorProofs` and `ILMonitorGiveUpProofs` |
| Wakeups and waits | `support/wakeup.c`, `wait.c` | `count`, `limit`, `object`, `interrupted` of each thread's wakeup; queues of wakeups | ILWaitOne, ILWaitAny, ILWaitAll, ILSignalAndWait | `WaitHandle`, proofs in `WaitHandleProofs`; ILSignalAndWait in `Finalizer` |
| Wait mutexes, wait monitors | `support/wait_mutex.c` | `owner`, `count`, `queue`; the table `ownedMutexes` of each wakeup | register, unregister, release, close; monitor wait and pulse | `WaitHandle` (mutexes), proofs in `WaitHandleProofs` |
| Wait events | `support/wait_event.c` | set flag, manual flag, queue | register, unregister, set, pulse, reset, close | `WaitHandle`, proofs in `WaitHandleProofs` |
| Threads, their life | `support/thread.c` | public and private half of the state word, use count, join queue, counts of threads, the event `noFgThreadsEvent` | create, start, run, stop, destroy, join, interrupt, abort, abort reset, background flag, sleep | `ThreadLife`, proofs in `ThreadLifeProofs` |
| Threads, suspension | `support/thread.c`, `thr_defs.h`, `pt_defs.c` | `suspendRequested`, `numLocksHeld`, the semaphores `suspendAck` and `resumeAck`, two signals | suspend, resume, suspend oneself, the request that a lock or a wait honours | `ThreadSuspend`, proofs in `ThreadSuspendProofs` |
| Engine threads | `engine/thread.c`, `lib_thread.c`, `cvm_call.c` | the monitor of a thread, `managedSafePointFlags`, `runningManagedCode` | suspend, resume, unregister, native call | `ThreadSuspend` (these), the rest not modelled |
| Class constructor manager | `engine/cctormgr.c`, `convert.c` | pool of lock entries, the manager's lock, two flags per class, the metadata lock | queue, run, wait for another thread's constructors | `CCtorMgr`, proofs in `CCtorMgrProofs` |
| Finalizers | `support/hb_gc.c` | the finalizer thread, its two events and its flags | collect, invoke, wait for finalizers, disable, enable, stop | `Finalizer`, proofs in `FinalizerProofs` |
| Lists, pools, tables | `support/interlocked_slist.c`, `mempool.c`, `hashtab.c`, `engine/method_cache.c` | sequential structures | insert, remove, look up | not modelled |
| Interpreter, JIT, verifier | `engine/cvm*.c`, `jitc*.c`, `verify*.c` | - | - | not modelled: large sequential translations |
| Image library, compilers, OS services | `image`, `codegen`, `cscc`, `support/file.c`, ... | - | - | not modelled: no protocol |

How the parts meet. `ILMonitorEnter` finds the `ILMonitor` of an object and then
enters or waits on the platform monitor inside it; the pool lock is released before
it blocks. `ILThreadInterrupt` reaches a blocked thread by two roads: a signal whose
handler leaves the semaphore wait with `siglongjmp` (platform monitor), and the
`interrupted` flag of the thread's wakeup (wait handles). A wait handle knows its
waiters only as wakeups in its queue; who releases a mutex signals the first wakeup
that accepts and makes it the owner. When a thread ends, `_ILWakeupDestroy` releases
what its wakeup's table lists, and `_ILMonitorDestroyThread` moves its freelist to
the pool. A thread that calls a method for the first time converts it under the
metadata lock, then runs the class constructors it needs without that lock, while
other callers of the method wait on a semaphore of the manager. The collector calls
`PrivateGCNotifyFinalize` from whatever thread it runs on; that thread signals the
finalizer thread and waits for its answer with `ILSignalAndWait`. The engine suspends
a thread through its monitor and `ILThreadSuspendRequest`, which stops it with a
signal and lets it run on if it holds locks.

What makes the parts correct:

- *platform monitor*: one token, always in the semaphore or with one thread; the
  wait counter agrees with the waiters, whatever gives up in between; no pulse is
  lost; a call that blocks comes back.
- *object monitors*: one owner per object, the recursion restored after a wait; a
  monitor is neither detached while somebody uses it nor attached twice; what a
  freelist gives out is idle.
- *wait handles*: who is told that it has a mutex owns it, and who is told that it
  does not owns nothing; no waiter is passed over; nothing is left in a queue; the
  table of owned mutexes is exact.
- *threads*: the counts agree with the threads; an object lives as long as its handle
  or its thread; a join that succeeds means that the thread has ended.
- *suspension*: a suspended thread is stopped, and holds no lock; an acknowledgement
  reaches the call it is for.
- *class constructors*: each runs once at a time and not again after it succeeded; who
  ran them finds them done; no lock entry is used after it is freed; constructors that
  need each other do not make threads wait in a circle.
- *finalizers*: who disabled them sees none run; nobody waits for them for ever; they
  run on a client's thread only if it is alone.

Every hazard found is listed in `PROJECT.json` at its line, with the properties that
would catch it or the reason why none does yet.

## 2. Modules

    MonitorAbs                         what a monitor promises
      ^ refines           ^ refines
    PtMonitor           ILMonitor      WaitHandle    ThreadLife    ThreadSuspend    Finalizer    CCtorMgr
      ^ extends           ^              ^             ^             ^                ^            ^
    MCPtMonitor         MCILMonitor    MCWaitHandle  MCThreadLife  MCThreadSuspend  MCFinalizer  MCCCtorMgr

    PtMonitorProofs, ILMonitorProofs, WaitHandleProofs, ThreadLifeProofs,
    ThreadSuspendProofs, FinalizerProofs and CCtorMgrProofs extend the module they
    are named after; ILMonitorGiveUpProofs extends ILMonitor

**MonitorAbs** is the abstract monitor: an owner or none, and the set of threads that
gave it up in Wait and come back only as the owner.

**PtMonitor** is the monitor of `pt_defs.c` in the variant that a Linux build selects
(`_IL_PT_LOCK_SEM`, `_IL_PT_INTERRUPT_JMP`). `enterLock`, `waitLock`, `waitValue`
are the three fields; `pc[t]` is the point before the next access to shared state, so
the load, the increment and the post of a pulse are three actions. `sig` holds the
threads for which the interrupt signal is pending. `SignalWindows` says where in the
interruptible region the signal may land: `"blocked"`, while the semaphore call has
not returned, or `"acquired"`, after it has returned 0 and before
`IL_END_INTERRUPTIBLE` masks the signal. The handler runs in the first case as
`EnterSignal` and `WaitSignal` on a blocked thread, in the second on one that has
already taken the token.

**ILMonitor** is `monitor.c`. `loc[l]` is the pointer in the object; the fast path
(`EnterAgain`, `EnterLoad`, `EnterCas`) works without the pool lock, the hard path
holds `poolLock` from `EnterLock` to the branch it takes, and the blocked path holds
nothing. The platform monitor inside appears as `token`, and the wait on it as
`WaitPost`, `WaitOver`, `WaitReenter`; that this is a fair picture of it is what
`PtMonitor` shows. A monitor that comes out of a freelist is entered without a token
being taken, because `_ILMonitorAcquire` and `_ILMonitorRelease` do nothing in this
variant. `depth[l][t]` is what the calling thread believes: its Enters that returned
success less its Exits. `GiveUps` says how a wait for a monitor may fail.

**WaitHandle** is the rest: one action per critical section of a handle, a wakeup or
a thread. `pc` runs through a wait in the order of `wait.c`: `enter`, `setLimit`,
`register` (once per handle), `adjust` (ILWaitAll), `sleep`, `waiting`, `unregister`
(once per handle), `leave`. `held[t][m]` is, again, what the callers were told.
`toWake` separates the two halves of `ILThreadInterrupt` and `ILThreadAbort`: the
flag is set under the thread's lock, the wakeup is told after that lock is left.
`DestroyNext` is one round of `_ILWakeupDestroy`. The table `ownedMutexes` it works through is
`table`, `owned` and `capacity`: how often a mutex is listed, how many entries there are and for
how many there is room (13, then 29). `AddToTable` has the growth of a full table as the code
does it: each entry becomes one of the mutex that is added (`wait_mutex.c:230`). A mutex is left
out of a table that cannot grow; a table that is full again is searched for an empty bucket for ever,
which is no step of the model.

**ThreadLife** is the life of thread objects. The state word is two sets of flags:
`pub` changes under the thread's lock, `priv` belongs to the thread, which writes it
mostly without; so the end of `_ILThreadRun` is six actions (`RunEnd`, `Stop`,
`Count`, `WakeJoiners`, `DestroyWakeup`, `Release`), and `seen` is the word the thread
has loaded before it counts itself out. `handle` and the running thread are the two
users of an object. A join is `Join`, `JoinEnterState`, `JoinWait`, `JoinLeaveState`,
`JoinRemove`: the target's lock, the own lock, the wakeup, and back. A caller names
only threads whose handle is still held, and does not destroy a handle that another
call is using. The wait of the main thread for the others is `_ILWaitOneBackupInterruptsAndAborts`
with the `ILWaitOne` in it (`ForegroundEnter` to `ForegroundLeave`): a signal to a wakeup that is
interrupted is dropped (`SignalReachesMain`), an attempt that was interrupted or aborted puts the
state word aside in `seen` and the next one registers anew (`ForegroundRetry`), when the event may
be reset again, and the last one gives the word back (`ForegroundReturn`).

**ThreadSuspend** has one target and several controllers. What the target does is a
sequence `todo` of small operations (count a lock, uncount it, enter a wait, leave it,
call native code, suspend itself, unregister); the handler of the suspend signal may
stop it before any of them, also between the acknowledgement of a thread that suspends itself
and its `sigsuspend`. `SuspendOther` to `Relock` is the branch of
`ILThreadSuspendRequest` that stops a running thread, looks at `numLocksHeld`, and lets
it run on to suspend itself when it leaves its last lock. The engine's part is the
target's monitor, which a controller enters before it suspends, and the safepoint
flag, which `Barrier` honours after a native call.

**CCtorMgr** has a stack of frames per thread; a frame is a method being converted, a thread
waiting for a conversion, a list of constructors being run, or a body being executed.
`entry[m]` is the lock entry of a method in the pool, `holder` the owner of the manager's
lock, `running` and `once` the two flags of a class. Which classes a method queues is
computed from its body (`SetCurrentMethod`, `OnCallMethod`, `OnStaticFieldAccess`), as the
two coders ask for them (`Jit`): `Asks` is the class asked for at each position, `Queued`
those whose constructor is still to be called, and `Queue` the one order in which they are
run, the class first asked for last. `MetaLock` says what the metadata lock is. A
`pthread_rwlock_t` (`"rwlock"`, the Linux build) refuses a read lock to its own writer; the
result is not looked at, and the unlock that follows gives the write lock up. The mutex that
replaces it where there are no such locks (`"mutex"`, `pt_defs.h:433`) is a fast mutex that
is not recursive: the thread waits for itself. Only the critical section of a Windows build
(`"critical"`) may be taken again by its owner. An unlock by a thread that does not have the
lock is undefined: the lock is then `Broken` and lets in whom it likes. The suppression of
finalizers by `METADATA_WRLOCK` is left out.

**Finalizer** is `hb_gc.c`: the loop of the finalizer thread (`FWait` to `FPulse`), and
clients with a program counter and a stack of return points, since collections,
notifications and `ILGCFullCollection` call each other. Every access to one of the
unlocked flags is an action. libgc appears as three numbers or sets: objects that are
`live`, objects that are `ready` for their finalizer, and the threads that are `busy`
in one; `FindsGarbage` may make any number of objects ready. Every client
may disable and enable finalizers, since `METADATA_WRLOCK` and `METADATA_UNLOCK` do so on any thread
(`engine.h:414-424`); `section` counts a client's calls that are not yet undone. `setter` is the client
whose call set the flag, `told` contains it once it has found no finalizer running or was answered, and
`quiet` are the clients to which `ILGCDisableFinalizers` has returned 1.

Abstractions: freelists are sets (which monitor is reused does not matter to the
properties); the hash table of owned mutexes is a bag with a size and a capacity; timeouts
are `zero`, `finite` or `infinite` and a finite one may expire at any time; a handle is
passed to a wait at most once (repeated handles are left out); `DestroyNext` gives a mutex
up with all its recursion at once, since the code's loop releases it until it is free; in
`WaitHandle` suspension at the end of a wait is left out, which `ThreadSuspend` has; an
event or a mutex is created before the first step and is not closed. Data races are modelled
where the code has them on purpose (the fast path of Enter, the atomic counter), and all
such accesses are to one word.

## 3. What the runs check

| Run | Instance | Shows |
|---|---|---|
| `pt_monitor` | 3 threads, timeouts, signals while blocked | type, `EnterTokenConserved`, `WaitAccounting`, `NoLostPulse`, refinement of `MonitorAbs`, `CallsReturn` |
| `il_monitor` | 3 threads, 3 monitors, 2 objects, recursion 2, freelists of 1 to 2 | type, `InsideOwns` (mutual exclusion and recursion), `OwnerIsClear`, `UsersCounted`, `FreeIsIdle`, `OneHome`, as long as no wait for a monitor gives up |
| `il_monitor_giveup` | 2 threads, 2 monitors, 2 objects, timeouts, interrupts and aborts | `StaysAttached` also when waits give up |
| `il_monitor_fair` | 2 threads, 2 monitors, 1 object | refinement of `MonitorAbs` by the monitor of each object; `EnterReturns` |
| `wait_one` | 2 threads, 2 mutexes, recursion 2, tables that grow from 1 to 2 entries, timeouts, interrupts | type, `HeldIsOwned`, `NobodyStranded` for ILWaitOne, and `TableExact` as long as the table has not grown |
| `wait_many` | 2 threads, a mutex and an automatic event, interrupts, failing allocation, tables of 1 entry | `NobodyStranded`, `NoStaleItem` for ILWaitAny and ILWaitAll |
| `wait_fair` | 2 threads, 1 mutex, timeouts, aborts, abort resets | `WaitReturns` |
| `cctor_mgr` | 4 threads, 2 classes whose constructors use each other's methods and one without constructor, one constructor that may throw, a POSIX rwlock | type, `EntryAlive`, `RunningIsExecuting`, `InitialisedOnReturn`, `NobodyStuck` |
| `thread_life` | the main thread and 2 others, 2 calls besides create, start and destroy | type, `CountsExact`, `FreedWhenUnused`, `JoinTellsEnd`, `ForegroundWaitReturns` |
| `finalizer` | the main thread, another one and the finalizer thread, 2 objects, 3 calls, both threads disable and enable, shutdown | type, `DisableHandshake`, `SyncAlone`, `WaitIsAnswered` |
| `thread_suspend` | 2 controllers, 7 suspends or resumes, a target that does 4 things | type, `SuspendedHoldsNothing`, `SuspendedIsStopped`, `NoStaleAck` |
| `finalizer_disable` | as `finalizer` | **violates** `QuietWhileDisabled` |

Each property of a passing run has a mutant: a definition with a plausible mistake
(a dropped guard, a missing count, a swapped order) for which TLC finds the property
violated. They are the operators under a "Mutant" comment or one that names "the bug
of", used by nothing else.

*Bounds.* Three threads are an owner, a thread that comes, and a third that gives up or
takes over: the interleavings the hazards speak of need no more. `MinFree` and `MaxFree` are
1 and 2 instead of the code's, so that a freelist is empty, full and trimmed within a few
steps; three monitors are enough to fill one and keep one attached. `MaxDepth` and
`MaxCount` bound recursion at 2, one nested level; `MaxToken` and `UserLimit` are never
reached without a violation, and `users` wraps at `UserLimit` as the unsigned field does; it
is larger in `il_monitor_giveup`, where two threads can drive `users` higher than their
number (`WideCount`, section 5). Threads (and in `ILMonitor` monitors and objects) are
interchangeable; symmetry is used in runs without liveness only. In `CCtorMgr` four threads
are one that runs constructors, two that wait for the same entry, of which one is the last,
and one that comes with another method; each makes one call from outside, and the
constructors call on from there (270,000 states). In `ThreadLife` two calls are a join and a
call that disturbs it, or two that disturb each other, while two threads start and stop
(140,000 states). In `Finalizer` three calls are one that makes objects ready, one that
disables finalizers or waits for them, and the shutdown; two objects are the one whose
finalizer runs and one still in the list (830,000 states). In `ThreadSuspend` seven calls
and four things to do let a suspend, its counterpart and a second pair of another
controller, which the target's monitor makes follow each other, fall on each of the target's
ways to stop (100,000 states). `MaxCalls` and `MaxRounds` bound these. In `WaitHandle` a
table of one entry is full with the first mutex and has grown with the second; that the
code's has 13 makes no other difference. Of the two threads' tables one grows at most
(`OneGrows`, a constraint of both runs); without it the properties hold as well, on about
twice as many states. Two threads and two mutexes (`wait_one`, 1,450,000 states; `wait_many`
has 3,050,000) leave one waiter in a queue; `WaitQueue.cfg` has the same properties with
three threads and one mutex, of which two queue (940,000 states), and is not among the runs.

*Deadlock* is checked in `PtMonitor`. It is not in the others: when all threads have ended,
or a thread has died inside a monitor others wait for, the system stops; and where calls are
bounded it stops at the bound. `NobodyStuck` states for `CCtorMgr` what deadlock freedom
would: while a call is under way, some thread can go on. In `ThreadSuspend` the target may
sleep with no controller left to resume it. A resume between a request and its answer would
strand the suspender, which the code declares open (`thread.c:653`). Between the engine's
suspend and its resume that cannot happen, since both enter the target's monitor first. But
`ILThreadAbort`, which the engine calls after it has left that monitor
(`engine/thread.c:499-503`), resumes a suspended thread without it (`thread.c:782-786`) and
may meet the case. `ThreadSuspend` has no abort: what it shows holds for a target that
nobody aborts while it is being suspended.

*Fairness.* A thread inside a call is scheduled (`WF` of its steps, `SF` where a step
needs the pool lock, which a mutex grants in the end). A semaphore or a lock does not
pass a thread over for ever (`SF` of the acquisition). A caller that is inside leaves:
`SF` of the last Exit or release, since a thread may enter again in between. This is
an assumption about the program that uses the library; without it no wait for a lock
ends. Nothing is assumed about time (a timeout need not happen), about pulses or
about events: a thread that nobody pulses may wait for ever, and `CallsReturn`,
`EnterReturns` and `WaitReturns` do not promise otherwise. `EnterReturns` excludes
the behaviours in which a thread dies inside a monitor: the code does not release it.
`ThreadLife` assumes that the code of a started thread ends and that a call goes on
when nothing blocks it (`WF` of `Run`, `InCall`, `InForeground`): enough for the main
thread's wait, since the counts are exact. `Finalizer` assumes `WF` of the finalizer
thread's and of the clients' steps, and nothing about calls, collections or timeouts:
`WaitIsAnswered` holds for a wait without a timeout. That finalizers themselves
return is part of it.

## 4. Findings

`finalizer_disable`: `ILGCDisableFinalizers` returns 1 while a finalizer runs. It waits by
asking for finalizers, and that request returns at once when no object is left in the list
(`hb_gc.c:182`), although the finalizer of the last one has not returned; a second thread
that disables finalizers is not made to wait at all (`hb_gc.c:569`). The comment at
`hb_gc.c:582` guarantees the contrary, and `process.c:742` relies on it when it unloads a
process. There is a second cause: `_FinalizersDisabled` is a flag and not a count, and every
thread that leaves the metadata lock clears it (`METADATA_UNLOCK`, `engine.h:419`; also
`lib_gc.c:159-162`), so that finalizers may run while another thread has disabled them. What
the flags do give is `DisableHandshake`: once the thread that set the flag has found no
finalizer running, or was answered, none runs until some thread, not necessarily this one,
enables them.

The following configurations reproduce further disagreements between the code and
its own comments. They are not among the runs; `tlc -config <cfg> <module>` shows the
behaviour as a counterexample.

| Configuration, module | Property | What it shows |
|---|---|---|
| `PtMonitorLateSignal`, `MCPtMonitor` | `EnterTokenConserved` | An interrupt that lands between the return of `sem_wait` and the mask of the signal (`pt_defs.c:425`) loses the token; the monitor cannot be entered again. `monitor.c:544` says "If we acquired the monitor successfully but got interrupted we have to exit the monitor now." |
| `ILMonitorTimeout`, `MCILMonitor` | `OwnerIsClear` | A wait that times out between the last owner's update of `users` and its post puts a monitor with a token into the freelist (`monitor.c:552`); its next owner is not alone. `monitor.c:530`: "The owner should be 0 at this point." |
| `WaitAny`, `MCWaitHandle` | `ReturnsOwned` | A signal before the sleep (`wakeup.c:142`) makes ILWaitAny release the mutex it was handed and return an index. `il_thread.h:482`: "Returns the index of the handle that was acquired." |
| `WaitAll`, `MCWaitHandle` | `ReturnsOwned` | A mutex released to a thread that still needs another handle is not handed over (`wakeup.c:396`), and ILWaitAll returns 0. `il_thread.h:488`: "Returns zero if all wait handles were acquired." |
| `WaitInterrupt`, `MCWaitHandle` | `ClearsInterrupt` | `_ILLeaveWait` leaves IL_TS_INTERRUPTED set (`wait.c:137`). `wait.c:520`: "Interrupted is cleared by ILWaitOne so save it manually" |
| `ThreadLifeBackground`, `MCThreadLife` | `EventWhenAlone` | A thread that stops has read its flag when another thread changes it (`thread.c:371-376`); the counts drift and the event stays unset. `thread.c:166`: "If there is only the main thread left then signal the noFgThreads event" |
| `ThreadLifeWakeup`, `MCThreadLife` | `WakeupNotNeeded` | ILThreadInterrupt reaches the wakeup after the thread has destroyed it. `thread.c:388`: "The wakeup isn't needed anymore so destroy it now" |
| `ThreadLifeSleep`, `MCThreadLife` | `WaitStateCleared` | A sleep that an abort prevents leaves the thread marked as waiting: `thread.c:1140` sets the flag that the comment at `thread.c:1139` clears |
| `ThreadSuspendResume`, `MCThreadSuspend` | `SleeperIsMarked` | A thread that suspends itself for a request, and again on its own account, is resumed once and sleeps on without being marked as suspended. `il_thread.h:195`: "Resume a suspended thread." |
| `ThreadSuspendMonitor`, `MCThreadSuspend` | `MonitorOnlyInCalls` | After a plain success of ILThreadSuspendRequest the suspender does not leave the target's monitor (`engine/thread.c:457-466`). `engine/thread.c:415`: "Entering the monitor keeps the execThread from being destroyed" |
| `WaitTable`, `MCWaitHandle` | `DeadOwnsNothing` | When the table of owned mutexes grows, its old entries become the new mutex (`wait_mutex.c:230`); a thread that ends then keeps the others for ever. `wakeup.c:55`: "Fully release all owned mutexes" |
| `CCtorMetadata`, `MCCCtorMgr` | `ConverterHasMetadata` | On a POSIX reader-writer lock the search for the constructor (`cctormgr.c:372-382`) gives up the write lock that ConvertMethod holds. `convert.c:218`: "We need the metadata write lock" |
| `CCtorHelper`, `MCCCtorMgr` | `HelpedEntryAlive` | On that lock the owner of the entry, whose classes the thread still runs, may then unlink and free it (`cctormgr.c:272-286`). `convert.c:218` as above |
| `CCtorMutex`, `MCCCtorMgr` | `NobodyStuck` | On the mutex that replaces it (`pt_defs.h:433`) the thread waits for itself at `cctormgr.c:372`. `pt_defs.h:363`: a mutex that "doesn't allow recursive locking" |
| `CCtorInit`, `MCCCtorMgr` | `InitBeforeUse` | A method that was converted by the thread that runs its class's constructor may be called by another thread before that constructor has ended. `cctormgr.c:740`: "We have to call the cctor before accessing any static field of this type" |
| `FinalizerStop`, `MCFinalizer` | `FinalizerStops` | The signal to stop that falls between the finalizer thread's look at the stop flag and its reset of the signal is lost (`hb_gc.c:148-165`); ILGCDeinit waits for its timeout |

Read but not modelled: the search for a registered cleanup does not advance
(`thread.c:1270`); ILThreadJoin honours the suspend request of the thread it joined
(`thread.c:976`); the result of the untimed notification in `ILGCFullCollection` is
tested the other way round (`hb_gc.c:469`; `FullTest` follows the code).

`il_monitor` and the theorems about `PtMonitor` hold under the assumptions that exclude the
causes of the second and the first reproduction: `GiveUps = {}`, `NoLateSignal`.
`thread_life` holds for `AnyBackground = FALSE`. `cctor_mgr` has the lock of the Linux
build; its `EntryAlive` and `NobodyStuck` say nothing once that lock is `Broken`, and
`EntryAlive` speaks of a thread that runs another's classes only while it has the lock.
`TableExact` says nothing of a table that has grown.

## 5. What is proved

All theorems hold for every value of the constants that satisfies the named assumption
of the component's module (finite sets of threads and workers, bounds that are natural
numbers). A further restriction is a hypothesis of the theorem. Where it excludes
something the code allows, section 4 has the counterexample that makes it necessary.

| Module | Theorem | States | Hypothesis |
|---|---|---|---|
| `PtMonitorProofs` | `TypeCorrect` | `TypeOK` | |
| | `TokenConserved`, `AccountingHolds`, `PulseServesWaiters` | `EnterTokenConserved`, `WaitAccounting`, `NoLostPulse` | `NoLateSignal` |
| | `ImplementsMonitor` | `Spec => AbsSpec` | `NoLateSignal` |
| `ILMonitorProofs` | `TypeCorrect`, `MutualExclusion`, `NobodyOwns`, `UsersAreCounted`, `FreeMonitorsAreIdle`, `MonitorHasOneHome`, `StaysWhileUsed` | `TypeOK`, `InsideOwns`, `OwnerIsClear`, `UsersCounted`, `FreeIsIdle`, `OneHome`, `StaysAttached` | `NoGiveUps` |
| | `ImplementsMonitor` | `Spec => AbsSpec`, for every object | `NoGiveUps` |
| `ILMonitorGiveUpProofs` | `StaysHoweverWaitsEnd`, `OneHomeHoweverWaitsEnd` | `StaysAttached`, `OneHome` | `WideCount` |
| `WaitHandleProofs` | `NobodyStrandedHolds`, `NoStaleItemHolds` | `NobodyStranded`, `NoStaleItem` | |
| | `HeldIsOwnedHolds`, `TableExactHolds`, `TypeCorrect` | `HeldIsOwned`, `TableExact`, `TypeOK` | `OnlyOne` |
| `ThreadLifeProofs` | `ObjectOutlivesUses`, `JoinIsTruthful` | `FreedWhenUnused`, `JoinTellsEnd` | |
| | `CountsAreExact`, `TypeCorrect` | `CountsExact`, `TypeOK` | `OwnBackground` |
| `ThreadSuspendProofs` | `TypeCorrect`, `StoppedHoldsNothing`, `MarkedIsStopped`, `AcksAreFresh` | `TypeOK`, `SuspendedHoldsNothing`, `SuspendedIsStopped`, `NoStaleAck` | |
| `FinalizerProofs` | `TypeCorrect`, `SynchronousIsAlone` | `TypeOK`, `SyncAlone` | |
| | `DisableKeepsQuiet` | `DisableHandshake` | |
| `CCtorMgrProofs` | `TypeCorrect`, `EntryOutlivesUse`, `OneConstructorRuns`, `ClassesAreInitialised` | `TypeOK`, `EntryAlive`, `RunningIsExecuting`, `InitialisedOnReturn` | |
| | `SomebodyGoesOn` | `NobodyStuck` | `MetaLock # "mutex"` |
| | `CriticalSectionKept` | `ConverterHasMetadata` | `MetaLock = "critical"` |

**PtMonitorProofs.** `NoLateSignal`: no signal in the `"acquired"` window.
The inductive invariant is `IInv`: the type, `EnterTokenConserved`, `WaitAccounting`
and `CountInv`. None is inductive alone. That the counter is exact needs the token:
pulses are not atomic, and only because one thread at most is inside is there at most
one pulse in progress, whose `Debt` (what it has put on `_waitValue` and not yet
posted) explains the difference. `CountInv` keeps the value that PulseAll exchanged
negative while it posts and positive while it adds it back. `CardStep` says how one
thread's step changes the number of holders and of waiters, `OneHolder` that a holder
is the only one; with them each action is arithmetic. `BalancedStep` and `PulsingStep`
are the two ways to keep the accounting: a step that leaves the balance alone and
a step of the pulsing thread. `NoLostPulse` follows from `IInv` without induction.
For the refinement, `OneHolder` makes the mapped owner (a CHOOSE) the one holder, and
each action maps to a step of `MonitorAbs` or to a stutter.

**ILMonitorProofs.** `NoGiveUps`: no wait for a monitor times out, is interrupted or
aborted (`GiveUps = {}`). The invariant `MonitorInv` says of a monitor that it has one
home (`HomeOK`: an object, the pool's freelist, a thread's freelist, or the batch that
a thread hands over), of an object that its monitor has one holder of the token and
counts exactly the threads that use it (`LocationOK`), and of a thread that what it read
without the pool lock is still so (`ThreadOK`). The parts carry each other: the
monitor a thread has read stays attached because the thread is counted, or the lock is
its own; the count decides whether Exit detaches; and the next taker of a
detached monitor is alone because nobody held or waited for its token. Counts are
cardinalities that one thread's step changes by one, and stay below the width of
`users`. The refinement is proved object by object: an action of a thread at an object
is a step of that object's abstract monitor (`AbsThreadStep`), and for every other
object a stutter (`ActorOnly`).

**ILMonitorGiveUpProofs.** The same monitors when waits may time out, be interrupted or be
aborted, with no hypothesis on `GiveUps`. Most of `MonitorInv` is false there: a thread
that gives up may free the monitor before the thread that left it has posted the token,
the token comes back with the monitor for its next object, and two threads own it at once.
What is left is that the monitor is not taken away from a thread that uses it
(`StaysAttached`, the property that `il_monitor_giveup` checks) and is never in two places
(`OneHome`). `GiveUpInv` has the types, the
control state and the homes of the monitors as before, says nothing of tokens in the
freelists, and replaces the exact count by two bounds. `Counted`: `users` is at least the
number of threads inside plus those in a call, which is why Exit and the give-up path, which
detach when they were the last user, leave nobody behind. It may be more, because a thread
whose ownership was overwritten never takes itself off. `Paid`: `users`, the token and the
posts under way together exceed the queued threads by a fixed `Spare` at most; without it
`users` might wrap around and `Counted` would not be inductive. A thread that joins the
users is queued, one that leaves the queue for the inside has consumed a token, and one that
gives up leaves both. `WideCount` says that the field is wider than what `Paid` allows,
`2 * |Threads| + MaxToken + 1`; the code's field is a 32-bit unsigned, and `MaxToken` bounds
the posts that no thread has consumed. `Shift` and `CountStep` say how the step of one
thread changes the four cardinalities, `RoomForOne` that one more user fits;
`PostLateStep` is the post that finds its monitor freed or at another object, and
`GiveUpStep` the step at which a waiter leaves. `GiveUpInv` was checked with TLC on
the instance of `il_monitor_giveup` before it was proved.

**WaitHandleProofs.** For all calls, the invariant `WaitInv` says of each thread how its
loop, its limit and its count stand (`LocalOK`), that it has an item only at a handle it
has registered and not unregistered (`QueuedOK`), and that the registered handles at which
it has no item are no more than it has acquired or its wakeup has counted, unless the
wakeup is interrupted or has reached its limit (`CountedOK`); of each queue that nobody is
in it twice, and of each mutex that it has an owner if it has a queue (`FreeOK`).
`NobodyStranded` needs all of it: a signal that is counted takes exactly one item away
(`OnceOK`), `_ILWakeupQueueWake` goes on to the next item until one reaches its limit, so
that it leaves either an owner or an empty queue (`WakeOK`), and a registration adds one
index to those that may be missing (`OneMore`). Of a step of one thread the others notice
at most a signal (`Served`), which `RestsOK` treats once for all actions.

`OnlyOne`: every call is of ILWaitOne. With the others the properties do not hold: `WaitAny`
and `WaitAll` in section 4 return without the mutex. `OneInv` adds to `WaitInv` that a mutex
is owned as often as its owner was told and did not release, and once more while its call
waits or has not returned (`OwnedOK`); that the table has the mutex unless the owner has
been handed it in a wait and has not unregistered, which is when the entry is made, if the
mutexes have always fitted into the table as it was allocated (`Fitted`, a part of `TableExact`); and
that a signal on the wakeup of a mutex's waiter means that the waiter is the owner, so that
a result "ok" is never given without it. It is inductive because the limit is 1: every
signal that counts reaches it, so that `HandOver` signals the new owner and nobody else
(`HandOverOne`). A timeout, interrupt or abort that comes after the hand-over finds
`count` 1 and passes the mutex on (`UnregisterNextOne`, `GiveBackOne`).

**ThreadLifeProofs.** `LifeInv` says of each worker how its object, its handle, its
control point and the flags `unstarted` and `stopped` belong together, with `useCount`
the number of the two users (`LifeOf`); and of each call which thread it is about, which
queue it is in, and that a signal on its wakeup or a success in its result means that
this thread has stopped (`CallOf`). An object is not freed under a call because a call
names a held handle and a handle is not destroyed under a call. `MainOK` keeps the main thread
out of this, also while it waits for the others: the state word that it puts aside and gives back
(`seen`) never held `unstarted` or `stopped`. `FreedWhenUnused` and
`JoinTellsEnd` follow, whatever the background flags. `CountsExact` is inductive
relative to `LifeInv`, which tells a thread that sets its own flag to be counted, and
one not started not to be; `OwnBackground` (`AnyBackground = FALSE`) excludes the change
of a running thread's flag by another thread (`ThreadLifeBackground` in section 4), and
`TypeOK` needs it because the counts may otherwise fall below zero.

**ThreadSuspendProofs.** `SuspendInv` rests on `OneInside`: a controller in a call has the
target's monitor, so that one at a time is there. `Protocol` then ties, for each place
where that controller may wait, the semaphores, the handler, `numLocksHeld` and what
the target still has to do (its `todo` is one of a few shapes, given as sets of
sequences); `Resting` is the case in which nobody waits. The three properties are read
off the cases.

**FinalizerProofs.** `SyncInv` gives each client's stack its shape (a call from outside
at the bottom and only there) and says which threads are in a finalizer; with it
`SyncAlone` is inductive. `CountInv` adds the bounds on objects and counts that the type
needs. `HandshakeInv` is about the client that has set the flag: it is still set, and once that client is
sure (it found no finalizer running, or the finalizer thread has answered it) the finalizer thread
is not about to run any. It allocates, and skips finalizers when it collects, until a client
enables them, which ends it for everybody. That the flag is not counted needs no hypothesis: an
enable by any client empties `setter` and `told`.

**CCtorMgrProofs.** The invariant `CCtorInv` relates the global state to the stacks, frame by frame:

- `Shapes`: only a body or a list of constructors waits for a call above it, and the
  frame of a constructor stands on the list whose first class is the one it initialises;
- `HolderOK`: who runs constructors has the manager's lock, and the frame that took it is
  below all frames that do; a thread that waits for an entry does not have it;
- `ClassOK`: a class is flagged as running and not done exactly while it has a frame, one,
  on the stack of the manager's owner;
- `ConvertOK`: a linked entry has an owner that is at its conversion, with one frame; an
  entry counts the threads that wait for it or were woken, its semaphore those that may
  still go on; and what a converting frame has left to run, together with what is done,
  covers the entry's classes, if it took the lock and nothing was thrown.

None of them mentions the metadata lock, so they hold for all three kinds and also when it is broken: the
manager's own lock is what they rest on. What is known of the metadata lock is `LockInv`, which is proved
on top of `CCtorInv`: for a critical section the hold count is the number of the
writer's frames that hold it, and all their entries are in place (`CriticalInv`); for the other two
the owner holds it once, by its top frame, and a thread about to read an entry has it
unless it is broken (`PosixInv`), since the first constructor a helping thread calls costs it the lock.

They need each other. `InitialisedOnReturn` is not inductive without `HolderOK` and
`ClassOK`: a thread skips a class that is flagged as running, and only because the frame
that took the lock has no constructor below it is a class that it skips a class that is
done. `EntryAlive` needs `LockInv`: between the count and the read of the entry a woken
thread has the metadata lock, which the owner needs to unlink the entry; so has one that
runs another's classes, on a rwlock until it calls the first constructor. The steps are
sorted by what they do to one stack (replace its top, push, pop, return to the caller), with
one lemma for each part of the invariant and each kind; an action is then a matter of its
guard. `NobodyStuck` follows without induction: the writer of the metadata lock is not
blocked; if there is none, the manager's owner is not; if there is none either, a thread
that waits for an entry has an owner that is not, or a posted semaphore. `Blocked` lists the
reasons for which a step is not enabled; that it lists all of them is read off the guards,
since ENABLED is out of the prover's reach.

Only model-checked is what is out of the prover's reach: the liveness properties
`CallsReturn`, `EnterReturns`, `WaitReturns`, `ForegroundWaitReturns`, `WaitIsAnswered`,
which need fairness.

## 6. Plan

Done: 1 `PtMonitor`, 2 `ILMonitor`, 3 `WaitHandle`, 4 `CCtorMgr`, 5 `ThreadLife` and
`ThreadSuspend`, 6 `Finalizer`; and the proofs of all of them: every invariant that a run
checks is stated by a theorem.

What could come next: what ILWaitAny and ILWaitAll do guarantee about ownership, which needs
a statement of it first (section 4 has what they do not); wait monitors on top of
`WaitHandle`.

## 7. Not modelled

- Wait monitors (`ILWaitMonitorWait`, `Pulse`), named mutexes, the closing of handles:
  the monitor wait is a mutex wait around a queue, which `WaitHandle` has the parts of;
  the engine's use of it is a counter in `ThreadSuspend`.
- The hashing of the table of owned mutexes: sequential; its size, its growth and what it lists are
  modelled. An allocation failure of a table's first buckets, which the code does not survive.
- The cleanup lists, priorities and `ILThreadRunSelf` of `thread.c`; suspension inside a
  join; the abort of a suspended thread, with the resume in `ILThreadAbort`; two threads that suspend each other; the collector's own stop signals.
- Allocation failures of the class constructor manager.
- The interpreter, the JIT, the verifier, the image library, the compilers and tools,
  the classes behind the library calls: more than nine tenths of the repository, input
  to output, single-threaded by construction or guarded by one lock. They have no
  protocol whose interleavings a model checker could explore; translating them would
  be a second implementation, not a model. The vendored `libgc` and `libffi` are not
  this project's code.
