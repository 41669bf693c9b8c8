# TLA+ models and proofs for iocore

iocore is a small C++ library of "basic abstractions for C++ systems
application": threads with per-thread buffer pools, locks, intrusive lists and
the queues made of them, performance counters, a logger. Nearly all of it is
header code that several threads run at once, and the repository's one test
(`test/thread-test.cc`) starts, cancels and joins threads and checks nothing
about the rest. This directory holds models of that code, the TLC
configurations that check them, and TLAPS proofs of the most important results.

    tlc -config InList.cfg InList.tla        check one run (PROJECT.json lists them)
    tlapm InListProofs.tla                   check the proofs of one module

Paths and line numbers below and in the modules are those of the repository.
`PROJECT.json` lists for every definition the lines it models.

## 1. The system

| Component | State | Operations | Modelled in |
|---|---|---|---|
| `InListElement`, `InList` (`include/inlist.hpp:15-110`) | `head_`, `tail_`, and `next_`, `prev_` inside the client's elements | Push, Unlink, Pop, IsEmpty, destructor | `InList`, `FifoList` |
| `InQueue` (`include/inlist.hpp:112-243`) | `lock_`, `conditionEmpty_`, `q_`, `maxSpin_` | Push, Pop, Pop(ms), IsEmpty, private TryPop | `InQueue`, `AtomicQueue` |
| `Queue` (`include/inlist.hpp:245-301`) | the same over `std::queue`, without spinning | Push, Pop, IsEmpty | `Queue`, `InQueue`, `CancelledPop` |
| `Mutex`, `SpinMutex` (`include/lock.h:18-28, 224-298`) | `mutex_`, `owner_` | Lock, TryLock, Unlock, Is, IsOwner | `SpinMutex`, `AbstractLock` |
| `PThreadMutex`, `WaitCondition` (`include/lock.h:92-220`) | a pthread mutex (recursive by default), a condition variable | Lock, Lock(ms), TryLock, Unlock, IsOwner; Wait, Wait(ms), Signal, Broadcast | `Locks`, `TimedWait`; in `InQueue` as it uses them |
| `PThreadRWLock`, `AutoReadLock`, `AutoWriteLock` (`include/lock.h:302-423`) | a pthread rwlock; the guard's pointer | ReadLock, WriteLock, Unlock; constructor, Unlock, destructor | `Locks` |
| `AutoLock`, `Guard`, `AutoUnlock` (`include/lock.h:32-88`) | the guard's pointer | constructor, Unlock, destructor | `Locks` |
| `Thread` (`include/thread.h`, `util/thread.cc`) | `tid_`, `ctx_pool_` | Start, Cancel, Detach, Join, Destroy, ThFn, SetProcessorAffinity | `ThreadLife`, `CancelledPop` |
| `ThreadCtx` (`include/thread-ctx.h`) | thread-local `pool_`, `tinst_`; static counters and `printstat` | Init, Cleanup (twice), GarbageCollect | `ThreadLife` |
| `ConsoleLogWriter` (`include/logger.h:190-209`) | `isopen_` | Append | `ThreadLife` |
| `Logger`, `LogMessage`, `LogHelper`, `Singleton` (`include/logger.h`, `include/util.h:307-337`) | `instance_`, `writer_`, `logrc_` | Init, Instance, Destroy, AttachWriter, Append | `ThreadLife` |
| test fixture (`include/unit-test.h`, `test/thread-test.cc`) | the objects of the test | SetUp, TearDown, StopMain, CancelMain | `ThreadLife` |
| `PerfCounter` (`include/perfcounter.h:20-189`) | atomic `val_`, `count_`, `min_`, `max_`, `bucket_` | Update, printing | `PerfCounter` |
| `Time` (`include/util.h:150-203`) | none | GetTimeSpec, elapsed times | `Clocks` |
| `TimeCounter` (`include/perfcounter.h:200-247`) | an array of times | | not modelled |
| `RRCpuId`, `SysConf` (`include/sysconf.h`) | `nextId_` | GetId | not modelled |
| `Rdtsc`, `System`, `Math` (`include/util.h:42-148`) | static `hz` | clock rates, Roundup | not modelled |
| `StateMachine`, `AutoPtr`, `BoundedQ` (`include/util.h:247-458`) | one field each | sequential | not modelled |
| macros, types, build files, gtest | none | | not modelled |

How they interact. A client's object is linked into an `InList`; an `InQueue`
holds one and guards it with a `PThreadMutex` and a `WaitCondition`.
`Thread::Start` runs `ThFn` on a new pthread, which calls `ThreadCtx::Init`, the
client's `ThreadMain` and `ThreadCtx::Cleanup`; the thread and its `Thread` object
share the buffer pool through `ctx_pool_`. The creator of the object may
cancel the thread at any time, and joins it before it destroys the object.
All of them log through `LogMessage`, which ends in `ConsoleLogWriter::Append` and its flag;
the fixture creates the `Logger`, gives it its writer, and destroys it.
`SpinMutex` and `ThreadCtx` count into `PerfCounter`s, which any thread updates without a lock.

What is hard about it, and so what the properties are about (`hazards` in
`PROJECT.json` lists every place):

* signals after the unlock, woken threads that find their element stolen by a
  spinning one, waits that expire (`InQueue`);
* two words that describe one lock and are written one after the other
  (`SpinMutex`);
* cancellation, which may strike at any instant of a thread's life and end it
  while it is responsible for a pool or half way through a message (`Thread`);
* a compare-and-swap loop whose expected value changes under it (`ConsoleLogWriter`);
* holds that are counted by a recursive mutex, owned by guards, adopted, and lent out
  in a condition wait (`Locks`), and deadlines on a clock other than the one waited on (`TimedWait`);
* counters that several threads change by compare-and-swap while another prints them (`PerfCounter`);
* pointer surgery with many small cases (`InList`).

What makes the components correct: a list that always spells what was put into
it; a queue whose calls each take effect at one instant, that loses no element
and no wakeup and leaves no caller behind; a lock that one thread has at a
time, whose own assertion neither misses nor invents a relock; guards that give back
each hold once; counters that forget no update; a thread that
ends outside of every message and whose resources are freed exactly once however it ends; a
log that one thread writes to at a time.

## 2. The modules

### FifoList, InList, InListProofs

`FifoList` is the promise of the comment at `include/inlist.hpp:26-33`: a
first-in first-out list from whose middle any element can be taken. `InList` is
the code: `next_` and `prev_` are functions on the elements, and each operation
is one action made of the code's pointer assignments, in its order where a
later one reads what an earlier one wrote. Both belong to one thread at a time
(InQueue calls them under its lock). The history variable `list` follows the
calls and not the pointers. `PushAsserts`, `UnlinkAsserts`, `PopAsserts` are
the ASSERTs at the entry of the operations, which a CMake build compiles out and a build with
`make` keeps. The client's obligations (no second Push of a linked element, no
Unlink of a free one, no Pop from an empty list) are the guards;
`AssertsDetectMisuse` says which of them the ASSERTs enforce, and that one case
slips through: pushing the only element of a list once more.

### AtomicQueue, InQueue, InQueueProofs, InQueueAtomicity

`AtomicQueue` has calls that begin, take effect at one instant and return; it is
what linearizability means for this interface. A timed Pop may return empty-handed
only if the queue was empty at some instant of the call.

`InQueue` takes a step per access to shared state. `pc[t]` is the place of
thread t in its call. `q_` is the abstract list, which the proofs about `InList`
entitle it to. `lock_` is the owner of the mutex. The threads at "asleep" are
those blocked in the condition variable, which releases the mutex and falls
asleep at once; at "woken" and "expired" a thread has been signalled, or its
time is up, and it still has to get the mutex back. The constants say
what the platform may do: `SpuriousWakeups`, and `TimeoutTakesSignal` (a wait
that is timing out may swallow a signal). A timer may fire at any time: real
time is not modelled here, and by `TimedWait` the code's deadlines may indeed come at once. `sched_yield` has no effect on the state.

### Queue, CancelledPop

`Queue` is `Queue<T>`: line by line the Push and IsEmpty of `InQueue`, and a Pop
that goes to the lock at once, which is what InQueue does with `MaxSpin` 0 (the
assumption then excludes timed Pops, which Queue does not have: without TryPop
one could return empty-handed without a look at the queue). Its steps are those
of `InQueue`, so `QueueWithoutSpinning` derives its properties from InQueue's.

`CancelledPop` lets `Thread::Cancel` meet a sleeper of a `Queue`. Of all steps only the
condition wait is a cancellation point, and pthreads takes the mutex again
before the thread ends. Nothing gives it back.

### AbstractLock, SpinMutex, SpinMutexProofs

`AbstractLock` is the `Mutex` interface as an atomic object: Lock and TryLock take
the lock, TryLock is refused only while somebody has it, IsOwner answers for one
instant, and a Lock by the holder ends the process (the INVARIANT of
`include/lock.h:263`). `SpinMutex` has one action per access to `mutex_` or
`owner_`. The refinement makes a thread a holder from its compare-and-swap to
the one of its Unlock. `InitialOwners` is what `owner_` may hold before
the first Lock: the constructor does not set it.

### Locks, LocksProofs

The POSIX locks and all four guard classes together, because they are used
together: the recursive mutex is an owner and a count, the rwlock the number of
its read holds (both its locks lock for reading), a guard the thread it belongs
to, its class and whether its pointer is set. Each thread
constructs, unlocks and destructs guards in any order, takes holds of its own
(`bare`: Lock, TryLock, Lock(ms)), lets an AutoUnlock adopt one of these, asks IsOwner, and waits.
On a recursive mutex IsOwner is just another Lock (`include/lock.h:150-153`), and its answer is
always no: the caller does not know of the hold it now has and does not give it back (`leaked`). A Wait gives up one
hold. `GuardsMatchLock` keeps the books on all of that; `ScopesExclude` is what the guards
are for. `OutsideOwners` says when a thread keeps the mutex from the others although it is in no scope: exactly
if IsOwner left it a hold, or if it sleeps in a Wait that it entered with more than one, so that nobody who takes the mutex
before Signal can wake it. `pc[t]` is "run" outside of Wait.

### Clocks, TimedWait

`Clocks` is the arithmetic of `Time::GetTimeSpec`. `TimedWait` adds two clocks to
`Locks`: the deadline comes from CLOCK_MONOTONIC (`include/util.h:185`) and is compared with
CLOCK_REALTIME, which is `BootTime` ahead. The theorems at the end of `LocksProofs` show that the
arithmetic is not to blame: on its own clock a deadline is exact.

### PerfCounter, PerfCounterProofs, SumTheorems

One action per access to an atomic: `LoadMin` is the load and the test of the
loop, `SwapMin` the compare-and-swap, which fails if the word changed. Update's
steps, the buckets (`BucketOf` counts the shifts) and the printer's loads are in the
code's order: the printer's are those of a counter of type BYTES, with the two loads of the rates (`Aggregates`), and
two of each bucket, the test and the one that is printed. `done` and `before` are history, from which `Exact`
computes what each number of a printout should be: a sum over the values, each as often as
it was passed (`Weigh`), or the least or greatest of them. The atomics are sequentially
consistent, as `std::atomic` is by default. The overflow of `val_`, 64 bits
wide and fed with 32, is out of reach. What is computed from the loads is left out: the average of a `val_` and a
`count_` of different instants, and the rates, are bounded by no property.

### ThreadLife, ThreadLifeProofs

The composition of `Thread`, `ThreadCtx` and `ConsoleLogWriter`. `Main` makes the
calls a client may make, within the assumption written at
`util/thread.cc:18-21`; `test/thread-test.cc:33-71` is one such client. The fixture's SetUp and TearDown create and destroy the `Logger` (`logger_`) around it all. Each
object has a thread of its own, which goes through `ThFn`. A pool is named by its
object and by the number of the start; `live` is the set of pools allocated and not freed,
`pooled` counts the buffers in each. A message is written before the next step of the one who
writes it: `LogEnter` is an exchange of `isopen_` that succeeds, `LogRetry` one that fails, `LogWrite` the write with the reset
after it. `log[p]` is "open" or "closed" before an exchange: the value of `expected` in `Append`. A
`compare_exchange_strong` that fails writes what it found into `expected`, and the loop does not set it to true again
(`include/logger.h:200-201`). So the exchange after a failed one compares false with false, succeeds, and lets its thread
into the write while another is there: the log excludes nobody, and a flag left false stops nobody (`OneWriter`, violated).
A cancellation is pending until its thread has it enabled and reaches a
cancellation point: anywhere in ThreadMain, or the write of a message
(`cerr << data` ends in `write`). Modelled outside `src`: what pthreads does with
a cancellation. ThreadMain is the client's: it fills the pool, collects garbage, logs, returns or not.
It disables cancellation around its messages, as ThFn does around its own. `ThreadsEndInOrder` says
what the disabled sections are for: a thread, cancelled or not, ends outside of a message, of Init and of Cleanup, and
agrees with its object on the pool.

`DestroyFirst` restricts Main to call Destroy before it starts an object again.
Without it a second Start after a cancellation overwrites the only pointer to
the first pool and `NoLeak` fails (`OnlyEarlierPoolsAreLost` says that this is the only way);
nothing in the repository starts an object twice.

## 3. What the runs show

| Run | Instance | Shows |
|---|---|---|
| `in_list` | 5 elements | the pointers spell the list after any calls (`Represents`), no ASSERT fires on legal calls (`AssertsHold`) and most illegal ones are caught (`AssertsDetectMisuse`), FIFO (`ImplementsFifoList`) |
| `in_queue` | a pusher that also asks IsEmpty, a pusher, a Pop that may wake spuriously, a timed Pop; 2 elements, 2 spins | `LockDiscipline`, `OnePlace`, `NoLostWakeup`, linearizability (`ImplementsAtomicQueue`), `PopProgress`, `CallsReturn`, `TimedPopReturns` |
| `cancelled_pop` | 2 threads on a `Queue` of 1 element | **violated**: the second cancelled sleeper never ends |
| `spin_mutex` | 3 threads, `owner_` starts as 0 | the ASSERTs hold, the INVARIANT catches exactly the relocks (`OnlyRelockAborts`, `RelockIsCaught`), `ImplementsLock`, `SpinnerGetsIn` |
| `spin_mutex_garbage` | 2 threads, `owner_` as the memory had it | **violated**: a thread without the lock is aborted |
| `locks` | 2 threads, 3 guards, 1 hold without a guard and 1 call of IsOwner each | `GuardsMatchLock`, `ScopesExclude`, `OutsideOwners` |
| `rw_lock_writers` | 2 threads, 2 guards | **violated**: WriteLock locks for reading |
| `timed_wait` | 2 threads, limits of 300 and 1900 ms, the clocks an hour apart | **violated**: a wait is due at once |
| `perf_counter` | 2 threads, 3 Updates of 3 values, 3 buckets, a printer | `Extremes`, `PrintoutIsBounded`, `ExtremesOnlyWiden`, `UpdatesEnd` |
| `thread_life` | 2 objects; one with 2 starts and a buffer, one with 1 start | `NoLeak`, `NoDangling`, `LoggerServes`, `ThreadsEndInOrder`, `CancelledJoinReturns` |
| `console_log` | 2 objects | **violated**: two processes in the write at once |
| `thread_life_stat` | 2 objects | **violated**: every thread prints the statistics |

Every property of a passing run has a mutant of the code (operators named `M...`,
each placed before the definition it replaces) that breaks it.

Bounds and why they are enough. Five elements give a list with an inner element whose
neighbours are inner too, so that every case of Unlink and Pop occurs. In `InQueue` a
lost wakeup takes a sleeper, a second popper that steals, and two pushers with an element each; two spins
let TryPop fail once and succeed later. Two
threads and three guards give a guard nested in another, a third in a second thread or adopted by an AutoUnlock, and a Wait
under one or two holds. The three Updates are one that returned and two that
race, or one that races with two in a row; the values 0, 2 and 5 lie in three different
buckets, 0 and 5 are both new extremes, and `Top` 7 stands for UINT32_MAX. Three threads on `SpinMutex` are the holder, one in
each window of the two-word protocol, and one that reads in between. Two objects, one of them with
two starts, let one thread be cancelled while it or the other is logging, and a restarted
object meet what its first thread left. The counters `starts` and `pooled` are capped by
`MaxStarts` and `MaxBuffers` in the guards of Start and PoolBuffer, which also keep second starts and buffers to
the objects in `Busy`: objects share the log, `printstat` and Main, never a pool, so a second busy one adds states and no case; `spin` is
bounded by the code. `MaxBare`, `MaxAsked`, `MaxUpdates`, `Limits` and `LastSecond` bound the holds without a guard, the calls of IsOwner,
the Updates, the limits and the clock. Nothing else is unbounded. Where TLC's bound might be doubted, the
proofs below have none.

Deadlock is checked for `InList`, `InQueue`, `Locks` and `PerfCounter`. It is off for `SpinMutex`, where an
aborted process stops, and for `ThreadLife`, where everything may end up deleted,
for `CancelledPop`, where all threads may be dead, and for `TimedWait`, whose clock stops at its bound.

Fairness. `WF` of each thread's steps says that the operating system schedules
every runnable thread and fires every timer. No client is assumed to make a
call, with one exception: a holder of the `SpinMutex` unlocks it some day. `SF` of the
acquisition of `lock_` says that a thread that keeps asking for a lock
that is free again and again gets it, `SF` of `LogEnter` that a thread's exchanges of `isopen_` do not fail for ever
because the flag changes between any two of them. No line of the code ensures either; it
is what the scheduler gives with probability one. Without it `CallsReturn` is false.
`SpinnerGetsIn` is free of it. Main need not go on, except from a Join whose thread has ended. ThreadMain need not return: a Join of a
thread returns only if it was cancelled or ended by itself. `SF` of a requested cancellation
says that a ThreadMain that enables cancellation again and again meets a cancellation point at one of these times. An Update that has begun is scheduled; no Update has to
begin. In `in_queue` only the untimed Pop wakes spuriously: each such wakeup makes a timed Pop wait for its full time again
(`include/inlist.hpp:187-188`), so endless ones would keep it for ever. `TimedPopReturns` says nothing of the total time: a timed Pop that is woken for elements
which others take waits for its full time again each time, and the code bounds that nowhere.
The run has `TimeoutTakesSignal` FALSE: with swallowed signals `NoLostWakeup` and `PopProgress` are false, so they say nothing about
a platform that has them; linearizability holds there, too (`QueueIsAtomic`).

## 4. What is proved

TLAPS checks these for every value of the constants. Every invariant that a passing run checks, every
refinement and the action properties (`ExtremesOnlyWiden`, `ThreadsEndInOrder`) are stated by theorems.

* `InListProofs`: `PointersRepresentList`, `LegalCallsPassAsserts`,
  `MisuseIsCaught`, `PointersImplementFifo`. The inductive invariant is `TypeOK /\ Represents`; the history `list` makes it
  inductive, since it names for every pointer the element it has to lead to. The proof goes
  through what `Append`, `Tail` and `RemoveAt` do to the neighbours of each index.
* `InQueueProofs`: `Typing`, `LockIsDisciplined`, `ElementsStayInOnePlace`, `NoWakeupIsLost`.
  `TypeInv` adds to the types which thread has an element in hand (`HandInv`) and bounds the
  spins (`SpinInv`). `NoWakeupIsLost` assumes `~TimeoutTakesSignal`, without which it is false:
  the inductive argument counts `Signalling \cup Waking` and finds that a Push adds one to
  the queue and one to the count, a signal moves one from one set to the
  other, and a thread that leaves `Waking` takes an element or finds none.
* `InQueueAtomicity`: `QueueIsAtomic`, the refinement of `AtomicQueue`, spurious wakeups and swallowed signals
  included, and `QueueWithoutSpinning`, the same for `Queue`. It rests on `PhasesMatch`: where in its code a thread is determines its
  call, its hand, and, for a timed Pop about to give up, that it has seen the queue empty.
* `SpinMutexProofs`. `LockInv` says who may be between the swap and the write of `owner_`, and that
  `owner_` names the thread that has the lock from its write to its clearing. It holds whatever `owner_` was
  at the start, and with it `AssertsPass`, `OneThreadHasIt` (exclusion) and
  `NobodySpinsForItself`. That `owner_` names nobody else (`NobodyElse`) needs a cleared `owner_`
  (`OwnerCleared`), and so do `OnlyRelocksAbort` and the refinement `SpinMutexIsLock`: the finding
  `spin_mutex_garbage` is about whom Lock aborts and what IsOwner answers, never about exclusion.
* `LocksProofs`: `GuardsAlwaysMatchLock`, `ScopesAlwaysExclude`, `UnlocksAreLegal`, `OnlyLeaksAndNestedWaitsKeepTheMutex`.
  `TypeOK /\ GuardsMatchLock` is inductive once the owner is NULL exactly while the count is 0; the
  steps are facts about the cardinality of a set of guards that gains or loses one. The other three follow: whoever
  is inside has a positive count, so it is the owner, and who is not has it for its leaked holds and those it did not lend out. For `TimedWait`: `TimeoutsKeepTheBooks`, from an invariant of its own
  (`TimedInv`), whatever the clocks do; and `DeadlinesAreExact`, `ReachedIsLater`, `NotDueOnItsOwnClock` from the
  division of the nanoseconds with carry.
* `PerfCounterProofs`: `ExtremesHold`, `LoopsOnlyWiden`. The induction needs that a thread
  beyond one of its loops has its value inside that extreme, and that a thread at a
  swap has loaded an extreme its value improves on (`LoopInv`).
  `EveryValueHasOneBucket`: the shift loop, for any number of buckets, finds the one range that has the value;
  `CountersTyped` needs it, because it keeps Update inside `bucket_`.
  `PrintoutsAreBounded`, `QuietPrintoutsAreExact`: `SumsInv` says that `val_`, `count_` and each bucket are
  the exact sums over the calls that returned and those that are past the addition; `PrinterInv` that
  the number just read lies between its exact values before the printout and now, and that an update, which
  only adds to the sums, keeps it there.
* `SumTheorems` holds the lemmas under these. The sums are folds of the community modules, and the
  shifts a recursive function; both are unfolded by induction, which is done by hand: a set of numbers has a least
  element and a set of subsets of a finite set a minimal one (`SmallestNumber`, `SmallestSubset`), so a property
  given as a set has a least counterexample or none. `DoubleExp` gets powers of two from the number of subsets of a set.
* `ThreadLifeProofs`: `Typing`. `LifeInv` adds to the types that a thread has a message under way only with
  cancellation disabled, and that nothing is destroyed or joined out of turn.
  `PoolsNeverDangle`, `OnlyEarlierPoolsAreLost`: `ThreadPoolInv` says for each place in
  `ThFn` which of the two pointers leads to the pool; the first invariant is needed for it, as a
  thread may be cancelled only in ThreadMain, where both do. They hold for any Main.
  `EveryThreadEndsInOrder` follows from both: a thread ends from ThreadMain, with both pointers and no message, or after
  Cleanup, with neither.
  `PoolsAreNotLost` assumes `DestroyFirst`, from which `LastInv` follows: a new thread finds no pool of an earlier one.
  `LoggerOutlivesMessages`: who can write is in `ThFn` or is Main outside of setup and TearDown, and no thread is in `ThFn`
  once all objects are deleted.

Constants have only the assumptions the modules state (`NULL` is no element or thread, `Main` is no
thread, the bounds are numbers, the threads of `InQueue` and of `PerfCounter` and the guards are finitely many, the values of Updates fit
in the buckets), and the three that the theorems name: `~TimeoutTakesSignal`, `OwnerCleared`, `DestroyFirst`.

Only model-checked. The liveness properties (`PopProgress`, `CallsReturn`, `TimedPopReturns`, `SpinnerGetsIn`,
`UpdatesEnd`, `CancelledJoinReturns`), because the prover reasons about neither fairness nor
ENABLED. The six violations, which are single behaviours and need no proof.

## 5. Findings

* `include/lock.h:347`: WriteLock locks for reading (`rw_lock_writers`).
* `include/lock.h:137, 196`: timed waits mix two clocks and end at once (`timed_wait`).
* `include/inlist.hpp:156, 274`: a thread cancelled in Pop dies with `lock_` (`cancelled_pop`).
* `include/lock.h:234`: `owner_` is not initialised (`spin_mutex_garbage`).
* `include/logger.h:201`: the loop of the console log lets a second writer in (`console_log`).
* `include/thread-ctx.h:61`: the trick against repeated statistics does not work (`thread_life_stat`).

## 6. Not modelled, and why

`SetProcessorAffinity`, `ShouldYield`, `SetMaxOpenFds`, `SysConf`: one call of the operating system or nothing; with
the first goes `RRCpuId`, whose counter only it reads. `TimeCounter`: its printing does not compile, so nothing can use it.
`Rdtsc`, `System`, `Math`: expressions over a clock rate or two numbers on which no state in the models depends.
`StateMachine`, `AutoPtr`, `BoundedQ`: sequential, one field each, no component here holds one. `Adler32`: zlib.
The text and levels of messages, `.bblogrc`, the layout of printed statistics and what is computed from the numbers in them. Memory exhaustion and failures of pthread calls other than
a timeout. The non-recursive mutex. Macros, build files, gtest.

Outside the models although the code allows it: a TearDown while a detached thread still runs (the
fixture deletes all objects, and nothing waits for a detached thread); messages written with cancellation enabled, by clients or, in
a build with DEBUG_BUILD, by `GarbageCollect` (`include/thread-ctx.h:104, 125`);
a second Start without Destroy. What remains worth doing is the composition of
`ThreadLife` with more than one `Queue` per thread, and liveness proofs with a prover that does fairness.
