# TLA+ models of the concurrent substrate of the LLVM tree

The repository is the LLVM project at Subversion revision 256450 (December 2015): `clang`,
`clang-tools-extra`, `compiler-rt`, `libcxx`, `libcxxabi`, `libunwind`, `lld`, `lldb` and `llvm`.
Most of it is compilers: large sequential functions from one data structure to another. The part
where several actors share state, and where a test hardly reaches the orders that matter, is
what other code stands on: the locks, registries, clocks, maps and allocators of the sanitizer
run-times, what libc++ and libc++abi give to threads, the task executors of llvm and lld, the lock
files by which compilers that run at the same time share a module cache, and lldb's events and its
conversation with a gdb server. This project models that part. All paths below are relative to `src/`.

1. [Inventory](#1-inventory)
2. [Modules and their correspondence to the code](#2-modules-and-their-correspondence-to-the-code)
3. [Runs](#3-runs)
4. [Fairness](#4-fairness)
5. [Proofs](#5-proofs)
6. [Findings and observations](#6-findings-and-observations)
7. [What is not modelled](#7-what-is-not-modelled)
8. [Plan](#8-plan)

`PROJECT.json` lists the same components, runs, hazards and theorems in a form for tools, and
under `map` the source lines of every definition.

## 1. Inventory

### 1.1 Sanitizer run-time locks (`compiler-rt/lib/sanitizer_common`, `compiler-rt/lib/tsan/rtl`)

| component | state | operations | users |
|---|---|---|---|
| `RWMutex` (`sanitizer_mutex.h`), and the same algorithm as `Mutex` in `tsan_mutex.cc` | one word: writer bit, number of readers | `Lock`, `Unlock`, `ReadLock`, `ReadUnlock`, with spin loops | address hash map; tsan's sync objects |
| `BlockingMutex` (`sanitizer_linux.cc`) | one word: free, locked, locked with sleepers; the kernel's queue | `Lock`, `Unlock` over `futex` | thread registry, symbolizer, stop-the-world |

Hard: a reader is counted before it knows whether it is in; a thread that takes the futex mutex
erases the mark of the sleepers; a wake-up comes after the word is free. Correct means: mutual
exclusion; the word always agrees with who is inside; no sleeper is forgotten; a waiting reader
gets in.

### 1.2 ThreadSanitizer's clocks and threads (`compiler-rt/lib/tsan/rtl`)

| component | state | operations | users |
|---|---|---|---|
| vector clocks (`tsan_clock.{h,cc}`) | per thread: times, index of its own, reuse count, last acquire; per sync object: times with acquired flags, dirty elements, release-store owner | `acquire`, `release`, `ReleaseStore`, `acq_rel`, `set`, `Reset`, `Resize` | every synchronization event |
| thread registry (`sanitizer_thread_registry.{h,cc}`) | contexts with status, quarantine of dead ones, list of reusable ones, counters | create, start, finish, join, detach, find | tsan, asan, lsan, msan |
| thread interceptors (`tsan_interceptors.cc`, `tsan_rtl_thread.cc`) | handshake word between creator and new thread, clock in the context | `pthread_create`, `pthread_join`, `pthread_detach` and the hooks of `ThreadContext` | the program |

| shadow memory (`tsan_rtl.cc`, `tsan_update_shadow_word_inl.h`) | four words for eight bytes of memory, each an access: thread, time, part, kind | an access scans the words, is left out, stored or reported; `free` and `malloc` | instrumented code |
| mutexes (`tsan_rtl_mutex.cc`) | owner, recursion, write and read clock of a sync object | hooks after a lock, before an unlock, repair of a robust mutex | the interceptors |
| meta map (`tsan_sync.cc`, `tsan_dense_alloc.h`) | per eight bytes a chain of numbers of sync objects; per thread a cache of free numbers | look up or create, free, unmap and move ranges | mutexes, atomics, the heap |

Hard: the clocks are lazy - an acquire may look at three elements only, a release may write one -
and every shortcut relies on an invariant spread over several functions; tids are reused while
their old times are still stored; interceptors run between the real pthread functions and other
threads; shadow words are read and written without a lock; a hook runs some time after the real lock
or before the real unlock; sync objects are created by compare-and-swap. Correct means: the clocks are those of the naive algorithm in the header comment of
`tsan_clock.cc`; after any pthread calls they are exactly POSIX's happens-before; no context is
lost, handed out twice or handed out early; a report is a race and a race that the cell still shows is reported;
the hooks of mutexes order what the mutexes do; an address has one sync object.

### 1.3 Data structures and heap of the sanitizers (`sanitizer_common`, `asan`)

| component | state | operations |
|---|---|---|
| stack depot (`sanitizer_stackdepotbase.h`) on the persistent allocator | buckets of immutable lists, each head with a spin bit; ids per part; a bump allocator with regions from `mmap` | `Put`, `Get`, `LockAll` and `UnlockAll` around `fork` |
| lock-free stack (`sanitizer_lfstack.h`) | head with a counter of 17 or 32 bits, links | `Push`, `Pop` |
| size-class allocator (`sanitizer_allocator.h`) | region of a class with its mapped and used sizes, free list of batches, caches of threads | `Allocate`, `Deallocate`, `Refill`, `Drain` |
| address hash map (`sanitizer_addrhashmap.h`) | first cells of a bucket, an array that grows, a reader-writer lock | handles that find, create or remove |
| deadlock detector (`sanitizer_deadlock_detector*.{h,cc}`) | nodes for mutexes, epochs, the graph, what threads hold | hooks before and after lock, unlock, destruction |
| asan's heap and quarantine (`asan_allocator.cc`, `sanitizer_quarantine.h`) | state of a chunk, its shadow, batches of freed chunks | allocate, free, recycle |

Hard: fast paths without a lock that must notice what happened meanwhile (a second look under the
lock, a counter, an epoch); flushes and recycling under readers; several limits at once; fork with
other threads inside. Correct means: nothing is lost, doubled or found where it is not; what a reader
holds stays; a lock order that is reported has happened.

### 1.4 libc++ and libc++abi (`libcxx`, `libcxxabi`)

| component | state | operations |
|---|---|---|
| `std::call_once` (`src/mutex.cpp`, `include/mutex`) | a flag with three values; one mutex and one condition variable for all | call, with functions that throw and nest |
| guards of local statics (`cxa_guard.cpp`) | two bytes a guard; one mutex and one condition variable for all | acquire, release, abort, and the load that clang emits |
| `shared_mutex`, `shared_timed_mutex` (`src/shared_mutex.cpp`) | one word: entered writer and readers; two gates | lock and unlock, exclusive and shared, timed |
| `timed_mutex`, `recursive_timed_mutex` (`src/mutex.cpp`) | owner and count, mutex and condition variable | lock, try, try until a deadline, unlock |
| futures (`src/future.cpp`, `include/future`) | state flags, result, reference count | set, set at thread exit, break, get, deferred and started functions |
| `shared_ptr` (`src/memory.cpp`) | two counters | copy, drop, `lock()` |

Hard: notifications meant for one waiter that reach another, or one whose deadline passes; functions that run
outside the mutex; objects that may be destroyed by the next owner while `unlock()` still runs;
counts that reach zero while somebody looks at them. Correct means: exclusion, one function, one
result, no lost wake-up, nothing used after it is gone, calls that return.

### 1.5 Task executors and statics

`llvm::ThreadPool` (`llvm/lib/Support/ThreadPool.cpp`): a queue and a count of active threads, each
under a mutex of its own; `wait()` reads both under one of them. lld's `TaskGroup`,
`ThreadPoolExecutor`, `Latch` and `Future` (`lld/include/lld/Core/Parallel.h`): a stack of closures
and a latch for each group. Hard: unlocked reads, destruction while workers sleep or run, tasks that
wait. Correct means: a barrier lets nobody through while a task it counts is unfinished, every task
runs once, and calls return. `llvm::ManagedStatic` (`llvm/lib/Support/ManagedStatic.cpp`): statics made on first use,
destroyed in reverse order by `llvm_shutdown()`, whose destructors may make others again.

### 1.6 Lock files (`llvm/lib/Support/LockFileManager.cpp`, `clang/lib/Frontend/CompilerInstance.cpp`)

Processes agree over the file system on who builds a module: a file of one's own, a symbolic link
to it as the lock, polling, removal of the locks of dead owners. Hard: each system call is a step;
a process may be killed between any two, with or without its signal handler; whether a process is
alive is known on its own host only. Correct means: one owner; nobody waits for ever; nothing is
left behind by those who live; "released" means there is an output.

### 1.7 lldb (`lldb/source/Core`, `lldb/source/Plugins/Process/gdb-remote`)

| component | state | operations |
|---|---|---|
| events (`Broadcaster.cpp`, `Listener.cpp`) | listeners and hijackers of a broadcaster; queue and flag of a listener; the manager's map | broadcast, broadcast if unique, hijack and restore, wait, start and stop listening, destruction of either side |
| gdb remote client (`GDBRemoteCommunication*.cpp`) | the packets on the way, the number of the last echo, flags and mutexes for requests while the program runs | send and wait, synchronise after a timeout, continue, packet, signal or halt for a running program |

Hard: a flag beside the queue that the waiter resets; recursive mutexes taken in an order that depends on the
call; a protocol without sequence numbers whose answers may be late; flags that belong to no mutex, between
the thread that resumes the program and those that interrupt it. Correct means: events in order and
to everyone, no circular wait, an answer belongs to its packet, packets find the program stopped.

### 1.8 How the components interact

The interceptors call the registry under its mutex (`BlockingMutex`), and the registry's hooks move
clocks between a thread and its context; the stack depot takes memory from the persistent allocator
while it holds a bucket; the hash map's buckets use the `RWMutex`; the hooks of tsan's mutexes find their sync objects by
the meta map, move vector clocks and call the deadlock detector; clang's module loader is a client of the lock
files; the gdb client's exchanges hijack a broadcaster. `TsanThreads` includes the registry, `StackDepot`
includes the allocator, `LockFileManager` includes its client and `LldbEvents` the exchanges, so
that these interactions are part of what is checked; `TsanMutex` and `TsanShadow` use the vectors that
`TsanClock` is shown to implement. `llvm::ThreadPool` has no user in the tree but its unit test; lld's executor
runs the tasks of its sorts, writers and driver, and the trees of tasks that these callers build are the
constants of `LldTaskGroup`.

## 2. Modules and their correspondence to the code

A thread is a program counter; a step is one access to shared memory, one critical section (where
nothing outside looks into it), one system call, or one call of an external function. Definitions
named or commented as a mutant change one definition in the way a plausible mistake would; they are in no
specification and serve to show that the property they are paired with in `PROJECT.json` notices.

Abstract specifications:

| module | what it promises | implemented by |
|---|---|---|
| `ReadersWriterLock` | each thread holds nothing, a read lock or the write lock; the write lock excludes all else | `SanitizerRWMutex`, `SanitizerBlockingMutex`, `SharedMutex` |
| `VectorClock` | the four operations as pointwise maximum and copy, from the comment in `tsan_clock.cc` | `TsanClock` |
| `TaskBarrier` | a task is submitted once and run once; nobody leaves the barrier while a task it counts is unfinished | `ThreadPool`, `LldTaskGroup` |
| `Once` | one function of a flag at a time, one that returns is the last, calls return after it | `CallOnce`, `CxaGuard` |
| `AtomicStack` | push and pop in one step | `LFStack` |

Detailed specifications:

* **`SanitizerRWMutex`** - `state` is `state_`, the labels of `pc` are the places between two
  accesses to it. `LockFast`/`LockContended` are the strong compare-and-swap of `Lock()`,
  `LockSlowLoad`/`LockSlowCas`/`LockSlowCasFails` the load and the weak swap of `LockSlow()`,
  `ReadLock` is the fetch-and-add, `ReadLockSlow` the load that ends the spin.
* **`SanitizerBlockingMutex`** - the two exchanges of `Lock`, the wait with the value it expects,
  the exchange of `Unlock` and the wake-up after it; the kernel's queue is a set, and the wait may
  return for no reason.
* **`TsanClock`** - `ThreadClock` and `SyncClock` with all their fields except the block table behind
  `elem()`, which is a function. Operators named `...Thread` and `...Sync` give the two objects after
  an operation, actions are what the run-time does: a new epoch, acquire, release, release-store,
  acquire-release, reset of a sync object, start of a thread with a reused tid, join, and
  `AcquireGlobal`, which reads all threads' epochs in many steps under the registry's lock. `VectorClock`
  has the four operations and what `Start` and `Join` make of them, nothing else; each step of it concerns one
  thread and one sync variable (`Concerns`).
* **`TsanThreads`** - first `ThreadRegistry`: one action for each public operation, which holds `mtx_` throughout;
  `QuarantinePush` includes what it evicts. Then the interceptors: the
  real pthread functions are external steps, the handshake word is `param`, and `hb` is what POSIX
  orders, kept apart from the run-time's own clocks `knows` and `sync`.
* **`StackDepot`** - first the persistent allocator, with a step for every atomic access in `tryAlloc()` and
  `alloc()`, which the depot calls to get a node; then the depot: a list is the sequence of its nodes, a head with its bit is
  `list` and `locked`, and `Put`, `Get` and fork are sequences of the accesses to heads and counters. `mmap()` places a
  region anywhere but over another one, also directly before or behind it. `stale` is a ghost: a swap was won with a position that
  was read of another region.
* **`CallOnce`** - the fast path, `__call_once` between lock and unlock, functions that return, throw or
  call `call_once` with a later flag. `knows` is what a thread sees of functions' effects: the mutex
  hands it on, the relaxed load does not.
* **`SharedMutex`** - every method is one critical section; waiting at a gate, timeouts and spurious
  wake-ups are steps of their own.
* **`ThreadPool`** - one step for each critical section, and for each of the two reads of the
  predicate of `wait()`, since the queue is read without its mutex.
* **`LldTaskGroup`** - the executor's stack, the latches with the width of their counter
  (`LatchModulus`), futures, and `Main` and the tasks as actors of a tree given by constants;
  `MCSupport` has the two trees of the runs.
* **`LockFileManager`** - the shared file system is `lock` (the link), `unique` (the processes' own
  files) and `output`; every system call of the constructor, `readLockFile`, `waitForUnlock`, the
  destructor and the client is a step. `MCSupport` gives hosts to processes.

* **`TsanShadow`** - one granule of eight bytes. An access is the scan over its words, one load each, with the early
  return for an access that is known, and the store at the end, in a random word if all are taken. `hist`, `seen`,
  `carried` and `excused` are ghosts: what was accessed, what it must be compared with, and what a cell of
  few words may forget: accesses before one that is pushed out, accesses up to a reported race, and accesses the cell knows
  only by the word of a scan that such a race has ended (`HalfScanned`). The vector scan is `ContainsSameAccessFast` with `FastBits` for 32.
* **`TsanMutex`** - the real pthread call and the hook are two steps; the owner and the recursion in
  the sync object are what the hooks make of the calls; `know` is what POSIX orders.
* **`TsanMetaMap`** - chains of numbers per cell, the compare-and-swap that inserts, the second look of the loser,
  ranges that are freed, unmapped and moved, and the dense allocator with its thread caches.
* **`DeadlockDetector`** - the hooks with their fast paths (read the epoch, then edges, without the lock) and slow
  paths under it; nodes with epochs, recycling and the flush; `order` is the ghost of waits that happened. `looked` and `missed` are
  ghosts too: who has looked for a loop since the last edge was added, and the edges that closed a loop without such a look.
* **`LFStack`** - load of the head, store of the link, compare-and-swap; the owner of a popped node writes
  to it. The counter is modulo `CounterMod`; pops that would have to miss exactly that many pushes are left out.
* **`SizeClassAllocator`** - one class: caches, batches, the region that grows by mapping memory for users and for
  metadata towards each other. **`AddrHashMap`** - one bucket: search without the lock, with it, creation, removal, moving
  elements from the array to the first cells. **`AsanChunks`** - chunk state, shadow and quarantine with its two
  mutexes.
* **`CxaGuard`** - the library's three calls and the code that clang emits around them; `sees` is what a thread sees of
  initializers, as in `CallOnce`.
* **`TimedMutex`** - both timed mutexes (`Recursive`); deadlines, notifications and the destruction
  by the next owner are steps. **`SharedState`** - the state behind promise, deferred function and `async()`, with reference
  counts. **`SharedPtr`** - the two counters and `lock()`.
* **`ManagedStatic`** - the double-checked creation, the registration and the shutdown loop.
* **`LldbEvents`** - broadcaster, queue and flag with a step for each critical section; the ghost `crowded` says that two
  events were hijacked at a time. **`ListenerLocks`** - the
  same classes as mutexes: a call is the sequence of its steps, of which loops over lists are unfolded when
  they are reached. `m_broadcaster_managers` counts how often a listener names the manager, which nothing takes back.
  A listener asks for one class of events. **`GdbRemoteSync`** - packets as what they ask for, two queues, the client's program counter.
  **`GdbAsync`** - the continue thread and the requesters with the flags between them, each access to a flag a step and
  all of them in any order; timeouts expire when they like. The ghost `slips` notes when one of four things has happened that the
  flags do not prevent (section 6): a packet is sent without the sequence mutex (`"bare"`), a stop reply that the server repeats
  is taken for something else (`"again"`), a request is left behind after its timeout (`"left"`), a ^C is sent
  for a request that was served already (`"idle"`).

### Suites

Most components share no state with each other, and one run checks several of them. A module named `MC...` instantiates
them side by side with a variable `part`, chosen in `MCInit` and never changed. Only the chosen part moves; the
others stay as initialised, in one fixed way, so the state space is the sum and not the product. The fairness of each component is
stated for its own variables and only while it is chosen. Where a property's first words are `part = ...`, it says whom it is about; where
they are not, it holds of the initial state of the others trivially.

| suite | components |
|---|---|
| `MCSanitizerMutexes` | `SanitizerRWMutex`, `SanitizerBlockingMutex` |
| `MCTsan` | `TsanShadow` (accesses one at a time, two sizes; overlapping), `TsanMutex`, `TsanMetaMap` (one cell with two threads; three cells with moves) |
| `MCDeadlockDetector` | `DeadlockDetector` (three mutexes with a node each; four that are only locked; three with two nodes, with flushes) |
| `MCSanitizerHeap` | `StackDepot`, `LFStack`, `SizeClassAllocator`, `AddrHashMap`, `AsanChunks` |
| `MCSupport` | `ThreadPool`, `LldTaskGroup`, `LockFileManager`, `ManagedStatic` |
| `MCLibcxx` | `SharedMutex`, `TimedMutex` (both), `CallOnce`, `CxaGuard`, `SharedState` (three providers), `SharedPtr` |
| `MCLldb` | `LldbEvents` (three settings), `ListenerLocks` (two), `GdbRemoteSync` (three), `GdbAsync` (two) |

`TsanClock` and `TsanThreads` have runs of their own.

## 3. Runs

Nine runs pass, three find a disagreement (section 6). Numbers of distinct states are those of TLC with
the configurations as they are.

| run | instance | states | what it asks |
|---|---|---|---|
| `sanitizer_mutexes` | 4 threads | 2 268 | the word counts holders and announced readers; no sleeper is forgotten; those who wait get in; both implement `ReadersWriterLock` |
| `tsan_clock` | 3 tids (one of which may run `AcquireGlobal`), 2 sync objects, 1 dirty slot, 4 ticks in all (2 in processes that have a finalizer thread), 3 per thread, one reuse per tid | 465 315 (symmetry) | why the shortcuts are right (`LateTimesCarryAll`, `FlaggedKnowsCleanElements`), that every operation gives what the naive one gives (`OperationsConform`), and that they implement `VectorClock` |
| `tsan_threads` | main and 3 threads, 2 `pthread_t` values, quarantine of 1 | 370 369 | clocks are exactly happens-before; lookups find the thread that is meant; contexts are in place; reuse is delayed; creation returns |
| `tsan` | 3 threads; 2 words in a cell, 3 accesses with 1 free or 5 without; a mutex with 5 ticks; 2 and 1 threads, 1 and 3 cells | 2 126 663 (symmetry) | reports are races, races are reported, hooks order what the mutexes do, one sync object per address |
| `deadlock_detector` | 2 threads; 3 mutexes in use with 3 nodes or 2, or 4 with 4 | 3 539 165 (symmetry) | edges are waits that happened; cycles are reported but for those closed between a look and its edge |
| `sanitizer_heap` | 2 threads (3 for the map); 4 stacks; 2 nodes and a counter modulo 4; a region that grows twice; 3 addresses; 4 chunks | 2 360 219 | the depot is sound; the stack is atomic; chunks, handles and quarantine hold |
| `support` | 2 workers, 2 clients, 3 tasks; 2 workers, 4 tasks, 2 groups, 1 future; 3 processes on 2 hosts, 2 killed; 3 statics | 114 148 | two barriers; everybody who waits goes on; lock files are released; statics are ordered |
| `libcxx` | 4 threads, 3 readers; 3 threads elsewhere; 2 flags, 4 calls, 1 exception; 2 guards, 1 exception | 147 826 | exclusion, wake-ups, one function, one result, lifetimes, calls end |
| `lldb` | 2 threads; 2 broadcasters or 2 listeners, 2 or 3 events; 4 packets; 2 runs, 1 stop, 2 requests | 3 310 340 | events in order; two circular waits and no other; answers match; requests hold but for the four slips |
| `lld_nested_groups_deadlock` | 2 workers, 4 tasks, 3 groups | - | a violation: `sync()` may never return |
| `lock_file_owners` | 3 processes, none killed | - | a violation: two owners |
| `listener_locks_spec` | 2 threads, 1 listener, 2 broadcasters | - | a violation: calls that wait for each other |

Deadlock is checked except in `tsan`, `deadlock_detector`, `lldb`, `lld_nested_groups_deadlock` and
`listener_locks_spec`: in the first three a behaviour ends when its bounds of accesses, epochs or requests are reached, and the
last two show that the system stops.

Properties worth a note:

* `LateTimesCarryAll`: a vector that shows a time of a thread later than that thread's last acquire
  carries everything the thread knew then. This is why `release()` may write one element.
  `FlaggedKnowsCleanElements`: where a sync object's flag for a thread is up, the thread knows every
  element that is not dirty. This is why `acquire()` may look at the dirty ones only.
* `ClocksAreHappensBefore` and `OrderIsExact` are equalities: a missing edge would be a false report
  of a race, an additional one a race that is not reported.
* `EveryRaceIsReported` is for accesses that do not overlap. With overlapping accesses words get lost by design, and only
  `EveryReportIsARace` is asked.
* `ReuseIsDelayed`, `NobodyOversleeps`, `NoLostWakeup` and `NoSleeperForgotten` are about the moment
  itself, so that they notice a lost wake-up although another wake-up would hide it later.
* `EdgesHappened` compares the graph with the ghost of all waits, by mutex and not by node, so that an edge that
  a recycled number inherits is noticed.
* `ImplementsVectorClock` is a refinement, and an operation that changes nothing stutters in it. `OperationsConform` therefore
  asks in every state, of every operation that a thread may begin, that what it computes is exactly the naive
  result. With two sync objects a tid is taken over while one of them keeps the mark and the flags of the old thread.
* `CyclesAreReported` excuses the edges in `missed` and no others: they close a loop and were added after another thread had
  added one since the look. `DepotIsSound` says that nodes share no memory as long as no swap was won with the position of another
  region, and that such a swap takes two regions that touch. Both cases occur in the runs (section 6).
* `CircularWaitsAreKnown`: if all threads that are in a call are blocked, two of them are in one of the two circular waits of section 6
  (`Hierarchy`, `Destructors`). All calls take part, the destructors of both sides included.
* `EventsArrive` is stated for the moments when no sender is on its way, and accepts an event in the hijacking listener's
  queue only if two were hijacked at a time.
* `RequestsHoldButForSlips`: without a packet that was sent bare and without a repeated reply that was mistaken, every packet finds the
  program stopped; without requests left behind each also gets its own answer; without any slip an interrupted program goes on.
* The refinements are where exclusion and "returns too early" are checked.

### Bounds, and why they are enough

* Four threads at a lock let a holder, two waiters of different kinds and a newcomer meet. The
  properties that are not about liveness are proved for every number of threads: those of the two sanitizer locks, of
  all of `MCSanitizerHeap`, `MCLibcxx` and `MCSupport` (section 5).
* `TsanClock`: `kDirtyTids` is 2 in the code and 1 here, so that the slots overflow with three tids
  (with two slots, a fourth tid would be needed). `MaxTicks` bounds all epochs, `MaxReuse` how often
  a tid is taken over. Four ticks let two threads each release, acquire and release again. Two sync objects let one carry the clock
  that starts or ends a thread while the other keeps what the old thread stored. In a process with a thread that may run
  `AcquireGlobal`, `GlobalTicks` bounds the ticks instead. The theorems hold without these bounds, for any number of dirty slots.
* `TsanThreads`: threads join younger ones only, so that no two wait for each other. Four contexts and three creations let a program reuse a `pthread_t`
  while the thread that had it is still being joined or detached, and push a context out of the
  quarantine.
* `TsanShadow`: `kShadowCnt` is 4 in the code and 2 here, so that three accesses of two threads meet a full cell. The
  ranges are the granule and its lower half, which overlap without being equal. `FastBits` is 8, so that no epoch of the instance
  is out of reach. Five accesses of one range without synchronization (`Sizes.again`) are what it takes
  for a scan to end at a race, leave its word, and have later accesses taken for the same one. The theorems hold without these bounds.
* `TsanMutex`: five ticks let each of three threads lock once and one of them twice, or one die with the mutex and another
  repair it. `TsanMetaMap`: slabs, caches and the map are so small that each fills and empties.
* `DeadlockDetector`: three mutexes have cycles of two and of three. The second part has four, which is what two threads
  need to close a cycle of exclusive locks between the look and the edge: each holds one and has waited for a second, and the other two waits
  are known. There threads hold two locks at a time, mutexes are not destroyed, and four waits are made. The third part has two nodes for three mutexes, so that the
  third forces recycling and flushes; `MaxEpoch` bounds how many. Loops are longer than any cycle.
* `StackDepot`: two stacks in one bucket and three in one part, with room for two ids, so that the third
  finds none; regions of two units and blocks of one and two, so that a region fills, a block does not fit
  and memory runs out. Five units of memory have room for two regions, apart or touching. `MaxCalls` bounds the calls of both threads.
* `LFStack`: two threads and two nodes give every order of pop, pop, push, push that a stale link needs; the counter wraps at
  four. `SizeClassAllocator`: batches of two, a region of fourteen chunks' size that maps memory twice and is then
  full. `AddrHashMap`: one first cell, an array that begins with room for one, three addresses, four handles. `AsanChunks`: the quarantine of a
  thread overflows with two chunks, the common one with three.
* `ThreadPool`, `LldTaskGroup`: three and four tasks make a task queue another while a third waits and a
  worker sleeps; waits are unlimited.
* `LockFileManager`: an owner, a waiter and a newcomer; two crashes leave a lock of a dead process and
  one that dies while it takes it over. Waiters poll; a poll that changes nothing is a stutter, so the
  number of polls needs no bound.
* `ManagedStatic`: a creator may use any later static and a destructor any static; `MaxMade` lets each of three be made twice.
* `CallOnce`, `CxaGuard`: two flags give one level of nesting. `MaxThrows` has to be bounded for liveness: functions
  that always throw would keep the others from ever returning.
* `TimedMutex`: a holder, one that waits with and one without a deadline. `SharedState`: two that set and two that
  get, or three that get from a deferred function. `SharedPtr`: one that drops the last pointer, one that locks, one that drops the last weak one.
* `LldbEvents`: two broadcasters and three events, or two types, or two listeners, two events and two exchanges of each of two threads. `ListenerLocks`: two threads make all the calls, on two listeners and a
  broadcaster or on one and two; a listener registers with the manager at most twice, since the second entry of
  `m_broadcaster_managers` is the first that nothing answers to. `GdbRemoteSync`: four packets of which three may be late. `GdbAsync`: a packet, a signal and a halt, or two
  packets and two signals, of which two are asked for at any time while the program is resumed twice and stops by itself once;
  no step is assumed to be fast.

A bound on calls makes lock starvation impossible in the instance; no liveness property relies on that
except those of `CallOnce` and `CxaGuard`, which assume fairness of the mutex anyway.

Symmetry is used for threads and mutexes in runs without liveness. Liveness in `libcxx` is stated for one thread of each kind, by name:
threads are interchangeable in these components, so that the one stands for all.

## 4. Fairness

* Spin locks: a thread that spins or holds keeps running (weak fairness of `ReadLockSlow` and the two
  unlocks). Writers get no guarantee, and the code gives none.
* Futex mutex: threads keep running, a woken sleeper returns from the wait. Nothing is assumed about
  who wins.
* `ThreadPool`, `CallOnce`: steps that take a mutex have strong fairness, since others may take it in between
  again and again; pthread mutexes are taken to be free of starvation. No spurious wake-up is relied on.
  Tasks and functions end: they are steps of the thread that runs them.
* `LldTaskGroup`, `TsanThreads`, `SharedMutex`, `CxaGuard`: weak fairness of every thread that is inside a call, and of
  holders leaving.
* `TimedMutex`: a deadline passes, and a thread whose deadline has passed returns from its wait. No fairness of notifications
  is needed for `AttemptsEnd`.
* `SharedState`: a thread that has promised a result sets it, breaks the promise or ends; a started thread
  runs; whoever holds a reference uses it in the end.
* `LockFileManager`: a process that lives keeps running. The timeout of `waitForUnlock()` is fair only where
  the owner is on another host, where nothing else can end the wait; so the property
  shows that on one host nobody needs the timeout.
* `ListenerLocks`: strong fairness of every step, as above for mutexes; the violation is a circular wait, which no fairness ends.
* The other components have safety properties only.

## 5. Proofs

Seven modules hold theorems that TLAPS checks. Each extends the module of a run, so that a theorem speaks of the very
property that the run checks; theorems with `Run` in their name are about the run's own specification.

| module | theorems |
|---|---|
| `SanitizerMutexesProofs` | `RWMutex`: types, `WordIsCount`, `MutualExclusion`, `NoOvertaking`, `Refinement`; `BlockingMutex`: types, `BlockingMutualExclusion`, `NoLostWakeup`, `BlockingRefinement`; `RunForgetsNobody`, `RunImplementsLocks` |
| `TsanClockProofs` | types, `LateTimes`, `FlagsTell`, `SizesTell`, `NobodyAhead`, `NothingForgotten`, the three conformances and `OperationsAlwaysConform`, `Refinement` |
| `TsanThreadsProofs` | registry: types, `CountersAreExact`, `NoContextIsLost`, `FinishedThreadsAreJoinable`, `UniqueIdsAreUnique`, `ReuseIsSlow`; interceptors: types, `RunKeepsContexts`, `RunKnowsThreads` |
| `TsanProofs` | `ReportsAreRaces`, `RacesAreReported`, `OrderStaysExact`; `RunReportsAreRaces`, `RunRacesAreReported`, `RunOrderIsExact` |
| `LibcxxProofs` | `SharedMutex`: types, `WordIsExact`, `WakeupsReach`, `Refinement`; `GuardIsOnce`, `OnceFlagIsOnce`; `RunGuardHolds`, `RunOnceFlagHolds`, `RunTimedMutexHolds`, `RunPointerHolds`, `RunFutureHolds` |
| `HeapProofs` | `StackIsAtomic`, `ChunksAreOnce`, `HandlesAlwaysHold`, `DepotStaysSound`, `QuarantineStaysSound`; `RunStackIsAtomic`, `RunChunksOnce`, `RunHandlesHold`, `RunDepotIsSound`, `RunQuarantineHolds` |
| `SupportProofs` | `PoolImplementsBarrier`, `SleepersAreTold`; `RunPoolImplements`, `RunGroupImplements`, `RunReleasesLocks`, `RunOrdersStatics` |

Assumptions: those the modules state on their constants, which TLC evaluates in the runs (finite sets of threads where a count of
them is taken; natural numbers as limits; "nobody" is no thread; a tree of tasks maps tasks to groups and parents, and
has fewer tasks than the latch's modulus; there is a main thread and a context for it), and four that single theorems state: `WakeupsReach` is about
fewer threads than the limit of readers, `SleepersAreTold` about a pool that has a worker, some theorems of
`TsanClockProofs` about no `AcquireGlobal` (below), and `RacesAreReported` about accesses that do not overlap, with epochs
the vector scan can compare (`WideEnough`, below).

The theorems hold for every value of the constants: any threads, readers, guards, flags, tasks and trees of them, processes,
hosts, crashes, statics, nodes, chunks, addresses, stacks. In a suite the other parts stand still, and what a part's module says of `Spec` holds of the suite.

**`SanitizerRWMutex`.** The invariant is that the word equals twice the number of announced readers plus the
number of writers, together with the types and exclusion: at most one writer, and none with readers inside. The counting needs the
cardinality of a set to change by one when one thread changes its label; two lemmas say so, and every action
then moves the word and the count together. Exclusion follows because a writer enters only when the word
is zero.

**`SanitizerBlockingMutex`.** The invariant joins the types, "the word is free exactly when nobody holds the mutex,
and one thread does otherwise", and `NoSleeperForgotten`: while threads sleep, the word says so or somebody awake
is on the way to put that right. The word may say "locked" while threads sleep, so the latter needs the former
to know that the thread that erased the mark is still there.

**`SharedMutex`.** `WordCounts` ties the word to the sets of readers and of entered writers, and a writer inside
is alone. The wake-up invariant says that whoever sleeps at the first gate has an entered writer or, at the limit, a reader before
it, and whoever sleeps at the second has a reader; every way out of these states notifies.

**`CxaGuard`, `CallOnce`.** Both implement `Once`, whose runner is computed: who runs the initializer or the function of a
flag. The invariants say that it is one thread at most, exactly while the lock byte or `running` says so
(`GExclusive`, `FExclusive`), that functions nest in the order of their flags (`FNested`), and what each thread
sees: a flag that is set is known to the mutex, and who has passed through the mutex since knows it too (`GSeen`, `FSeen`). The last
part is what "returns with the effects in sight" follows from.

**`SharedPtr`.** The counters are one less than what they count, where all owners of the object, and the thread that is
destroying it, count once together in the weak counter (`PCounts`). So the decrement that finds zero is alone, and `lock()`,
which increments only what is not -1, never revives.

**`TimedMutex`.** One owner, as often as the count says; and `TWoken`: on a free mutex with sleepers somebody is awake and will look or
notify. A notification is in the same step as the release in `timed_mutex`, so nobody touches the mutex afterwards (`TAlive`).

**`SharedState`.** A reference is held exactly in certain places of the code (`SPlaced`), so the reference count reaches zero once,
in one thread (`SDeleted`); the result is there from before `ready` on (`SKept`); and a deferred function is taken by the
thread that clears `deferred` (`SRunOnce`). `OneResult` is an action property: from the invariant, no step changes a
result.

**`LockFileManager`.** For each process: it has a file of its own only while it links it or owns the lock; the link leads to an
owner or to a process that was killed; who loads has seen an output, and outputs stay.

**`ThreadPool`, `LldTaskGroup`.** Both implement `TaskBarrier`, whose state is computed from theirs: queued, running and finished tasks. A task is in one
place (`TasksOnce`; a stack without repetitions whose tasks wait), and the count is the number of what it counts
(`CountIsExact`: busy workers; `LatchesCount`: tasks spawned and not finished, from the increment, which comes before the task is on the
stack, to the decrement). The two reads of `ThreadPool::wait()` are not one step, so what the first
saw must stay true (`EmptyStays`). The latch's counter wraps; with fewer tasks than its modulus it never does. For `SleepersAreTold`
the invariant adds who owes a notification after he gave the mutex back.

**`ManagedStatic`.** Calls nest in each thread (`CallsNest`) and only the holder of the recursive mutex makes or destroys. The list is
the set of statics with an object but the one being destroyed (`ListIsPtr`), and what an object's creator used is
further down the list (`UsedAreOlder`), or, while the creator runs, listed or about to be (`UsedAreComing`). The last is why the
list may be emptied from its head.

**`LFStack`.** It implements `AtomicStack`: the swap of the head is the step. What makes the swap sound although the link was
read from a node that others may have popped, written to and pushed: `missed` counts the pushes since the head
was read, and the head's counter has moved by exactly that many modulo `CounterMod`; who has missed none and still finds its node on
top has the link of that node. Pops that miss `CounterMod` pushes or more are left out of the model, and so of the theorem.

**`SizeClassAllocator`.** Between two steps a chunk below `allocated_user` is in exactly one of: the user's hands, one place of
one cache, one place of a batch that a thread holds, one place of a batch of the list. Sequences are split and joined by the
steps, so the lemmas say which values a half of a sequence has. Metadata and memory grow by the mutex only.

**`AddrHashMap`.** Whoever writes to a cell or to the array has the bucket's write lock, so what a thread holding the read lock has
seen stays. A search without the lock can find an element of the first cells only, and its handle keeps the element from being removed
(`UserExcludes`, the callers' duty, which the run assumes too). An element that is moved stays in the array, unreadable to others under
the write lock, until its value and then its address are in the free cell (`HMoved`), so no search meets it half done.

**`StackDepot`.** Three parts. Locks: the set of locked buckets is what threads hold, also in the child of a fork, whose only
thread is the one that took all. Interning: a bucket's list is what its locker saw when it searched, an id is in one
node or with one thread on its way to publish it, and an id belongs to the part of its bucket. Memory: every block, published or returned by the allocator
and not yet published, lies in a region and not between the position and the end of the current one, and blocks do not meet. That needs
`DSwap`: if the position a thread has read is the position when it swaps, what it asks for fits, although the region may have changed
meanwhile. As long as no region ends where another starts this follows from `DCmp`: a position names its region. Where regions
touch, a position can name two, and a swap that is won with the wrong one sets `stale`. So the invariant has two halves: `DFresh`, all of the above while
not `stale`, and `DStrict`, not `stale` unless regions touch. No assumption is made on where `mmap()` places a region.

**`AsanChunks`.** A chunk is in the allocator, with the user, or at one place: in a cache, in the global quarantine, in the
batches that a thread recycles, in a thread's hand (`QPlaced`, from which `ChunksOnce` follows). Every step leaves a chunk where it is, moves it, or lets it
enter or leave; four lemmas say that each keeps the invariant, and the lemmas about quarantines say which chunks a step moves.
`SizeIsRight` needs that the bytes of two quarantines behind each other add up, where the set of occupied slots
of the second is shifted by a bijection. `OldestFirst` is an action property: what is added is added behind, and what leaves was in front.

**`TsanClock`.** The inductive invariant has four parts. Types and effective sizes. `NeverAhead`. For each
thread, `LateTimesCarryAll` over all vectors, of threads and of sync objects. For each sync object,
`FlaggedKnowsCleanElements`. It is proved action by action with one lemma for each of the operators `...Sync` and
`...Thread`. `NeverAhead` is needed because a vector from the future would let the comparison with the last
acquire succeed by accident; the reuse count because the old owner's release-store mark would. From the
invariant follow the conformance lemmas (on each path, what an operation computes is the pointwise
maximum, or the copy), and from them the refinement. `AcquireGlobal` sets elements one at a time from threads
that go on in between, which the naive algorithm has no counterpart for. `LateTimes`, `ReleaseConformance` and
`Refinement` carry the condition that nobody runs it in their statement and are proved for every set of finalizer
threads; the other theorems assume that the set is empty. With finalizer threads
`FlaggedKnowsCleanElements` and what `OperationsConform` says of acquire and release-store are checked by the run only.

**`TsanThreads`.** The registry: `EveryContextInPlace` is inductive with the types: a context that changes its status
changes its list in the same step. The counters use the same cardinality lemmas as above. Unique ids need
that they are below the number of threads ever created. For `ReuseIsDelayed`: the quarantine has no repetitions, so its length is
the number of dead contexts, and only one that is full pushes its oldest out.

The interceptors: first, every interceptor's step is a step of the registry (`StepsOfRegistry`): the tid it passes is that of a
context in the state the operation wants, so no CHECK fails and the registry's invariant carries over.
The invariant for that says whose a context is (`Contexts`): the thread's own from `ThreadCreate()` until it has ended
and the runtime is done with its join or detach, in either order (`Holds`); its status is where the thread is, it is marked detached
exactly when the claim is settled, and nobody else has it. `RightContext` follows: the claim itself keeps the
context. That the lookup finds it needs `Users` (a user id is its holder's, until it is claimed) and `Handles` (a
`pthread_t` that is taken is taken once), because the value may have been another's. The handshake gives `Makers` (a new
thread has one creator, who waits) and `TidsPassed`. For the clocks: what a thread left in its context is its present
(`Syncs`), and a context without a publisher has no clock in it, so that the next thread to get it does not inherit one.

**`TsanShadow`.** No false alarm. A word describes an access that was made (`SWords`), and clocks cover what is known: who has seen an
access has its epoch in his clock (`SHistory`). The other direction is the point of the proof: a word that the clock
does not cover is of an access this thread has not seen, and the access that finds it is known to nobody, since it is still
in progress and the last of its thread (`SAlone`). A freed word says nothing of clocks. It lies in the first cell, from the free on until the first store of
the next `malloc()` (`SFreed`), and no access to live memory follows the free in that time, so who finds the word came before the free or touches
dead memory (`Gone`). This holds for accesses that overlap and for every number of words.

No race is missed, when accesses do not overlap. What is asked is about accesses, what the code has is words, and most accesses have no
word: it was overwritten, or never stored because the same access was there. So the invariant says what words make up for. Each access that is
not excused has a word of the same range in the cell that is no weaker, and whoever has seen the word's access has seen that
one too (`CCovered`, `StandsFor`); and an access was compared with every word that is there now and was there when it scanned
(`CCompared`). A word may replace an ordered one because order is transitive (`CClosed`). An access may go without a word
of its own because the word it is known by is later than the thread's last release, so nobody else has seen either
(`CExact`, lemma `CKnown`), and that word was compared with all others, before or after (`CKnows`). That last
step is false for the word of an access whose scan ended at a race: the code stores it where the first free or
weaker word was and returns at the race without a look at the rest, and later accesses that are the same are not
scanned at all (`tsan_rtl.cc:623-625`, 781-788). A race of such an access with a word behind goes unreported, though the access itself was reported
for another. `Same` therefore excuses an access that is known by such a word only; without that, five accesses refute the property.
In freed memory the freed word is alone and first in the cell, so the first look of any access reports it (`CDead`). `CCount` bounds
the epochs by what the instance allows; the theorem asks that the vector scan sees all of these as they are (`WideEnough`: with the code's 32
bits, fewer than 2^31 ticks of a thread).

**`TsanMutex`.** The clocks of the `SyncVar` are what the real unlocks have released, ahead of it by the threads that have run the hook of an
unlock and not yet the unlock: one writer, or some of the readers (`MClocks`). A thread between a real lock and its hook lacks
exactly what the join in the hook will bring (`MKnowsOf`), and one that holds the lock knows all that was released, so a new release needs
no maximum. Owner and depth lag behind the real ones by the same threads (`MOwner`), so no hook sees a misuse.

Beyond this prover and left to TLC: liveness under fairness and everything with `ENABLED`; induction over data,
that is, what a recursive definition computes for every input (no module needs it); modules with `RECURSIVE`
operators (there is none). Only checked on the instances: the liveness
properties (`WaitersGetIn`, `CallsEnd`, `WaitersReturn`, `CreationReturns`), `OneSyncPerAddress` of the suite `tsan`, and the suites `deadlock_detector` and `lldb`.

## 6. Findings and observations

Three runs contradict a text of the repository:

* **Nested task groups** (`lld_nested_groups_deadlock`). A task that syncs a group of its own blocks its
  worker and the executor starts none in its place. With every worker in that position the inner tasks stay
  on the stack and nobody returns. `parallel_for_each` is called from tasks of a `parallel_for_each` in the
  ELF writer. The comment on `TaskGroup` (`lld/include/lld/Core/Parallel.h:216-217`) promises that tasks are
  waited for.
* **Two owners of a lock file** (`lock_file_owners`). A process that finds no lock removes the file of that name
  all the same; between the two calls another process may have linked its own. Both then own the lock, where
  `llvm/include/llvm/Support/LockFileManager.h:22-24` says "using the atomicity of the file system to ensure
  that only a single process can create that ".lock" file". The output appears by renaming, so the
  consequence is double work; `support` shows that the other promises hold all the same.
* **Unregistering a listener** (`listener_locks_spec`). `StopListeningForEventSpec()` takes the listener's mutex and then the manager's,
  where `lldb/source/Core/Listener.cpp:541-542` asks for the other order, in which a broadcaster that checks in takes
  them. Each holds what the other waits for.

### Other disagreements that the modules show

They have no run of their own here. To see one, check the module by itself with the constants named; the passing runs
avoid them, as said.

| module and property | set | what the code does, and which text says otherwise |
|---|---|---|
| `TsanShadow`, `FastAgreesWithSlow` | `FastBits = 3`, epochs above 4 (`MaxSyncs` large enough) | the vector scan compares 32 of 42 bits of an epoch, as signed numbers (`tsan_rtl.cc:710`); the comment at 670 calls it "an optimized version of ContainsSameAccessSlow". `MCTsan` has few synchronizations |
| `TsanMetaMap`, `EndIsProbed` | a large range (`SmallPages = 1`, `NumCells = 3`) | the loop that should free from the end of a range looks at its first page again (`tsan_sync.cc:158`; 118-120 "we do the same starting from end as well") |
| `DeadlockDetector`, `CyclesAreReported` with `missed` left empty | the parts `"cycle"` and `"flush"` of `MCDeadlockDetector` | two threads that look for a path before either adds its edge complete a cycle unseen: four exclusive locks (m2 to m3 and m4 to m1 are known, one thread adds m1 to m2, the other m3 to m4), or two read locks (`sanitizer_deadlock_detector1.cc:163`; `sanitizer_deadlock_detector.h:203` "Returns true if there is a cycle in the graph after this lock event") |
| `DeadlockDetector`, `LoopFits` | `PathSize = 3`, `MaxLoopSize = 2` | the path that is searched for may have ten nodes, the report eight entries (`sanitizer_deadlock_detector1.cc:122-129`, `sanitizer_deadlock_detector_interface.h:58-59`) |
| `AddrHashMap`, `Exclusive` | `UserExcludes = FALSE` | a search without the lock finds an element that a removing handle holds (`sanitizer_addrhashmap.h:176`; 39-40 "the current thread has exclusive access to the data") |
| `CxaGuard`, `LoadersSeeTheObject` | any | the emitted code loads the guard, which the library sets with plain stores: a thread that makes no call need not see the object (`cxa_guard.cpp:231`; `ItaniumCXXABI.cpp:2005-2007`) |
| `SharedState`, `AsyncReturns` | `Provider = "async"`, `MayFail = TRUE` | if the thread of `async()` cannot be started, its state waits for ever (`include/future:2288`) |
| `LldbEvents`, `BroadcastersAlive` | `MayStop = TRUE` | a listener that has stopped listening keeps queued events of a broadcaster that is destroyed (`Listener.cpp:142`; 148-149 "remove all knowledge of this broadcaster") |
| `LldbEvents`, `EventsArrive` without the queue of the hijacking listener | `Exchanges = 1`, `MaxEvents = 2` | of several notifications during an exchange one is broadcast again (`GDBRemoteCommunicationClient.cpp:885`; 783-784 "rebroadcast any events when we are done") |
| `ListenerLocks`, `CallsReturn` | `Calls` with both destructors | each takes its own mutex, then the other's (`Listener.cpp:62`, `Broadcaster.cpp:61`). `~Listener()` has the order of `StopListeningForEventSpec()` too (`Listener.cpp:43-48`), against the comment at 541-542 |
| `GdbRemoteSync`, `AnswersMatch` | `SendAcks = TRUE` | a late acknowledgement is not synchronised (`GDBRemoteCommunication.cpp:314`; 458-460 "If we can't get back on track, we must disconnect"). The suite has one acknowledged packet, the one that turns acknowledgements off |
| `GdbRemoteSync`, `AnswersMatch` | `SupportsEcho = FALSE`, `AsksThread = TRUE` | a `qC` of the user passes for the one of the synchronisation (479; 446-448 "unique enough from other packet responses") |
| `GdbRemoteSync`, `AnswersMatch` | `ReadThread = TRUE` | with a queue of packets there is no synchronisation (346) |
| `GdbAsync`, `AnswersMatch` without `"bare"` | two packets, or one | a packet is sent without the sequence mutex when the program stops while its thread waits for another (`GDBRemoteCommunicationClient.cpp:858`, "since we got the lock") |
| `GdbAsync`, `FindsItStopped` without `"bare"` | one packet | a requester that has waited for the stop and tests `m_interrupt_sent` late finds it reset by the continue thread (1072) and sends to a running program (808; 1359-1360 "we need to interrupt the running process (gdb remote protocol requires this)") |
| `GdbAsync`, `AnswersMatch` without `"again"` | a packet and a halt | a repeated stop reply is taken for the answer (1136; 1133-1135 "cause a lot of trouble for us!") |
| `GdbAsync`, `AnswersMatch` without `"again"` | one packet | the same when the reply takes longer than 0.1 s (1144; 1141-1142 "to make sure it doesn't get in the way") |
| `GdbAsync`, `AnswersMatch` without `"left"` | two packets | a request whose thread has given up is served for the next, which gets the wrong answer (818-831, 864) |
| `GdbAsync`, `GoesOn` with slips | a packet or a signal | a ^C that is sent for what was served at another stop stops the program for nobody, and the run ends (1204-1226) |

In `GdbAsync` and `LldbEvents` the last words of the first column name the excuse that the property makes: the passing run contains these behaviours, and
without the excuse it finds them. The same holds of `CyclesAreReported`.

Observations that contradict no text and have no run:

* A waiter of `LockFileManager` watches the owner it has read, also when another process has taken the lock
  meanwhile; it starts over when the recorded owner is gone.
* At the limit of 2^31 - 1 readers `shared_mutex::unlock_shared()` wakes one of the readers that sleep because of
  the limit, and a second may stay asleep. `NoLostWakeup` leaves that state out.
* `call_once`'s fast path is a relaxed load: such a call is not ordered after the function's effects by the
  code. `SlowCallsSynchronize` covers the calls that reach `__call_once`.
* `n_uniq_ids` of the stack depot is incremented under different bucket locks; increments may be lost.
  Only an initial capacity is computed from it.
* `PersistentAllocator` compares the position without its region. If `mmap()` places a region next to another, as Linux does with the
  one below, the same number can be the end of one and a position of the other (ABA): a thread that stands still between the load and the
  swap while two regions are used up wins the swap with what it knew of the old one, and two nodes share memory. The run has such
  behaviours; `DepotIsSound` and the theorem excuse what follows them (`stale`) and nothing else, and say that it takes touching regions.
* `UnregisterListenerForEvents()` erases the listener from `m_listeners` although it may have asked for another class of events
  (`Broadcaster.cpp:407`); `RemoveListener()` then returns early (466). `ListenerLocks` has one class for each listener, so this is read in the code, not modelled.
* After `AcquireGlobal` the conformance of release can fail, for finalizer threads of Java programs.
* lld's executor with a thread count of 0 starts its latch at 0 and still decrements it.
* `llvm::ThreadPool` with `hardware_concurrency()` of 0 has no thread and `wait()` never returns; a task that
  waits for its own pool waits for itself.
* `recursive_timed_mutex::unlock()` notifies after it has let the mutex go, so the next owner may not destroy it at once;
  `timed_mutex` notifies before, and `UsedAlive` holds of it.
* `LFStack`'s counter wraps: a pop that misses exactly 2^17 pushes on a 64-bit machine would take a stale link. The model
  leaves such pops out.

## 7. What is not modelled

Components with status `not_modelled` in `PROJECT.json` say why, one by one. In short: compilers, linkers,
assemblers, debug information and object files are sequential algorithms over large data, whose specification
is a language standard or a file format; unwinding, symbolizing and stopping the world are about the operating system;
the rest of the sanitizers, of libc++ and of lldb is sequential, or a flag under one lock, or an interface to the system. The components marked `partly` leave
out: the debug-only deadlock detector of tsan's internal mutex, the rest of `sanitizer_linux.cc` (system calls),
names and OS ids in the registry, fork and thread-leak reports in `tsan_rtl_thread.cc`, the partitioning in
lld's parallel algorithms, hash collisions and use counts in the stack depot, accesses that span granules, the trace and the
printing of reports in tsan, recursive read locks in the deadlock detector, classes whose batches come from another class and the
32-bit allocator, headers and redzones of asan's chunks, packaged tasks, event masks in lldb, what gdb packets say. Memory is sequentially
consistent in all modules except for what `CallOnce` and `CxaGuard` say of their loads; orderings weaker than that are not
part of what is checked.

## 8. Plan

Modelled, in the order of importance: (1) sanitizer locks, (2) clocks, (3) registry and interceptors, (4) shadow memory, mutexes and meta map of tsan,
(5) pools and groups, (6) lock files, (7) libc++ and libc++abi, (8) depot, stack, allocator, map, quarantine, (9) deadlock detector, (10) lldb.

Left for models: the 32-bit size-class allocator and batches from another class; `AcquireGlobal` under the deadlock
detector's flush; unaligned accesses in `TsanShadow`; lld's symbol resolution as an order-independent merge.

Next proofs: lldb (`InStep` and `AnswersMatch` of `GdbRemoteSync` for any number of packets, `CircularWaitsAreKnown`, `EventsInOrder`); `OneSyncPerAddress` of the tsan suite, whose chains the module
computes by a recursion along links; the deadlock detector's edges, whose
reachability is a transitive closure and needs an induction over paths that these provers cannot do. Each suite gets a proof module of its own.
