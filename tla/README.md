# AxleUtil in TLA+

AxleUtil is a C++ utility library for Windows: threads and locks, containers,
memory allocators, hash tables, files, printing and panics, and the test
harness (AxleTest) that the library and its users run their tests with. The
modules beside this file model the parts of it in which the order of events
matters; paths below are relative to `src/`.

- [The system](#the-system): components, state, operations, interactions
- [The modules](#the-modules): what models what, and how it corresponds
- [The runs](#the-runs): what TLC checks, the bounds, the fairness
- [Disagreements](#disagreements): where the code does not do what it says
- [The proofs](#the-proofs): what TLAPS proves, from what, and how
- [Limits](#limits): what is left out, and why
- [Plan](#plan): what comes next

Run a model with `tlc -config <run>.cfg <module>`, the proofs of a module with
`tlapm <module>.tla`. `PROJECT.json` lists the runs, the source lines each
definition stands for, the hazards found in the code, and for every property
of a passing run a *mutant*: a definition, marked as such beside the one it
stands in for, that breaks the code the way a plausible bug would and
makes TLC find the property violated.

## The system

| Component | State | Operations | Who uses it |
|---|---|---|---|
| `Mutex` (threading.h, threading.cpp) | one 32-bit word: 0, or the owner's thread id | `acquire`, `acquire_if_free`, `wait_until_free`, `release`, `is_free` | everything below that is shared |
| `WriteMutex` | a `Mutex` for writers, a count of readers | `acquire_read`, `release_read`, `acquire_write`, `release_write` | users of the library |
| `Signal`, `AtomicPtr`, `AtomicLock` | a byte; a `Mutex` and a pointer | `set`/`unset`/`test`; `set`, `get`, `get_load`, `get_if_free` | users of the library |
| Threads | a handle and an info block per thread, a counter of ids | `start_thread`, `wait_for_thread_end` | users; the ids are what `Mutex` tells threads apart by |
| `AtomicQueue` (utility.h) | ring buffer: slots, front, size, capacity; a `Mutex` | `push_back`, `extend`, `try_pop_front` | users, from several threads |
| Containers (utility.h) | `Array`, `BucketArray`, `Queue`, `OwnedArr`, `ArrayMax` | the usual | everything |
| `ArenaAllocator` (memory.h, memory.cpp) | chain of blocks, free list threaded through them | `alloc_no_construct`, `free_no_destruct` | users |
| Pools (memory.h) | `MemoryPool`, `GrowingMemoryPool`, `FreelistBlockAllocator`, `DenseBlockAllocator` | `allocate`, `free` | strings, users |
| `ALLOC_COUNTER` | a table of live allocations | `insert`, `remove` | the allocators in debug builds; the test client reports what is left as a leak |
| Hash set and table (hash.h) | slots with EMPTY and TOMBSTONE, `used`, capacity | `insert`, `remove`, `take`, `get_or_create`, `..._multiple` | interned strings, users |
| Interned strings (strings.h) | a hash table of string records, a pool | `intern`, `find` | users |
| Buffered files (files.h, files_base.h) | a 1024-byte window, its position and dirty state over an OS file | `read`, `write`, `seek`, `flush` | users |
| Paths, directories | none; an OS handle | normalisation, iteration | users |
| Bits (bits.h) | bit sets and matrices | `set`, `clear`, `test_all`, `intersects` | users |
| IO (io.h) | one static `Mutex` | `lock`, `unlock`, the prints | everything that prints; the panic callback |
| Panic (panic.h, utility.cpp) | a flag, a callback | `panic`, `set_panic_callback` | every `ASSERT` |
| Test server (AxleTest/server) | the list of tests, the verdicts, the pipe and process of the current test | `server_main` | the user who runs the tests |
| Test client (AxleTest/client) | the errors of the test it runs | `client_main`, the panic callback | started by the server |
| IPC format (AxleTest/ipc.h) | none | (de)serialization of messages | server and client |
| Serialization, formatting, math, options, arguments | none | pure conversions | everything |
| Handles, telemetry, build | an OS handle; nothing; nothing | | |

**How they interact.** Nearly everything is a library called in the caller's
thread. State is shared between threads in four places: `Mutex` (and what is
made of it: `WriteMutex`, `AtomicPtr`, `AtomicQueue`, the lock of the
streams), the counter of thread ids, the flag of `Panic` and the allocation
counter. Two processes interact in one place: the test server and the client it
starts for each request exchange messages over a named pipe, and either may
fail or hang at any point. A failing `ASSERT` is a call of `Panic`, which calls
back into printing (and in a client, into the pipe) and ends the process.

**What is hard about it**, and what each part must guarantee:

- *Mutex.* Interleavings of compare-exchanges; a wait that must neither miss a
  release nor sleep through it. Correct: at most one owner, ownership passes
  only through "free", a release finds its own id, no wait outlives a release.
- *WriteMutex.* Each side looks at the other's word after changing its own, and
  a reader that meets a writer takes its count back. Correct: no reader beside
  a writer, an exact count, no starvation of a writer that has the mutex.
- *AtomicQueue.* A ring buffer that wraps and grows, half changed while an
  operation runs. Correct: first in, first out, nothing lost or read twice,
  across wrap-around and growth.
- *The test run.* Crashes, hangs and timeouts of one process at any transfer of
  a conversation whose messages have several parts. Correct: a verdict never
  contradicts what the test did, each test has one, one test cannot spoil
  another, no process is left behind, the run ends.
- *ArenaAllocator.* Splits and merges on a singly linked free list in an order
  the caller chooses. Correct: nothing is handed out twice, nothing is lost,
  neighbours are combined, the list stays a list.
- *Hash tables.* Probing past tombstones, growth in the middle of an insert,
  counts that leave tombstones out. Correct: they are a set and a map.
- *Buffered files.* Window, dirty state and file position in any order of
  reads, writes and seeks. Correct: a file reads back as written.
- *Panic and IO.* Two threads panic together, or one panics while it or another
  holds the lock of the streams. Correct: the process ends, and not before a
  message was written in full; no thread calls the callback twice. Two threads that look
  at the flag before either sets it *both* call it, and one may end the process
  under the message of the other: the code allows it, the model shows it, and no property says otherwise.
- *Pools, bits, sorting, conversions.* Boundaries. Correct: against a reference.

The full list, each hazard at its line, is in `PROJECT.json`.

## The modules

| Component | Specification | Abstract specification | Instance for TLC | Proofs |
|---|---|---|---|---|
| Mutex | `Mutex` | `Lock` | `MCMutex` | `MutexProofs` |
| WriteMutex | `WriteMutex` | `ReadWriteLock` | `MCWriteMutex` | `WriteMutexProofs` |
| AtomicQueue | `AtomicQueue` | `Fifo` | `MCAtomicQueue` | `AtomicQueueProofs` |
| Test client, server, IPC | `TestClient`, `TestServer`, composed by `TestRun` | | `MCTestRun` | `TestRunProofs` |
| ArenaAllocator | `Arena` | | `Arena` itself | `ArenaProofs` |
| Array, ArrayMax, OwnedArr | `Arrays`, with `Pow2` | a sequence | `MCContainers` | `ContainerProofs` |
| BucketArray | `Buckets` | a sequence | `MCContainers` | `ContainerProofs` |
| Queue | `Deque` | a sequence | `MCContainers` | `ContainerProofs` |
| sort_view | `QuickSort` | a bag and an order | `MCContainers` | `ContainerProofs` |
| Hash set, hash table | `HashSet`, `HashTable`, both over `Probing` | a set, a function | `MCContainers` | `ContainerProofs` |
| Interned strings | `Interner` | a function from texts to addresses | `MCContainers` | `ContainerProofs` |
| Allocation functions, ALLOC_COUNTER | `Heap` | the live allocations | `MCServices` | `ServiceProofs` |
| Pools | `BumpPool`, `GrowingPool`, `Freelist`, `DenseBlocks` with `Pow2` | the pieces given out | `MCServices` | `ServiceProofs` |
| Buffered files | `FileBuffer` | the bytes the caller wrote | `MCServices` | `ServiceProofs` |
| Paths | `Paths` | where a path leads | `MCServices` | `ServiceProofs` |
| Serialization | `Serial` | the items written | `MCServices` | `ServiceProofs` |
| Bit sets and matrices | `BitSets` | a set of numbers | `MCServices` | `ServiceProofs` |
| Threads, IO lock, Panic | `Panic` | | `MCServices` | `ServiceProofs` |

`DataLemmas` has the lemmas about numbers, sets and sequences that the proofs
about the containers, the services and the arena share.

### Mutex

One action is one interlocked operation, or one turn of the back-off between
two of them. `held` is the lock word; `pc`, `want`, `res`, `spin` and `yield`
are the place and the local variables of `wait_until_zero_or_value` and
`wait_until_zero`, which are one loop with another value to install (the
caller's id, or 0). `depth` is a history variable: how many acquisitions of a
thread have returned and not been released. It is what the properties mean by
*inside*.

`acquire` is `Acquire`, then `CompareExchangeHit` or `CompareExchangeMiss`,
and after a miss one of `Spin`, `Yield`, `Wait`. `acquire_if_free` is one
compare-exchange (`AcquireIfFree`; a try that fails changes nothing and is no
step). `release` is two: `Release` and `Wake`.

`WaitOnAddress` and `WakeByAddressAll` are modelled from their use: the former
compares and parks in one step and may return unwoken (`ReturnUnwoken`). What the
code passes it is the address of the *parameter* `held`, so the model has
`WaitAddress == "local"` and compares the low half of the pointer (`pointer`)
where one expects the lock word. `pointer` is chosen once, in `Init`: a mutex
does not move.

### WriteMutex

One action is one interlocked operation. The actors are *sections*, one per stretch from
an acquire to its release; `ThreadOf` distributes them over threads, and a
thread is in one call at a time. The inner `Mutex` is represented by its owner
(`held`), which is what `MutexProofs` shows it to be. A reader counts itself
(`IncrementReaders`), looks at the mutex (`EnterRead`, `SeeWriter`), and if it
sees a writer takes its count back (`Retreat`) and waits (`Retry`). A
writer takes the mutex (`TakeWrite`) and waits for the count (`DrainReaders`).
The turns of a loop that find nothing changed are stuttering steps. `NestedReads` says
whether a thread may open a section to read inside another.

### AtomicQueue

`holder`, `start`, `size`, `capacity` are the members. Between acquisition and
release every assignment of `push_back` and `try_pop_front` is a step of its
own (`MakeRoom`, `Grow`, `Store`; `Shrink`, `Take`, `Advance`), so that the
model would show a thread that got in beside another. `extend` copies in one
step. A slot that was never written or has been moved from holds `NoValue`,
which no pop may return. The refinement mapping `Contents` is the sequence of
live slots from the front, and counts a push from its `Store` and a pop from
its `Take`.

### TestClient, TestServer, TestRun

The server's `current` is the request it is at (0 is the query for the list
of tests, i is test i), `server` is where `server_main` is, `results` its
verdicts. The client's variables describe the process last started; `outcome` is
a history variable that says what each test really did. The pipe has no buffers, so
a `WriteFile` and the `ReadFile` it meets are one step of both sides
(`TransferRequest`, `TransferAnswer`). Messages are reduced to how many
transfers they take, which depends on what they carry (`RequestFields`,
`ListFields`, `ReportFields`), and to the type of a report. Which tests have a
context, and whether the server knows it, is the constant `Context`: it decides
the length of a request on both sides and whether a test is started at all.

A client may die wherever it is (`ClientEnd`), and it hangs by taking no step:
no fairness is assumed of it. `ReadBreaks` and `WriteBreaks` are what the
server sees of either, when the other end is gone or the time limit is up.
Both are enabled at every transfer, since a limit may be up at any of them.
`ConnectBreaks` is a `ConnectNamedPipe` that fails: the process runs already,
`terminate_child` ends it on the spot, and the request is judged as one whose process could not be
created (`NoProcess`). `ServerStartFails` is the failure before there is a process.

### Arena

The memory is an array of words. `available` and `next` are the two words of
a free node, the first of them also the header of an allocation; pointers are
word addresses, and blocks lie `BlockSize + 1` apart, so that two blocks are
never adjacent. The walks of `alloc_no_construct` (`SearchNext`, `NewBlock`, `Split`,
`TakeWhole`) and `add_to_free_list` (`MergeAfter`, `MergeBefore`, `MergeNext`,
`Link`) go one node a step, and every branch of them is an action. The
assertions of both lead to `pc = "panicked"`.

`Careful` is a precondition on the caller under which the two
faults below are not met (`MayAlloc`, `MayFree`); with `Careful = FALSE` the
caller does as it likes.

### The sequential modules

A component that one thread uses is a set of variables with a prefix of its own
(`set...`, `tab...`, `deque...`), an operator per function, an action per
operation, and beside the state of the code the mathematical value that the
caller believes it has, changed by the same actions (`setMembers`, `tabMap`,
`dequeItems`, `arrItems`, `bitTrue`, `file.ideal`). The property says that the
two agree after any sequence of operations. `MCContainers` and `MCServices` put the components side by
side: `subject`, chosen in the initial state, is the one that moves, so that
one run explores each by itself and their states add up instead of multiplying.

- `Probing` has what the set and the table share: the search over an array with
  EMPTY and TOMBSTONE, and the growth. A growth moves the slots one after another:
  a recursive function has the array after each of them. `HashTable` adds the values and the iterator, whose steps come between
  other operations; `Interner` has the third, hand-written table, which has no
  tombstones.
- `QuickSort` goes a comparison or an exchange a step, with the stack of ranges
  still to be sorted as a variable; every input of the bound is an initial state.
- `Heap` has an entry of the counter for every address `malloc` has given out.
  `realloc` may return the address it was given or another.
- `GrowingPool` puts objects *and* the list elements by which it destructs
  them in its blocks, as the code does; `Freelist` tells objects from free
  elements by `next`, as `free_all` does, and records in `freeStray` what the
  elements held that `free_all` destructed although they had no object.
- `FileBuffer` is one record: the system's file and its pointer, the fields of
  `FileData`, and what the caller wrote. Assertions set `failed` and stop the file.
- `Serial` counts bytes with `Base` values; widths stay 1, 2, 4 and 8 bytes,
  and the casts between signed and unsigned are remainders.
- `Panic` is the one of them with threads: the lock of the streams is a Mutex
  by what `Mutex` promises, that is *with* its holder let in a second time and
  freed by the first release. The flag `panicking` is read and set in two steps;
  `panicCalled` is a history variable, the threads that called the callback. A
  panic while panicking (`ReportAgain`) writes without the lock.

## The runs

| Run | Expected | Distinct states | What it shows |
|---|---|---|---|
| `mutex` | pass | 17 476 | three threads acquire, try, wait for and release a mutex: it implements `Lock`, one owner at a time, each release finds its own id, and no wait outlives a release |
| `mutex_wait` | violation | | the wait of the back-off does not wait |
| `write_mutex` | pass | 1 028 | three readers and two writers on four threads: `ReadWriteLock` is implemented, the count is exact, writers and readers get in |
| `atomic_queue` | pass | 21 374 (up to symmetry) | three threads push and pop while the buffer wraps and grows twice: it implements `Fifo` |
| `test_run` | pass | 17 932 | a whole run over four tests whose processes pass, fail, leak, panic, hang or die anywhere, and whose connections may fail |
| `arena` | pass | 11 681 | two blocks, carved up and freed in every order a careful caller may: nothing overlaps or is lost, neighbours are combined |
| `containers` | pass | 33 006 | each container, the hash tables and the sort: what they hold is what the sequence, set or map holds after the same operations; an iteration misses nothing |
| `services` | pass | 104 774 | the counter of allocations, the pools, a file, paths, items, bits, and panicking threads |
| `hash_remove` | violation | | removals of absent keys fill a set until a key has no place |
| `file_read` | violation | | the end of a file of more than one buffer is asked for in full |
| `arena_grow` | violation | | a second block makes the free list loop |
| `arena_free` | violation | | a merge with the head of the list makes a node its own successor |

**Bounds.**

- `mutex`: three threads are the least with an owner, a waiter and a thief.
  `MaxSpin` and `MaxYield` are 1 (10 and 2 in the code): the counters only decide when the
  next way to wait is used, and each way is used more than once. The pointer's
  low half is either 2, which is also a thread's id, so that a wait
  can park, or 64, so that none can. `MaxDepth` is 1: threads release what they
  acquired before they acquire again.
- `write_mutex`: two threads that read, one that writes, and one that does
  either, so that readers meet each other, a writer that drains, a writer
  that writes and a second writer behind it. `NestedReads` is FALSE (see
  Limits).
- `atomic_queue`: `InitialCapacity` is 2 (8 in the code) and at most five
  elements are in the queue or on their way, so the buffer takes the sizes 2, 4
  and 8, and every front position is met when it grows. Two values tell a
  swapped pair from a right one. The threads are symmetric and only safety is
  checked with that symmetry.
- `test_run`: of the four tests one has a context the server knows and one has
  a context it does not, so all three lengths of a request occur, a test is
  skipped between two that are not, and a test follows each kind of failure.
- `arena`: a block of eight words (1024 in the code) and requests of two words and of
  six, which leave a rest that is exactly a node, one too small to be a node,
  and none. Two blocks, so that a second one is taken and blocks do not merge.

- `containers`: tables of 4 and 8 slots (8 and up in the code) with hashes that
  collide at once, after a wrap-around and after a growth; four keys fill a table past
  its limit, so that it grows with tombstones in it. A ring of 2 slots that doubles
  once, blocks of two elements (64 by default), arrays that double once, and every array
  of up to six elements with three values for the sort, so that each branch of
  the partition meets equal elements.
- `services`: three addresses let a freed one come back while two are live.
  Blocks of six words hold a list element and an object, or two objects, but not
  three. A buffer of two bytes before files of up to five: reads and writes end
  before, at and behind its end, and are larger than it. Bytes of three bits, and
  arrays of one byte, less than two, and more than two. Three threads: one that
  holds the lock, two that panic.

**Deadlock** is checked in `mutex`, `mutex_wait`, `write_mutex` and
`atomic_queue`. The run of the tests ends by itself, a caller of the arena
may have run out of what it may do, a sort and a process end, and a pool within its bound is full; there it is not.

**Fairness.**

- `Mutex`: weak fairness of `Step(t)` for each thread: a thread that is inside an
  operation keeps being scheduled. Nothing is assumed of what callers do
  (a holder may keep the mutex for ever), nor of `ReturnUnwoken`.
- `WriteMutex`: weak fairness of the steps of each call, and of the two
  releases: a program closes the sections it opens. That is an assumption on
  the callers, without which no lock lets a waiter in. `WriterGetsIn` starts
  from a writer that has the mutex; which of several writers or readers gets
  the mutex next is left to the compare-exchanges, and no property says
  otherwise.
- `TestRun`: weak fairness of the server's steps only. Each of its waits has a
  time limit but that of `ConnectNamedPipe`, and there a live
  client connects. A client may hang for ever at any point after it has
  connected. Nothing makes a connection fail (`ConnectBreaks` is no step that fairness speaks of).
  `RunEnds` names the one way not to end: the client died before it
  opened the pipe.
- `Panic`: weak fairness of each thread that is in a panic or holds the lock of
  the streams. Nothing is assumed of when threads start, print or panic.
  `MaxPrints` bounds how often the lock is taken outside of panics: a
  compare-exchange is not fair, and threads that print for ever could keep a
  panicking one out.

**The properties**, beside one type invariant per module:

- `MutualExclusion`, `ReleaseFindsOwnId` (the assertion of `release`,
  threading.cpp:112), `ImplementsLock`, `NoLostWait`. `NoLostWait` holds
  *because* the wait is not one: it is checked for mutexes whose address is no
  thread id, and it is what would break first if the call were half
  corrected, as its mutant shows.
- `ReadersCounted`, `ImplementsRWLock`, `WriterGetsIn`, `SomebodyGetsIn`.
- `LiveSlots`: between operations the slots with an element are exactly those
  the members describe. `ImplementsFifo`.
- `VerdictTruthful`, `AllJudged`, `TestIsolated`, `NoOrphans`, `RunEnds`.
  `TestIsolated` is as strong as the code allows: a write that fails *is* an
  assertion of the server, so a process that dies before it has read its
  request ends the whole run. What holds is that no test that *ran* can do so.
- `SetAgrees`, `TabAgrees` (with the assertions of hash.h), `TabItrComplete`,
  `InternedOnce`, `DequeAgrees`, `ArrayAgrees`, `Sorted`, `BucketsAllSeen`.
- `CounterExact`: what the test client finds in the table is what is leaked.
  `PoolsDisjoint`, for all pools. `PoolsDestruct`: a `GrowingMemoryPool` destructs each
  object once; `free_all` of the free list destructs every object
  that is left, and beyond these at most one element, over zeros.
- `FileAgrees`, `PathsNormal`, `RoundTrip`, `BitsAgree`.
- `PanicReported`: a panic ends the process after one message was written in full.
  `ThreadsSound`: no thread calls the callback twice (`CallbackOnce`), the records of
  threads are freed once, those that run have ids of their own, and so two write to the streams together
  only if one of them panicked while the process was panicking.
- `Tiled`, with the free neighbours combined (the comment at memory.cpp:47), and of the code with an
  unrestricted caller `AllocKeepsListFinite` (memory.cpp:239) and
  `FreeLinksNodeOnce` (memory.cpp:119).

## Disagreements

Each is shown by a run that TLC ends with a counterexample.

1. `mutex_wait`: the comment at src/threading.cpp:20-24 gives three ways to
   wait, "1. spin 2. yeild 3. wait". The third passes `&held`, the address of a
   pointer parameter, to `WaitOnAddress`, which compares the low half of the
   pointer with the id of the owner and returns at once. The loop is a
   spin lock. Were the two ever equal, the thread would sleep on an address that no release wakes.
2. `arena_grow`: `alloc_no_construct` keeps `prev` from the search when it
   takes a new block (src/memory.cpp:194-196). The rest of the block is linked behind
   the last node of the old list while the block stays its head: the list
   loops, and the assertion at l.239 fails.
3. `arena_free`: a node merged while it is the head of the list is not unlinked
   from `free_list` (l.70, l.88), and l.115 links the merged node to the stale
   head. The assertion at l.119 fails when that is the node itself.

4. `hash_remove`: `InternalHashSet::remove` (hash.h:363-372) does not look whether
   the slot it found has the key. Of an absent key it makes a tombstone of an
   empty slot and lowers `used`. A set whose count is too low does not grow; once
   every slot is a key or was overwritten, `insert` meets a slot that is neither
   the key nor free, and the assertion at l.352 fails. `InternalHashTable::remove`
   does look. The run `containers` has callers that remove what is there.
5. `file_read`: `small_buffer_read` reckons what is left in the file from
   the start of the buffer it *had* (files_base.h:168). After a full buffer it
   asks for another full one, and where the file ends before that, the assertion at
   os_windows_files.cpp:46 fails.

Seen while modelling and kept out of the passing runs by a named precondition,
or by the types a run uses; no run is spent on them:

- files: the system's pointer and `real_file_ptr` are not moved when the caller
  seeks out of the buffer, so that the next read or write lands elsewhere (`CarefulSeek`); a write
  that begins in the buffer and ends behind it goes where the pointer is
  (`CarefulWrite`); `write_padding_bytes` leaves `abstract_file_size` as it was and
  writes more than a buffer of padding over itself; a large read from the window's
  start is checked against the wrong remainder (`CarefulRead`);
  `get_current_pos` returns the system's position.
- bits: `SetBitArray::clear` leaves the byte of `highest_set` if that is a
  multiple of 8, and `test_all` is false for a full array whose length is one;
  `SquareBitMatrix::new_value` loses rows when a row grows to a second byte.
- paths: `C:\..` takes the drive away, and `C:\` becomes `C:`, which is not absolute
  (`AtDrive`).
- containers: `Queue::free` and `clear` destruct a wrapped part from the wrong slot
  (utility.h:776, 907), so that the modelled values need no destruction; `Queue::back` reads
  one slot behind the last; `Queue::shrink` cannot be instantiated; `concat` of a
  view of the array itself reads freed memory when the array grows;
  `try_extend` of an empty hash set does not return; the move assignments of
  the hash set and table leak what they held; `intern` of an empty text panics
  where its data is no null pointer.
- memory: `free_all` of the free list destructs the last free element too, for the second time
  if `free` destructed an object there (`PoolsDestruct` says that it is no more than that one, and
  that it holds zeros); the destructor of
  `DenseBlockAllocator` destructs `size` of `capacity` constructed elements;
  `ALLOC_COUNTER::reset` keeps a dangling table.
- threads: the handle of a thread is never closed; `AtomicLock` can be copied; the
  move assignment of `OwnedHandle` loses the handle it had.

The run `arena` shows that, within its bounds, 2 and 3 are all there is to the arena: a caller
that asks for no more than some free node has while there is one, and frees
nothing that lies beside the first node of several, sees a correct allocator.

## The proofs

`TLC` checks the instances above; `TLAPS` proves the following for every value
of the constants that the named assumptions allow.

**`MutexProofs`** (any set of threads, any length of back-off, any pointer).

- `TypeCorrect`: `TypeOK` is invariant, with any ids and any nesting. It takes
  `LoopInv`: a thread in the loop installs 0 or its own id and has
  not used up its acquisitions.
- `Exclusion`, `ReleaseSafe`, `Refinement`: under `DistinctIds` (no two threads
  have one id) and `MaxDepth = 1` (no thread acquires what it holds). The
  inductive invariant adds `HeldNamesOwner`: the word is a thread's id exactly
  while that thread is inside. Mutual exclusion alone is not inductive: it
  says nothing of a free word with somebody inside, from which a
  compare-exchange lets another in. Both assumptions are needed: without
  `DistinctIds` (two threads that `start_thread` did not create both have the id 1) two
  threads share the mutex, and with `MaxDepth = 2` the first of two releases
  frees it for both.

**`WriteMutexProofs`** (any finite set of reading sections, any set of writing ones, any
distribution over threads, with or without nested readers).

- `TypeCorrect`, `CountExact`, `Refinement`. The inductive invariant has five
  parts: types, `ReadersCounted`, `Alone` (a section that writes is the only
  open one of its thread), `HolderKnown` (the mutex is held by the thread of
  the one section that took it) and `NoReaderInside`. `NoReaderInside` rests on
  both orders: a reader that enters has been counted before it saw the mutex
  free, and a writer that enters took the mutex before it saw the count at 0.
  The count needs `FS_AddElement` and `FS_RemoveElement`, one lemma for each direction.

**`TestRunProofs`** (any number of tests, any contexts).

- `TypeCorrect`, `Truthful`, `Judged`, `Isolated`, `Reaped`. The inductive
  invariant: `InTurn` (the process is that of the current request, and gone between
  turns), `InStep` (server and client are at matching places of the
  conversation and have counted the same transfers), `RanOnce` (a test has an
  outcome exactly from when its process has run it), `JudgedInTurn` (verdicts
  up to the current test and none beyond). The lemma `TurnEnds` is the step from one test
  to the next, which four actions share.

**`AtomicQueueProofs`** (any threads, any values, any size of the first buffer, any
number of elements).

- `TypeCorrect`, `SlotsInUse`, `Refinement`. The inductive invariant adds three
  parts to the types. `OneInside`: the thread that is between `acquire` and
  `release` is the owner of the mutex. `Staged`: what that thread has made sure of by
  where it is, such as a free slot before it counts the new element, and that what it is about
  to store is a value. `Filled`: a slot holds an element exactly if it is one of
  `Count` slots from the one `First` behind the front; the two say how far the
  operation under way has come. `LiveSlots` alone is not inductive, as it says nothing while
  somebody is inside. The lemma `Wrap` replaces the modulo of
  `_ptr_index` by one subtraction, which makes the rest linear.
- `Refinement` maps the step that stores to the abstract push and the step that takes
  to the abstract pop (`StepRefines`); growing the buffer and advancing the front
  are stutters, because the ring read from `First` on stays the same sequence. The mutex
  is what `Refinement` of `MutexProofs` shows it to be.

**`DataLemmas`** has what the next three modules need and the library does not state in a
form the provers can use: least and greatest members of sets of numbers, that what a
recursive function over numbers describes exists (`IsIteration`, `Iterates`), powers of two, and
the items of a sequence after `InsertAt` and `RemoveAt`. Its induction is over a
*set* of numbers (`SetInduction`), which takes no operator as a parameter.

**`ContainerProofs`** (any elements, any keys and texts with any hashes, any first capacity from three
on, any size of a block, inputs of any length).

- `SetIsRight`, `TableIsRight`, `TableIterates`, `InternerIsRight`. The inductive
  invariant of all three tables is `WellProbed`: every key lies where a search for it
  arrives before any EMPTY slot. A removal keeps it because a TOMBSTONE is not EMPTY, an
  insert because it takes the first free slot of the search, and a growth because the keys are put one by one
  into a table that is `WellProbed` all the time. With it goes the count of the keys,
  which leaves a slot without one, so that an insert finds a place.
- `SetIsRight` assumes `RemovesAbsent = FALSE`, as the property is false
  otherwise (`hash_remove`).
- `QueueIsRight`: the invariant `RingOf` is a statement about any ring, so that
  the lemma about `extend` says once what it does and each operation only names the ring it leaves.
- `ArraysAreRight`: `ArrOK` relates the slots to the sequence, and an insertion that moves the
  elements up from the end is followed slot by slot.
- `BucketsIterate`, an action property: `BlocksHold` (all blocks but the last are full) and `ItrHolds` (an
  iterator is at the element after those it has seen).
- `SortIsRight`: `SortShape` (the ranges on the stack are disjoint), `SortPart` (what lies
  left and right of the two indices of a partition is on the right side of the
  pivot), `SortOrdered` (two elements are in order, or in one range that is still to be
  sorted) and `SortCounts` (the exchanges keep the bag).
- `ContainersTyped`: the types of all seven, when a set's callers remove what is there.

**`ServiceProofs`** (any sizes of the ranges and blocks of the pools, any number of
objects, any finite set of threads and of addresses, any names, files of any length before
buffers of any size; requests, reads and writes of the sizes the models enumerate).

- `PoolsAreDisjoint`. `BumpInv` and `GrowInv`: pieces of the last block lie below its top, and the
  elements of the two lists of destructors are pieces like any other. `FreeInv`: the free list is
  an injective sequence (`Linked`) of exactly the elements without an object, so that it
  neither loops nor loses one. `DenseInv`: no two blocks have the same memory, and the array is ordered by what
  remains in each, the full ones first. For the binary search the proof shows that
  the last block of the part still searched has room throughout (`HalvedIs`), and for
  the move backwards that the order is kept (`SwapKeeps`).
- `DestroyedExactlyOnce`: `GrowListed` (each object with a destructor is on the
  list of one pool, once) for the one pool. For the free list, by `FreeInv` every element without an object has the next one of the list behind it,
  and only the last has none; whatever is on the list holds zeros.
- `ThreadsAreSound`, and `EndsReported`, the safety half of
  `PanicReported`. `PanicInv` adds six parts to the types: `MainRuns` (`main` has the
  id 1 and does not return), `Records` (a
  thread's place says which of its records exist), `IdsGiven` (a thread that has begun
  has an id between 2 and the counter, and no two have the same), `WritesUnderLock` (who prints
  or reports holds the lock by its id), `Reported`, and `FlagFirst`: the flag is set before the
  callback is called and stays, so that a thread that called it and panics again finds the flag set. That is
  why `CallbackOnce` holds although reading and setting are two steps: it is *other* threads that
  can come between them. The second release of a
  nested lock, which frees a mutex that is free already, does not occur: the one that panics
  in the middle of a print does not come back to it.
- `CounterIsExact`. `HeapInv`: the table has as many entries as there are live allocations,
  each of one that no other entry has, and with its size. That `remove_single` puts the last entry in
  the place of the one removed is then no more than a renaming of places. The totals are
  numbers of bytes, so that each operation changes them by `FS_AddElement` and its like,
  one byte at a time: a library without sums of functions leaves no shorter way.
- `FilesAgree`, for a caller with the preconditions of `FileBuffer` (`AnyRead = FALSE`; the property
  is false otherwise, see `file_read`). `FileInv`: what the disk has with the buffer written over it is what
  the caller wrote *whether or not* the buffer is in sync, since a buffer in sync writes what
  is there; in sync, the system's pointer is where the buffer ends; and the
  caller's position is in the buffer. The last two are what `CarefulSeek`, `CarefulWrite` and
  `CarefulRead` preserve, and from them each branch of a read returns the right bytes.
- `PathsAreNormal`. `PathInv`: the array has `..` only before any name, and leads from the same
  directory to the same place as what was given. The directory is deep enough for any path of the bound, so that
  `..` never meets its root; `Resolve` and `AppendPath` are followed one component
  at a time by `Iterates`. That a normalized path is normalized to itself follows from its shape alone.
- `ItemsComeBack`, for any `Base` of a byte, any buffer and any number of zeros written at once.
  `SerHolds`: the bytes are the pieces of the items written one behind another, the items read
  are the first of those, and the rest of the view begins where the next one lies. What is left is
  that one item survives: `IntegerBack` (an integer is the sum of its digits times their
  weights, by induction over the digits) for both byte orders, and `CastBack` for the cast to an
  unsigned type and back. `ZerosWritten` says that whole buffers and a part of one make one run of zeros.
- `BitsAreRight`, for any number of bits in a byte and lists of any length. `BitInv`: the bits of the bytes in use are
  exactly the members of the ideal set, so that those of the last byte beyond the length are not
  set, and `highest_set` is the highest. That is why `count_set` may add up whole bytes (`PopcountIs`)
  and what `test_all` counts on in its last byte (`TestAllIs`). `NextUnsetIs` and `UnsetVisitedIs` follow the iterator, which skips full bytes,
  from one unset bit to the next.
- `ServicesTyped`, the types of all the services together, from the same invariants with two more
  conjuncts. `BumpRoom`: the top stays *below* the end of the memory, which is what the assertion of
  `push_alloc_bytes` demands of a request. `GrowBounded`: there are no more objects than the bound of the run.
  The invariant of a file says for this that what is on the disk, in the buffer and with the caller consists of `Byte`s, and
  that the buffer is no longer than `BufferSize`; a write and a load are followed piece by
  piece for it (`OverlaidIs`, `LoadedHolds`). `AnyRead = FALSE`, as in `FilesAgree`.

**`ArenaProofs`** (blocks of any size, any number of them, requests of any sizes below that of a
block; a careful caller: `arena_grow` and `arena_free` show that the properties are false for others).

- `ArenaTyped`, `WordsAreTiled`, `ArenaAssertions`. The invariant says what is true at each
  place of a call, as `Tiled` is silent while one is under way. Throughout, the free list is an
  injective sequence of nodes (`Chain`), and these with the allocations leave out no word
  of the blocks and share none (`Whole`, with `Tiles` for the words and no two nodes side by side).
- In a search (`SearchAt`) no node seen so far is large enough, and one of those ahead is unless the
  list is empty. This is where the careful caller comes in: the search never comes to the end of a list
  with nodes, so that a new block is only ever the head of an empty one.
- In a walk (`WalkAt`) the piece on its way back lies beside none of the nodes seen, nor, on a
  side where it was merged, beside any; and it was not merged with the first node, unless that was the
  only one (`Alone`). Merging takes a node out of the middle of the list (`ChainRemove`) and two
  pieces of the tiling together (`MergeTiles`); a split does the reverse
  (`ChainReplace`, `SplitTiles`), and a new block adds one piece (`BlockTiles`).
- The arithmetic rests on `RunIsShort`: words that lie in blocks throughout lie in one block, as the
  pointer to the next block is between any two. Two pieces of different blocks are thus
  never side by side, and no merge makes one larger than a block.
- `Tiled` and the assertion of line 239 speak of the nodes that following the
  pointers visits; `FollowedIs` shows that these are the nodes of the sequence, since a list without
  repetition ends after no more steps than there are words (`ChainIsShort`).

Model-checked only:

- The liveness properties (`NoLostWait`, `WriterGetsIn`, `SomebodyGetsIn`, `RunEnds`,
  `PanicReported`): liveness under fairness is out of the prover's reach.

## Limits

- Threads with equal ids are outside the theorems about `Mutex` and the runs.
  `Panic` shows that the threads of `start_thread` and that of `main` have an id
  each while they run; two threads made by anything else share the id 1.
- Acquisitions that nest: tests/thread_tests.cpp:14 acquires twice and releases once, which
  works as the lock word does not count. A caller that pairs them, such as
  two `ScopeLock`s in one thread (a panic in the middle of a print), frees the mutex
  early and would fail the assertion of the second release. `MaxDepth = 2`
  describes such callers, and the run and three theorems leave them out; `Panic` has that early release, and shows that the process ends
  all the same.
- Nested readers: a thread that opens a second section to read while a
  writer drains the first waits for a writer that waits for it. The safety theorems cover
  `NestedReads = TRUE`; `WriterGetsIn` does not hold there, and no run claims it.
- `AtomicQueue` takes the contract of `Mutex` for granted, and its destructor is
  left out (utility.h:936 has the fault of `Queue::free`).
- The counter of allocations is followed through calls that do not overlap; it is not
  synchronized in the code, and two threads that allocate at once are outside.
- A caller of the files, the bits and the paths keeps to the preconditions named
  under Disagreements. A failed call of the system is an assertion there and ends the process.
- Destructors of the elements of containers are not modelled, but those of the pools' objects are.
- That `sort_view` returns is not stated, only that the elements are in order if it does.
- A test process has one thread, and ends at once when it is terminated. What
  a late completion of a timed-out read writes into a dead stack frame is below the level of the model.
- What a caller of the arena writes into its memory is left out: `Tiled` says
  that no node lies in it. `ArenaAllocator`'s destructor and its debug build,
  which is `malloc`, are left out too.
- Not modelled because there is nothing to interleave or to order: formatting,
  primitives, options, arguments, most of math, telemetry, the build, the
  directory iterator, the split of a file name and its extension. `Signal`, `AtomicPtr` and
  `AtomicLock` add nothing to `Mutex` but the fault at threading.h:94, which
  shows in a single call.

## Plan

1. *Composition*: the panic callback of the test client with a second thread that
   panics, on top of `TestClient`.
2. *Destructors* in `Deque` and in `AtomicQueue`, whose wrapped case is a fault.
