# Verification project for the Morphic manifold engine

TLA+ specifications of the engine under `src/`: modules that model its
components, TLC configurations that check them on small instances, and TLAPS
proofs of what matters most for every value of the constants. Every definition
is translated from the C++ source; `PROJECT.json` gives, for each one, the lines
it stands for (`map`).

## 1. The system

The engine is a set of C++ libraries and a host program. At run time `CHost`
owns three threads: the executive, which runs the game's logic, and two
workers, one for file I/O and one for conditioning (coding and decoding). No
two of them share data under a lock. They exchange messages over wait-free
transports, sleep on a *wait word* each, and report their life cycle in an
atomic *run state*. A panic anywhere asks for a shutdown through the debug
service, which has a writer thread of its own behind a multi-producer transport.

```
   executive  --TOwning-->  +------+  --TQueue-->  file I/O worker
              <--TQueue---  | host |  <--TQueue--
                            |      |  --TQueue-->  conditioning worker
   any thread --TMpmcArena  +------+  <--TOwning-
                  |
                  +--> debug service writer thread
```

(The erased-owner channels are TOwning, the plain-data channels TQueue.)

### Components

| component | state | operations | what makes it correct |
|---|---|---|---|
| `TQueue` (`core/threading/transports/TQueueTransport.hpp`) | three buffers, the producer's three roles, the consumer's index, one shared word (index and phase) | `initialise*`, `post`, `read`, `deallocate` | the producer never writes what the consumer reads; items leave in order, once; an accepted item arrives; growth never overruns |
| `TBulk` (`TBulkTransport.hpp`) | three payloads, the producer's roles, the consumer's index, one shared word | `publish`, `discard_and_acquire` | the consumer's payload is stable; acquisitions go forward |
| `TRing` (`TRingTransport.hpp`) | ring storage, two private indices, one shared count | `initialise`, `post`, `read`, `deallocate` | bounded FIFO of batches; no slot is shared |
| `TOwning` (`TOwningTransport.hpp`) | the same, of live objects | the same | each element is owned by exactly one side at any time |
| `TMpmcIndexRing` (`TMpmcTransport.hpp`) | cells with a sequence each, two positions | `push`, `pop` | a bounded FIFO of claims; refuses only for a reason |
| `TMpmcArenaTransport` (`TMpmcTransport.hpp`) | two rings of indices, a status word, an outstanding count | `reserve`, `publish`, `read`, `recycle`, `begin_closing`, `shutdown` | every index has one owner; closing completes, and only when nothing is outstanding |
| `CThreadPackage`, `CThreadControlState` (`core/threading/`) | per thread: three transports, the wait word, the run state, the exit request | `startup`, `post`, `read`, `shutdown`; `wait_for_new_epoch`, `poke`, `wake_*`, `release_control` | a thread with mail is awake or about to be; shutdown joins a thread that has returned |
| `CHost` (`host/runtime/host.cpp`) | asset repository, asynchronous states, three packages | a loop over the packages; six handlers; startup and shutdown | a state for each job in flight and none besides; what a job refers to is alive; every request is answered |
| `CHostWorkerThread` (`host_worker_thread.cpp`) | the job in hand | read, work, answer, wait | answers each job once |
| executive (`executive/runtime/executive_thread.cpp`) | one asynchronous state, a completion flag, a failure code | load request, save request, result handlers | ends, and reports success only if the file was saved |
| asynchronous states (`core/system/async_state.hpp`), asset repository (`core/assets/asset_repository.hpp`) | slots of pending operations; assets by id | acquire, find, release; insert, find, erase | ids are not reused |
| counting semaphore, wait predicate, parking gate (`core/threading/`), wait word, semaphore, lock, thread object (`core/platform/threading/`) | a word each, a gate, an owner, a join token | acquire, release, wait, park, control; create, join, close | no wake-up and no permit is lost; mutual exclusion; a joined thread ran |
| debug service (`core/debug/`) | arena transport, writer thread; incident counter, configuration, shutdown request, breakpoint context | submit, start, stop, panic, break, read the context | an accepted event is written once; the writer does not sleep with events; one thread owns the context |
| erased owners and message transports (`core/system/erased_*`, `core/threading/messages/`) | owner, table of operations, memory context | post with admission and attribution, read | a value is destroyed once, in the context that counts it |
| memory tokens and contexts (`core/memory/`) | storage, size and context of an allocation; two counters of a context | allocate, reallocate, grow, deallocate, attribute | accounts match allocations; a failed growth changes nothing |
| slot containers and collections (`core/containers/`) | slots in three lists or an AVL tree, counters; objects beside them | acquire, insert, erase, find, lex, pack, reserve | lists and tree partition the slots; searches find; objects stay |
| vectors, fifo, buffers, string table, instances (`core/containers/`) | storage and size; four vectors and a buffer of payloads | append, insert, erase, grow, pack, intern | sequences, also when an allocation fails; an id keeps its string |
| data model (`core/data_model/`) | a live tree of linked nodes; a baked array; a block of bytes | attach, detach, erase, iterate; bake, validate, read, promote | the tree stays a tree and the same in each form |
| system ids, registries, module binding (`core/system/`, `core/module/`, `core/platform/module/`) | tables, a bound module | register, look up, bind, unbind | no id has two meanings |
| growth policies, permutations, bit operations, spatial codes, TGA, half floats | none | pure functions | agree with their mathematical definitions |

`PROJECT.json` lists them all, with those that are not modelled and the reason.

### What is hard here

- **Interleaving.** The transports share one or two atomic words, and each
  endpoint acts on what it saw before its exchange. The index ring lets any
  thread stall between its claim and its completion.
- **Stale state.** Counts, words, sequences and the shutdown status are loaded,
  and used later. An answer names an asynchronous state which may by then be
  another one. Jobs carry raw views into the host's assets.
- **Lost wake-ups.** A worker reads nothing, then goes to sleep; the host posts,
  pokes and wakes in between. The native wait word closes the gap by comparing
  and parking in one step; the epoch it compares can in principle come round.
- **Partial failure.** Allocation, posts, file operations and conversions may
  each fail after a state was acquired or an asset stored.
- **Shutdown.** The exit request, the release of the word and the wake-up meet
  a thread anywhere in its loop; closing the arena meets reservations under way.
- **Boundaries.** Batches that end exactly at the end of a ring, positions that
  wrap at 2^32, capacities that are rounded up and then clamped, permits next to
  the word that means released control.
- **Long sequences of legal calls.** Tree rotations after removals, permutations
  applied in place, nodes attached, detached and attached elsewhere, cursors over
  what has changed since.

`PROJECT.json` lists them as hazards, each at its line.

## 2. Modules and how they correspond to the code

| module | models | abstract specification |
|---|---|---|
| `FifoChannel`, `BoundedFifo`, `ClaimRing` | what a transport of unbounded backlog, a ring transport and the index ring promise | |
| `TQueueTransport` | `TQueue<T>` | implements `FifoChannel` |
| `TRingTransport`, `TOwningTransport` | `TRing<T>`, `TOwning<T>` | implement `BoundedFifo` |
| `TBulkTransport` | `TBulk<T>` | |
| `TMpmcIndexRing` | `TMpmcIndexRing<>` | implements `ClaimRing` |
| `TMpmcArena` | `TMpmcArenaTransport<>`, over two `ClaimRing`s | |
| `HostPipeline` | `CThreadPackage`, `CThreadContext`, `CThreadControlState`; over them `CHost`, the workers, the executive | |
| `DebugService` | submission, the writer thread, `start()` and `stop()` of `CDebugServiceState`, over `TMpmcArena` | |
| `DebugIncidents` | the lock-free words of `CDebugServiceState`, `panic()`, the breakpoint | |
| `WaitWord`, `ParkingGate` | the native wait word; `CParkingGate` of the fallback | |
| `CountingSemaphore`, `WaitPredicate` | `CCountingSemaphore`, `CWaitPredicate`, on either | |
| `WaitWordSemaphore`, `ExclusiveLock`, `ThreadLifetime` | `CWaitWordSemaphore`, `CExclusiveLock`, `CThread` | |
| `SlotSequences` | what a slot container promises | |
| `OrderedSlots`, `UnorderedSlots` | `TOrderedSlots` (an AVL tree and two lists), `TUnorderedSlots` (two lists) | implement `SlotSequences` |
| `ObjectStore` | what a collection promises | |
| `OrderedCollection`, `UnorderedCollection` | `TOrderedCollection`, `TUnorderedCollection`; `TPodOrderedSlots`, `TPodUnorderedSlots`; in the former, the validators of permutations | the collections implement `ObjectStore`, the others a map and an array |
| `PodContainers`, `ByteBuffers` | `TPodVector`, `TPodFifo`, `TInstance`; `CByteBuffer`, `CByteRectBuffer` and their views | |
| `StableStrings` | `CStringBuffer`, `CStableStrings` | |
| `ElementStorage` | what memory tokens promise for elements | |
| `MemoryToken`, `MemoryContext` | `CMemoryToken` in its modes over contexts; the counters of `CMemoryContext` under threads | `MemoryToken` implements `ElementStorage` |
| `MemoryArithmetic` | growth policies, conditioning of sizes and alignments, typed views; Morton and Hilbert codes (`spatial_codes.hpp`); ids (`system_ids.hpp`) | |
| `ErasedTransport` | `CErasedOwner`, its tables of operations, the three erased transports | |
| `DataModel` | `CLiveDocument`, `CArrayCursor`, `CBakedDocumentBuilder`, `CBakedDocumentBlock`, `CBakedDocument` | |
| `TQueueProofs` | theorems about the queue | |
| `TransportProofs`, `IndexRingProofs`, `ArenaProofs` | theorems about the other transports, the index ring and the arena, and about all of them side by side | |
| `HostProofs`, `SyncProofs`, `DebugProofs` | theorems about the host pipeline, the synchronisation objects and the debug service | |
| `MemoryProofs` | theorems about owners on their way, contexts under threads, views and ids | |
| `MCTransports`, `MCSync`, `MCContainers`, `MCMemory` | instances for TLC | |

`TQueueTransport`, `DataModel`, `HostPipeline` and `DebugService` are checked as
they are; the first two end with the values that their configurations name.
`MCMemory` extends `ErasedTransport`, and `MCContainers` `OrderedCollection`,
beside the components they instantiate. The other instances put several
components side by side that share nothing. A variable, or a condition on the
initial state, says which one moves; the others rest, as no interleaving of two
of them shows more than each shows alone.

**Grain.** In the transports and the synchronisation objects, each atomic load,
store, exchange or read-modify-write is an action, and the work between two of
them goes with one of the neighbours, as it touches nothing that the other side
reads at the same time (which `NoSharedWrite`, `NoSharedSlot`,
`SlotsHaveOneOwner` and `LockIsExclusive` check). A copy between buffers is an
action of its own wherever the other endpoint could interfere with it. The
containers, the memory tokens and the documents belong to one thread: an
operation of theirs is one action, and what varies is its order, its arguments
and which of its allocations fails.

**The queue.** `TQueueTransport` has the three buffers with their sizes and
capacities, the producer's `output`, `staged` and `locked`, the consumer's
index, and the word. `post()` is a sequence of steps: the growth policy decides
per buffer between keeping, growing, discarding and refusing; copies follow;
one exchange publishes, and tells by the value it returns whether the consumer
has taken the previous publication, in which case the post publishes a second
time. The growth policy `GrowthPolicy` is a parameter known only by
`GrowthAssumption` (it returns no less than it is asked for, up to the limit).

**The arena.** Its rings are `ClaimRing`s, not `TMpmcIndexRing`s: run
`transports` shows, and `IndexRingProofs` proves, that the latter implements the
former, refusals included, so that the arena is checked against every behaviour
the ring has, at a size TLC can reach.

**The host.** Channels are sequences, which is what the transports are shown to
be. A handler is one action up to the point where its message becomes visible;
then `Poke` and `Wake` follow as steps, so that every interleaving of a post
with a thread that goes to sleep is there. What a handler does to the assets and
states after posting is folded into the same action: these belong to the host
thread alone. Any allocation, post, file operation or conversion may fail.
Abstractions made:
- The load of the wait word and the parking are one step: the kernel compares
  the word, and a change in between sends the thread round to the load again.
- A worker's check of `exit_requested()` and its read of the queue are one step.
  Only the host changes either, and no property tells the two orders apart.
- `Exiting` and `Exited` differ in no decision of the owner and are merged.
- Messages that nobody sends (`UnrecognisedMsg` and the default cases) are left
  out. The executive asks for one conversion, as its code does.
- An id whose asset could not be stored is spent in the code and not in the
  model; nobody has it.
- A post that is refused leaves nothing. `TQueue::post()` may also publish and then
  return false (`TQueueTransport.hpp:382`), which takes a buffer that has to grow,
  and so more than 32 messages in a queue that holds two at most here;
  `TQueueTransport` has that case.

**The debug service.** Every step of the arena is a step of the service: the
module instantiates `TMpmcArena` with the writer as its one consumer and the
host as the thread that closes it. A write to the direct log is one step, as it
is made under a lock that is never held while another is taken. Which log an
event goes to, and whether the writer's own writing fails (the code ignores it),
is not told apart. `accepted`, `copies` and `amid` are history variables:
which submissions return true, how often each event was written, and what was
under way when the closing began. The code has three ways to submit that differ
in when they fall back to the direct log and whether they signal the writer;
`AfterRefusal` and `Submit` have the alternatives. `DebugIncidents` has the
words beside the transport, with every access a step; the relaxed fields of the
breakpoint context are stored and loaded in any order that their acquire and
release operations leave open.

**Synchronisation.** `WaitWord` compares and parks in one step and may wake a
sleeper for no reason, as the operating system does. `ParkingGate` has the two
gates, the packed state with its one-bit phase and its generations, and the
tickets. The semaphore and the predicate are written once and run on the
backend that their build selects. A second owner takes control only after the
first has released it, which is what the calling code does.

**Slots.** A table is its array of meta slots with the root, the list heads and
the counters; a tree is the `parent`, `child` and `bf` of its lexed slots, and
the walks up the tree after an insertion or a removal are the repetition of one
step. The refinement to `SlotSequences` reads the three sequences off the links.
The collections add the layers of storage that grow one after the other.

**Ids.** `system_ids.hpp` keeps an index as the complement of its bits, spread to
every other bit of a word. A word is the set of its bits, so that masks are
intersections and shifts move members, and the theorems about ids need no
arithmetic of words; that the words of the code are these sets is what run
`memory` compares (`Bits(SpreadToEvenBits(n)) = Spread(Bits(n), 0)`).

**Memory.** A token is its mode, context, buffer size, count and memory, over a
heap of blocks with addresses that fail to be allocated where the run says.
What a context counts is compared with the blocks it has. `MemoryContext` has
the two counters as the two words they are, changed by several threads; the
bytes of a set of blocks are counted as the elements of a set, one per byte.

**Owners and messages.** `ErasedTransport` has the steps of `post()` (admission,
attribution, the post of the transport underneath, what is undone when it is
refused), while storage comes and goes in the same contexts, up to a ceiling at
which attribution fails.

**Documents.** One module has the life of a tree: nodes in a registry, linked;
nodes in an array, side by side; the same in a block, which may also come from
elsewhere and has to pass `validate()`; and the document made of a block. The
tree is what the forms have in common, and `BakingKeepsTheTree` compares it. Of the
registry there are the number of its slots and the size of the arrays beside
them: a node that finds no free slot makes it grow, altogether, half-way, or not
at all.

**Half-way growth.** The containers over slots enlarge the arrays beside the slots
first and the slots last. When only the last allocation fails, the arrays stay too
long, and the code's `check_integrity()`, which wants the sizes equal, fails until
a later growth succeeds. `torn`, a history variable of the containers and a field
of the document, says that this is so; the integrity properties state that it is
the only case, and that all else is sound meanwhile.

## 3. Runs

Limits that bound only the model, such as the number of versions or operations,
are constants named in the modules, with the word "bound".

| run | module, configuration | distinct states | question |
|---|---|---|---|
| `tqueue` | `TQueueTransport`, `MCTQueue.cfg` | 121 505 | does the queue keep producer and consumer apart, deliver everything it accepted in order, and implement `FifoChannel`, under growth, discarding, refusal and failed allocations; is what was published eventually accepted |
| `transports` | `MCTransports`, `MCTransports.cfg` | 220 946 | do TRing and TOwning implement `BoundedFifo`, does TBulk only go forward, does the index ring implement `ClaimRing` across the wrap of its positions, has each index of the arena one owner and does its closing complete |
| `host` | `HostPipeline`, `MCHost.cfg` | 88 333 | does the pipeline, with its threads' start, sleep and shutdown, keep states and messages matched, views alive, wake-ups unlost, and end |
| `debug` | `DebugService`, `MCDebug.cfg` | 180 601 | is every accepted event written exactly once, with no writer left asleep; does a stop end |
| `sync` | `MCSync`, `MCSync.cfg` | 380 359 | are permits and words exact, does nobody sleep past what it waits for, is the lock exclusive, does a joined thread run its entry point, are incidents told apart, and does every wait end |
| `containers` | `MCContainers`, `MCContainers.cfg` | 68 126 | do containers keep their integrity (but for a growth that failed half-way), answer their searches and keep their contents under every operation and failed allocation |
| `memory` | `MCMemory`, `MCMemory.cfg` | 284 608 | do accounts match the allocations, are sizes sound, do spatial codes follow their curve, do ids give back what they were made of, and is every owner accounted for on its way between modules |
| `documents` | `DataModel`, `MCDocuments.cfg` | 218 512 | is a document a tree, the same in each of its forms, and a foreign block refused that is none |
| `bulk_held` | `TBulkTransport`, `MCBulkHeld.cfg` | violation | is the payload the consumer holds never written |
| `debug_drained` | `DebugService`, `MCDebugDrained.cfg` | violation | has a stop whose producers are quiet drained the events |
| `swap_insert` | `MCContainers`, `MCSwapInsert.cfg` | violation | does `swap_insert()` keep the elements of the vector |
| `thread_close` | `MCSync`, `MCThreadClose.cfg` | violation | does closing a thread object leave its thread running |

### Bounds and why they are enough

- **tqueue**: capacities 1 to 3 with a growth curve that clamps at 3; postings
  of one and two items; reads of one and two. Three buffers with three
  capacities each make every choice of keep, grow, discard and refuse occur, for
  the published buffer and for the output, and the copies differ in length and
  content. All calls may be repeated without end: there is no bound on their
  number. Fixed and growable queues, discarding ones and others, start from
  `Requests`.
- **transports**: TRing with capacities 2 and 4 and batches up to 3, so that a
  batch may fit, wrap, end exactly at the end, or be refused; TOwning with five
  elements for four slots, where every capacity is a power of two, as
  `OwningAssumption` demands (section 6); TBulk's payloads
  counted to six versions, twice its three buffers. The index ring has three
  threads at two cells, so that a stalled thread can be overtaken by a full lap,
  and words of eight values that start at 6, so that they wrap in the middle of
  its five operations. The arena has two producers, two consumers, a closer, two
  indices, and a `shutdown()` at any time; each thread repeats its protocol
  without a bound.
- **host**: both workers, the executive, the one conversion the executive asks
  for, one asynchronous state for the host (more would never be used at once:
  the executive waits for each answer). `Released = 3` gives epochs 0 to 2; each
  worker receives two messages, and so two pokes, at most. That the epoch does
  not come round while a worker is about to sleep is what
  `ReleasedAssumption` says; with `Released = 2` TLC finds the lost wake-up. The
  code has 2^32 - 1 epochs.
- **debug**: two producers over two slots, two events in all, which is what it
  takes for a stalled reservation to make the writer's recycle fail, and for an
  event to be submitted while the previous one is recycled. The host may start
  before, between or after the submissions, fail to start, and stop at any
  time. `EpochValues = 4`, one more than the signals there are
  (`EpochAssumption`); the code has 2^32.
- **sync**: two threads that wait and one that controls, so that a wake-up meant
  for one can reach the other; two permits, two changes of the word and two
  lifetimes of control, with counts 0 to 2 below the sentinel 3, so that the
  limit is reached. Two lockers and a stranger who releases what it does not
  own. Three starts of a thread object, two native threads. Two incidents by two
  reporters, and one reader of the context.
- **containers**: slot containers of three and four slots under every sequence of
  operations, from which all shapes, lists and layouts of that size arise.
  Trees of three cannot rotate on the way up, so that every tree of height 5
  with the fewest slots (12) is a start of its own, for two operations: each
  removal from one of those rotates at up to two levels. Collections of up to
  four slots grow twice. Vectors, fifos and buffers hold four elements, one more
  than the first growth gives, and the spare memory is part of the state. Four
  strings, among them the empty one and a prefix, with each allocation of each
  insertion failing in turn.
- **memory**: two tokens of either mode with three elements in all, over buffers
  of one and two elements, so that a stable token needs a directory and more than
  one buffer; three contexts of two allocators; in an operation the first
  or the fourth allocation fails, of four at most: a growth that fails at its last
  buffer gives back its directory and the buffers before it. Two threads over two
  contexts at counters small enough to overflow. Growth policies for 254
  requirements under limits of 120 and 255, which reaches each of their ranges at
  a scale of 16; words have 256 values, so that the sums that the code guards
  would wrap without the guard; the
  same numbers are the codes that are looked at, which takes all curves of up to
  three levels in the plane and two in space, and a part of the longer ones, and
  the indices that ids are made of, from both ends of the range of each field.
  Two modules with two contexts and one, and one of another allocator; two
  values, two cells of room, other threads' storage up to the ceiling.
- **documents**: three nodes ever created in a registry that begins with one slot
  and grows by one (32 and more in the code), two texts, two changes of one
  container: a chain, siblings, a subtree moved to another parent, and a cursor
  over any of them. Foreign blocks are all of two nodes over small ranges, and
  some of three to six, so that `validate()` is given each thing that it may
  refuse.

`CHECK_DEADLOCK FALSE` is set where the system may stop or where a bound ends
it: the debug service when it is stopped or all events are written, the
synchronisation objects, containers, memory and documents at the bounds of
their operations. The other passing runs check for deadlock. In `HostPipeline`
the one state in which nothing need happen is the ended engine (`Finished`), so
that threads that wait for one another for ever are found; in `MCTransports` it
is the index ring whose calls have ended.

### Fairness

- `tqueue`: weak fairness of each step of a call that has begun (a thread runs
  on), and of a consumer that keeps polling, as both the host's and the workers'
  loops do. Nothing makes a producer post.
- `transports`: of the arena, weak fairness of every thread, except that nobody
  has to begin a `reserve()`, and of `begin_closing()`, which the service's
  shutdown calls. `ClosingCompletes` is then the claim that the wait in the
  caller ends.
- `host`: weak fairness of the host, of each worker and of the executive: the
  operating system runs threads that can run, and a parked thread cannot until
  it is woken. Spurious returns from a wait and the shutdown request of the debug
  service have no fairness, so that no result rests on them.
- `debug`: weak fairness of each producer once it has begun a submission, of the
  writer, and of the host once it has begun to start or to stop. Nobody has to
  submit, to start or to stop, and spurious returns from the wait have no fairness.
- `sync`: weak fairness of each thread in the middle of a call, and strong
  fairness of the grant of a native lock to a thread that asks for it, as the
  platform's locks do not starve anyone for ever. Nobody has to begin a call.
- The other runs check safety and have none.

Liveness is conditional where the code is. `ClosingCompletes` and
`EventsAndStopsComplete` except behaviours in which the arena has lost an index,
and the latter those in which the closing began amid a call: both are defects of
the arena that section 6 describes. `EngineAndShutdownEnd` holds of behaviours
in which no message whose refusal the sender ignores was refused (`lost`).
`WaitsEnd` is about waits whose controller has released them for good.

## 4. What the properties say

- **`tqueue`**: `NoSharedWrite` (no buffer is written that the consumer reads),
  `QueueIsSound` (types; no copy overruns its buffer; both endpoint checks hold
  between calls), `AcceptedItemsArrive` (what a successful post accepted is in a
  buffer that will be taken), `IsFifoChannel` (refinement), `PublishedIsAccepted`
  (liveness).
- **`transports`**: `NoSharedSlot`, `IndicesValid` and `IsBoundedFifo` of TRing;
  `ElementsAreKept` (TOwning: an unread element is in one slot, a read that
  succeeds gives one; TBulk: the staged payload is the latest, complete);
  `SlotsHaveOneOwner` (index ring and arena: one owner per index, an exact count
  that never wraps, no closing that both possible closers miss);
  `DeliveriesAreInOrder` (TOwning implements `BoundedFifo`, TBulk's acquisitions
  advance, the index ring implements `ClaimRing`, and refuses a call only at an
  instant at which it could not admit it); `ClosingCompletes`.
- **`host`**: `NoSleepWithMail` (a parked worker with mail has a poke or a wake-up
  on its way), `NothingDangles` (each asynchronous state belongs to exactly one
  job or answer in flight, of the kind it expects, and what a job refers to is in
  the repository), `AnswerIsOnItsWay` (a waiting executive has somebody who will
  answer), `SuccessMeansSaved`, `EngineAndShutdownEnd`.
- **`debug`**: `NoSleepWithEvents` (a parked writer with events or a closed
  transport has somebody about to wake it), `AcceptedAreWritten` (no event is in
  two places; an accepted one is in one; a stopped writer leaves none, unless the
  closing began amid a call), `EventsAndStopsComplete`.
- **`sync`**: `CountsAreExact` (permits released are taken, available or owed; no
  count becomes the sentinel), `NobodySleepsPastIt` (on native wait words: while a
  thread sleeps on a semaphore under control, each permit has a thread awake, or
  woken next, to take it; once a change of a predicate is announced, whoever still
  sleeps waits for something else; nothing is said of parking gates),
  `LockIsExclusive` (one holder; a release by a stranger gives nothing back;
  destroyed only when free), `ThreadsRunTheirEntry` (a join that succeeds is of a
  thread that ran its own entry point to the end), `IncidentsAreConsistent` (a
  shutdown request is kept, one thread owns the breakpoint context, what a reader
  gets is of one incident unless another began as it read), `WaitsEnd`.
- **`containers`**: `AllIntegrityHolds` (links, lists, balance and order of the tree,
  states of the data and their permutation are sound after every operation,
  whichever allocation fails; the code's own integrity check passes, except from a
  growth that failed half-way until one succeeds, and then it fails),
  `AllQueriesAgree`
  (searches by key and by rank, traversals and duplicate checks agree with the
  contents), `ContentsAreKept` (refinements: slots move between sequences,
  objects keep their places), `IdsKeepStrings`, `SequencesAreKept` (vectors,
  fifos, buffers and rows are the sequences they stand for).
- **`memory`**: `AccountsAgree` (the two words of a context never say less than the
  blocks at rest, are exact when no call is under way, and are never too small for
  what is subtracted), `TokensAreSound` (what a context counts is what tokens have
  allocated in it; they implement `ElementStorage`; new elements are zero where
  asked), `SizesAreSound` (growth gives what is needed and no more than the limit; a
  part of a view lies in it, as aligned as it claims; each Hilbert code is that of
  one cell, next to the cell of the code before; an id gives back the index or the
  ids it was made of, and a type id its category alone), `OwnersAreAccountedFor` (no
  owner lost or destroyed twice, each counted by its context), `TransitIsSafe` (what
  is between modules belongs to the transport, means something to its reader and
  arrives in order).
- **`documents`**: `IntegrityIsKept` (links agree in both directions, and lists
  have no cycle; the code's integrity check fails after a growth of the registry
  that failed half-way, and never else), `CursorsAreExact` (a cursor that still
  answers is at its index), `BakingKeepsTheTree` (for every document that passes
  that check), `BlocksAreTrees` (what `validate()` passes is a tree, and a promotion
  that is accepted, whichever of its allocations failed, is of the whole of it).

Every property of a passing run has a mutant: a plausible defect in one mapped
definition (a dropped guard, a swapped order, a missing reset) under which TLC
finds that property violated.

## 5. What is proved

**TQueue** (`TQueueProofs`), for every set of items, capacity limit, set of
batches and growth policy that `CapacityAssumption` and `GrowthAssumption`
admit: type correctness, `WithinCapacity` and `EndpointsValid` (which together
are `QueueIsSound`), `NoSharedWrite`, `AcceptedItemsArrive`, that no step of a
post alters what the consumer holds (`HeldIsStable`), and the refinement of
`FifoChannel`.

None of these is inductive. Whether a write is safe depends on which buffer the
consumer will take, which only the word and the phase tell, so the argument goes
through

    IInv == TypeOK /\ EmptyInv /\ RolesInv /\ SizesInv /\ ConsumerInv
            /\ HandshakeInv /\ ContentsInv /\ OwedInv

`RolesInv` says the three roles are three buffers; `HandshakeInv` relates the
word to the roles and to the consumer (the word names the staged buffer until
the consumer takes it, then it is zero and the consumer holds the staged or the
locked one); `ConsumerInv` and `SizesInv` bound the consumer's progress and the
sizes; `ContentsInv` says which buffer repeats the content of which, at each step
of a post; `OwedInv` counts the accepted items that the consumer has not seen.
`Invariance` has one step per action, and under it one per conjunct. For the
refinement the steps fall into classes by what they do to the abstract state:
local steps and copies stutter, an exchange publishes, a republication stutters,
a refresh accepts.

**TRing, TOwning and TBulk** (`TransportProofs`), for every item set, batch
bound and capacity that `CapacityAssumption`, `BoundAssumption`,
`NextPowerAssumption` and `OwningAssumption` admit. Of TRing: type correctness,
`NoSharedSlot`, `IndicesValid`, and the refinement of `BoundedFifo`. Of all the
transports of `MCTransports` together, whichever moves: `ElementsAreKept`,
`SlotsHaveOneOwner`, and `DeliveriesAreInOrder` with `IsBoundedFifo`.

    AllInv == IInv /\ OwningInv /\ BulkInv /\ RingParts!IInv /\ ArenaParts!ArenaInv

- `IInv`, of TRing, is `TypeOK /\ IndicesValid /\ BoundsInv /\ SpanInv /\
  PlacedInv`: the indices and the count describe one span of the ring, a count
  seen earlier errs on the safe side only, and what a post has placed lies behind
  the span.
- `OwningInv` says the same of objects, which are in one place only
  (`OwningSpan`, `OwningElements`): the slots that hold one are those from the next
  to read to the next to write, of which one may have been emptied and not yet
  released, and one filled and not yet published; no element is in two slots, and
  what a producer is about to move is in none. `OwningAssumption` says of every
  capacity that can arise that the mask of the code is the remainder, which is so
  for powers of two; a limit that clamps to another number is excluded, as section
  6 says.
- `BulkInv`: the word is empty or names the staged payload; then that payload is
  the latest version, complete, and the consumer has acquired less. Nothing is
  said of the consumer's own payload, which the producer may overwrite
  (`bulk_held`).

**The index ring** (`IndexRingProofs`), for any set of threads and of payloads, any
number of cells, positions of any width that `RingAssumption` admits, and from any
laps done before (`Origin`), so that the positions wrap anywhere: `RingIsSafe`,
`RingIsClaimRing` (the refinement of `ClaimRing`, on which the arena is built)
and `RingRefusesJustly` (a call is refused only if there was an instant in it at
which it could not be admitted). The code compares sequences and positions as
signed differences of words that come round. The invariant is stated in numbers
that do not, the distances from `Origin`:

    IInv == TypeOK /\ OrderInv /\ CellsInv /\ OwnersInv /\ CallersInv /\ CountInv

`CellsInv` says of each position of the present lap that its cell is being
filled, full, being emptied, or vacated for the next lap, by its sequence and by
the thread that has claimed it; `OwnersInv` that no two threads have one cell;
`CallersInv` that what a thread judges by is of the past and never of the
future; `CountInv` that the positions and the threads that may still move one
are no more than the calls begun. `RingAssumption` asks for a capacity that is a
power of two, as the class asserts, for positions of at least four laps, and for
fewer calls than it takes to come round to a position that a stalled thread
still has in its hands: the code has 2^32 of them and no other protection.

**Host pipeline** (`HostProofs`), for every number of epochs that
`ReleasedAssumption` admits, with failures and spurious returns anywhere:
`HostTypeCorrect`, `NoWorkerSleepsWithMail`, `AnswerIsAlwaysOnItsWay`,
`SuccessAlwaysMeansSaved` and `NothingEverDangles`. All follow from one invariant,

    IInv == TypeInv /\ LifeInv /\ PhaseInv /\ CountInv /\ SleepInv /\ ViewInv /\ SavedInv

- `TypeInv` has the shape of the state, with what each kind of message carries.
- `LifeInv` ties the host's place in its startup and shutdown to each package:
  which are created, which may still be running, and that what a thread has
  announced fits where it is.
- `PhaseInv` is the heart of it. The executive asks for one conversion; at each of
  its stages (the request, the load, the decoding, the encoding, the save, the
  answer) the request is in exactly one of the places it may be in, and all
  others are empty. `AnswerIsOnItsWay` and the matching of states and messages
  count places, so they follow from knowing which one is occupied.
- `CountInv` bounds the pokes a worker has had by the stage of the conversion, so
  that the epoch it fell asleep on cannot have come round: this is where
  `ReleasedAssumption` (more epochs than pokes) is used.
- `SleepInv` says that a sleeper which has mail, or has been asked to exit, is owed
  a poke or a wake-up by the host, which is between its post and its wake.
- `ViewInv` keeps the assets of a job in the repository until its worker has
  answered, and `SavedInv` relates the report of a success to the file written.

`ThreadsAssumption` says that the threads are the two workers and the
executive, as `start_threads()` has them.

**Synchronisation objects** (`SyncProofs`), for any finite set of threads and of
strangers, any sentinel above the permits, and any bound on the number of calls
(`PartsAssumption`): `CountsAreAlwaysExact`, `NobodyEverSleepsPastIt`,
`LockIsAlwaysExclusive`, `ThreadsAlwaysRunTheirEntry` and
`IncidentsAreAlwaysConsistent`, the five invariants of run `sync`. `SyncInv` is
the inductive invariant of whichever object moves:

- `SemaphoreInv` and `WordSemaphoreInv`: a permit that a thread is about to take
  was seen, and there was room for each one about to be added. While someone
  sleeps on the word there are no more permits than takers awake and wake-ups
  under way. Both sides are cardinalities, so that every step is a case of adding
  one thread to a finite set or removing one, by two lemmas.
- `PredicateInv`: the word is the sentinel exactly when control is released, and
  a sleeper saw the present word unless the thread that changed it has yet to
  wake it.
- `LockInv`: the native lock, the recorded owner and the owner gate describe one
  holder, the waiters are counted, and no holder is undone unless strangers call.
- `LifetimeInv`: a join token is kept until the thread has ended, no two starts
  share a piece of work, and the work of a thread that was not abandoned is held
  for it.
- `IncidentsInv`: numbers grow, requests are kept, the breakpoint context belongs
  to the thread that claimed it, and what a reader has gathered so far is of one
  incident as long as the incident it began with lasts.

The invariant `NobodySleepsPastIt` is about the native wait word, as in the run.
Run `sync` states its properties over `FairSpec`, which implies the `Spec` of the
theorems.

**The arena** (`ArenaProofs`), for any finite sets of producers and consumers,
any capacity, and with or without a `shutdown()` by a thread outside
(`ArenaAssumption`; the threads are finite in number because the count is of what
they hold): `SlotsAlwaysHaveOneOwner`, `CountIsAlwaysExact` and
`NoCloseIsEverMissed`, which are the arena's part of `SlotsHaveOneOwner`. The
invariant is

    ArenaInv == ArenaTypes /\ Places /\ CountIsOfBoth /\ NoMissedClose

- `Places` gives each index one place: waiting in the supplier, waiting in the
  populated ring, with one thread, or lost. A cell of a ring that is being filled
  or emptied names a thread that is at that step with that index, and no other
  (`RingsAgree`), so that a claim of one thread is never completed by another. Each
  step moves one index; the lemmas `OneMoves` and `EmptyMoves` say that
  the places of the others stay.
- `CountIsOfBoth`: the count is that of the indices counted, plus that of the
  `recycle()` calls that have pushed theirs and not yet uncounted it. It is what
  makes `outstanding` never wrap and zero mean that nothing is out.

**Debug service** (`DebugProofs`), for any finite set of threads that submit, any
capacity, any bound on the events and any number of epochs above the signals
(`EpochAssumption`, `ThreadsAssumption`): `NoSleepWithEvents` and
`AcceptedAreWritten`. `ServiceRunsTheArena` is step refinement: all that the
producers, the writer and the host do to the transport are steps of the arena, so
its theorems hold inside the service. The invariant is the arena's with
`ServiceInv`:

- `ControlAgrees` says where in the arena a thread is by where it is in the
  service.
- `EventsInv` says which slot has which event: one that a thread is submitting is
  in no slot but its own and in no log; one that waits for the writer was
  accepted; no event is in two slots, or in a slot and a log.
- `EpochIsBounded`: the epoch and the submissions that are still to signal are at
  most the events begun, and one for the stop; so it does not come round.
- `WriterIsTold`: from its look at the status to its sleep, what the writer has not
  seen has moved the epoch that it observed, or is still to be signalled.
- `ClosingDrains`: when the closing began with no call under way, nobody begins
  another, and the transport closes with nothing outstanding.

**Owners on their way** (`MemoryProofs`), for any components, contexts, types,
tables and transports, any number of owners and any capacity, with other
threads' storage in the same contexts: `OwnersAreAlwaysAccountedFor` and
`TransitIsAlwaysSafe`, of all behaviours of `MCMemory`. The invariant is

    TransitInv == TransitTypeOK /\ TablesInv /\ HoldersInv /\ PostingInv
                  /\ OrderInv /\ PodsInv /\ OwnersAreAccountedFor

- `HoldersInv`: whoever holds an owner has a table with which it can destroy it,
  the destination already while the owner is in the ring. It is what keeps
  storage from being stranded.
- `PostingInv`: an owner is attributed to the transport's context before it is in
  the ring, and has one source; a post that is refused gives it back.
- `OrderInv`: owners are in the order of their values, which makes them
  distinct, without which one could not count their storage. `Held` is that count,
  as cardinalities; `HeldWith` and the lemmas after it say what one owner more or
  less makes of it.
- `PodsInv`: a plain message carries what was assigned and nothing behind it.

`TransportAssumption` has `None` apart from everything, and `SetupsAssumption` the
shape of what a transport is initialised with. `ViewsAssumption` says that valid
tables of two modules agree on the types that are not local to one: all are
built from the same generated list of system types.

**Contexts under threads** (`MemoryProofs`), for any number of threads, contexts
and blocks, any sizes and any ceilings: `AccountsAlwaysAgree`. Neither word is
exact while calls are under way, and the two are inexact at different times.
`ContextInv` says what each is at every instant: the count is the number of
blocks that a thread has, without the one it has uncounted and with the one it
has counted in advance (`Counted`), and the bytes those of the blocks by the
same rule at other steps (`Measured`). Each is the cardinality of a set to which
a step adds one block or from which it removes one (`CountStep`, `BytesStep`);
`ThreadMoves` is the one place where this meets the invariant, and each action
is an instance of it. That no subtraction finds too little follows from the
membership of the block that the call is about.

**Views and ids** (`MemoryProofs`). `ViewsAlwaysLieWithin`: for storage and
elements of any size, a view cut from another, however often, begins on one of
its elements and ends within it. `FieldIdsComeBack`, `SystemIdsComeApart` and
`TypeIdsKeepTheirCategory`: for every index, and fields of any width and place,
an id that is valid is that of one index, which comes back from it; the id of a
system comes apart into the thread, module and mount point it was made of; a
type id has one category, and is refused as one of the other.

TLC has checked each of these inductive invariants as an invariant of the
instance of its run.

**Only model-checked**, because the provers cannot do it:
- Liveness (`PublishedIsAccepted`, `ClosingCompletes`, `EngineAndShutdownEnd`,
  `EventsAndStopsComplete`, `WaitsEnd`): fairness and `ENABLED`.
- `AllIntegrityHolds`, `AllQueriesAgree`, `ContentsAreKept`: trees and linked lists,
  walked by recursive functions; what these compute needs induction over the data.
- `IdsKeepStrings` (binary search, and folds over vectors that may fail to grow),
  `SequencesAreKept` (the rotation in place is a fold over cycles
  of recursive functions).
- `IntegrityIsKept`, `CursorsAreExact`, `BakingKeepsTheTree`, `BlocksAreTrees`: the
  tree is built and compared by folds.
- `TokensAreSound`: the storage of a token grows and shrinks by folds over its
  buffers.
- `SizesAreSound`, but for its parts above: powers of two with a variable exponent,
  folds over digits and bitwise operators, of which the provers know nothing.

## 6. Where code and documentation differ

Shown by a run, listed under `findings`:

- `bulk_held`: after a publication that finds the consumer has taken the
  previous one, the producer's payload is the one the consumer holds.
- `debug_drained`: `recycle()` lowers the count to zero in one step and closes the
  transport in another. If an event is submitted and the closing begins between
  the two, the transport closes over that event: the writer stops, `stop()`
  returns true, and the event is never written, although no producer was active.
- `swap_insert`: with more elements than follow the place, the elements moved
  away are overwritten by those inserted.
- `thread_close`: `close_handle()` clears the entry point that the new thread has
  yet to read, so that the thread returns without running it.

Stated as a definition in its module, without a run of its own; each is violated
by a short behaviour:

- `QuiescentQueueValidates` (`TQueueTransport.hpp:641`): `validate()`, described
  at line 118 as safe to call while quiescent, refuses a healthy queue whose
  consumer reads the staged buffer.
- `TOwning` (`TOwningTransport.hpp:288`): a capacity rounded up to a power of two
  and then clamped to the memory ceiling is no power of two, but the index mask
  takes it for one. `OwningAssumption` keeps the runs and the theorems to
  capacities for which the mask is right.
- `ClosedIsDrained` (`TMpmcTransport.hpp:546`): a reservation is counted only
  after its pop; the arena may close in between.
- `CompletionIsAdmitted` (`TMpmcTransport.hpp:592`): a recycle may find the cell
  of a stalled reserve, fail, and lose the index.
- `EnsuredAppendSucceeds` (`StringBuffers.hpp:957` against 1332): an append after
  a successful reservation may fail.

Met while reading:

*Transports, host, debug service*
- The debug service's `stop()` joins for ever when the arena has lost an index,
  as the count then never returns to zero.
- A direct write after `stop()` opens the direct log again without appending
  (`core/debug/service.cpp:739`), which truncates what it held.
- If `start()` fails, the service stays installed, and submissions are accepted
  into a transport that nobody drains (`host/runtime/host.cpp:76-79`).
- A reader of the breakpoint context that overlaps the end of one incident and the
  beginning of the next may be given fields of both (`service.cpp:632-651`).
- `TQueue::post()` is described as all-or-nothing (`TQueueTransport.hpp:24`),
  but a failed allocation at line 382 returns false after the items became
  visible.
- A fixed queue whose consumer has drained it may go on refusing (line 660,
  against `docs/threading/transports/TQueueTransport.md:290`): the producer learns
  of consumption only by an exchange that it will not reach.
- `TBulk`: the phase bit that keeps the first `publish()` from reporting an
  acquisition (lines 100-101) is lost when the consumer polls first (line 210).
- `TMpmcArenaTransport::shutdown()` overwrites `closed` (line 502), which the
  documentation calls terminal (`TMpmcTransport.md:105`).
- `CThreadPackage::shutdown()` stores the success of the join in `created`
  (`CThreadPackage.cpp:122`), so that the transports are deallocated when the
  join failed and kept when it succeeded.
- The host ignores that its answer to the executive was refused, and a worker
  that its answer was; the executive then polls for ever. `lost` marks these
  behaviours in the model.

*Synchronisation*
- On the fallback backend, a thread that took its ticket before a release may
  block on the gate after it: the generation is compared before the lock is
  taken (`CParkingGate.cpp:107-118`), and a permit then waits for the next
  release (`CCountingSemaphore.cpp:162-170`); likewise in `CWaitPredicate`. All
  supported platforms have the native backend, and `NobodySleepsPastIt` is about
  that one.
- A stranger's `release()` of an exclusive lock holds the owner gate for a moment
  (`exclusive_lock.cpp:111,177`), in which the owner's own call may find it taken.

*Memory and containers*
- After a growth of which only the last allocation fails, a collection or a
  container over slots no longer passes its own `check_integrity()`, which asserts
  in debug builds: `on_reserve_empty()` has enlarged the arrays
  (`TPodOrderedSlots.hpp:175-180`; `TOrderedCollection.hpp:196`) before the slots
  are (`TOrderedSlots.hpp:778-781`), and `is_valid()` wants the sizes equal
  (`TPodOrderedSlots.hpp:245-250`, `TOrderedCollection.hpp:291-299`,
  `TUnorderedCollection.hpp:247-252`). A later growth that succeeds repairs it;
  until then searches, contents and links are sound. `TOrderedSlots.md:176-178` and
  `TUnorderedSlots.md:128-130` call a reserve that is not transactional across the
  layers established, which is why it is told here and is no finding; neither says
  that the check fails.
- `memory_context.hpp:384`: the undoing of the second account stands in an
  assertion that release builds compile out.
- `read()` of an erased transport leaves the owner in the transport's context
  when that of the recipient is full.
- `CStableStrings::initialise` on a live table pushes a second sentinel; strings
  longer than the byte ceiling compare as empty; `sort()` reserves exactly, and
  the appends that follow grow by the policy.
- `CByteBuffer::reserve` and `ensure_free` may reallocate although there is room.

*Spatial codes* (which nothing in the repository calls or tests)
- `morton_to_hilbert_3d_auto` and its inverse infer their levels from the index of
  the highest bit as if it were the width (`spatial_codes.hpp:532`, 598). A code of
  10, 19 or 28 bits loses its highest level, so that codes 511 and 512 are not
  neighbours; the code 1 gives no level, and the loop starts at a block of -3; one
  of more than 28 bits shifts by 33. `AutoInfersLevels` states what the comment at
  line 88 says; it is violated at once.
- `morton_to_hilbert_2d_auto` shifts codes of more than 30 bits by 34 (line 443).

*Ids*
- `system_ids::ops::is_valid_id` (`system_ids.hpp:667`) asks for a bit of the
  module and the mount point together, so that it accepts an id that lacks one of
  them; `module_ids::ops::is_valid_id` asks for both.

*Data model*
- The registry of a document is such a container: after a `create_node()` refused by
  a growth that failed half-way, `check_integrity()` of the document
  (`live_document.cpp:434`) fails and it cannot be baked, although memory may be
  there again, until another node makes the registry grow.
- `create_string()` interns its string before it finds that the document is not
  ready (lines 127 and 87).
- Nothing refuses to attach a container below itself; the cycle is then
  unreachable from the root, and its nodes are erased only with the document.
- Cursors of an earlier life of a document may match after it was initialised
  again, as `docs/backlog/live_dom_design.md` notes; the revision is a 32-bit
  count that wraps.
- A moved-from builder keeps its root and counts.
- `validate()` passes blocks with nodes that no parent lists, with duplicate
  names, and with the string id 0; it does not check the recovered flag.

## 7. What is not modelled

- **Whole-container moves and clones**: they copy or swap all members.
- **An allocator that refuses to take back its own block** (`memory_context.hpp:352-358`):
  the one there is (`host_context.cpp:52-62`) refuses no pointer but the null one.
- **Module binding, registries and system contexts, host context**: loading a library
  and exchanging tables of functions, or tables that are built once and then
  read; no state interleaves. What owners need of the tables is in
  `ErasedTransport`.
- **Immediate reports and the panic record** of the debug service: direct writes
  without a fallback. **Event arguments, paths of logs**: formatting.
- **TGA, half floats, bit fields**: what could be wrong is in values of bytes
  or floating-point numbers, beyond the inputs TLC can enumerate.
- **Calls of the operating system** (files, counters, priorities): modelled by
  their success or failure where a caller decides by it.
- **`CSimpleString` and views of single strings**, the asset repository's
  `compact()`.
- **The text linter and the policy validator**: tools beside the engine.
