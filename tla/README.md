# A TLA+ verification of libfibconcurrent

libfibconcurrent is a C library of lock-free data structures: rings, queues,
stacks, a work-stealing deque, and the hazard pointers some of them need. It has
no threads of its own; every structure is shared memory that the callers'
threads operate on. What makes it correct is which word is read, checked and
written in which order, so the modules here are state machines with (almost
always) one action per access to a word that another thread writes.

## 1. Inventory

| Component | State | Operations | Hard behaviour | What makes it correct |
|---|---|---|---|---|
| `lockfree_ring_buffer.h` | tickets `high`, `low`; `buffer[]`, NULL = unwritten | create, trypush, push, trypop, pop, size | the claim (CAS on a ticket) precedes the store to the slot; decisions on stale tickets; laps | FIFO order, one owner per slot, bounded size, nobody spins for ever |
| `fifo_steal_buffer.h` | `high`, `low`, `buffer[]` | init, create, push, pop (master), steal (thieves) | the master moves `low` by fetch-and-add before it knows whether an item is left | each item returned once, FIFO, the last item not lost |
| sharded `fifo_steal_buffer.h` | shards, two cursors | create, push, pop, steal | address arithmetic of the shards: headers that are never written; ABORT of one shard among many | an EMPTY that hides nothing, whatever the headers hold; thieves that empty all shards |
| `work_stealing_deque.c` | `top`, `bottom`, `underlying_array` | push_bottom, push_bottom_autogrow, grow, pop_bottom, steal, size | Chase-Lev race for the last item, x86 store buffering, growing under thieves | each item taken once, none lost, LIFO for the owner, FIFO for thieves |
| `hazard_pointer.h/.c` | list of thread records: announcements, retired list, threshold, plist | create_and_push, using, done_using, free, scan, destroy, destroy_all | visibility of an announcement before the check; registrations that overlap each other and scans | no node freed while announced and checked; none leaked; bounded retired lists |
| `mpmc_fifo.h` (over hazard pointers) | `head`, `tail`, nodes | init, push, trypop, destroy | link after the CAS, recycled addresses, two announcements | FIFO, no use after free |
| `mpsc_fifo.h` | `head`, `tail`, nodes | init, push, peek, trypop, destroy | link after the exchange; trypop returns another node than the one that brought the data | FIFO, node ownership |
| `work_queue.c` (over `mpsc_fifo.h`) | `in_count`, `out_count` | init, push, get_work, destroy | handing over the worker role without a lock | one worker at a time, no work without a worker |
| `mpmc_lifo.h` | counter and head, double-word CAS | init, push, pop, destroy | ABA; counter and head are two loads | each node in one place |
| `dist_fifo.h` | counted head, tail | init, push (one thread), trypop, destroy | nodes recycled under a reader, also through a lifo | FIFO, every item popped |
| `mpmc_stack.h` | head | init, push, flush, reverse, timeouts | ABA without a counter, `tries` at 0 | every node flushed once, in order; timeouts end |
| `spsc_fifo.h`, `mpsc_relaxed_fifo.h` | head, tail; one per producer, a cursor | create, push, trypop, destroy | link after the data; creation that fails half-way; round robin while others push | FIFO per producer, nobody starves, nothing leaks |
| `queuedef.c` | none | sizes and error codes | 0, 1 and the last code | masks of valid sizes are remainders |
| `machine_specific.h`, `arch.h` | none | barriers, CAS2 | `store_load_barrier` is empty for ARCH_x86_64 | the order its comment promises |

Components interact by calls inside one thread: `mpmc_fifo` calls the hazard
pointers, `work_queue` calls `mpsc_fifo`, `mpsc_relaxed_fifo` calls `spsc_fifo`,
`mpmc_lifo` and `dist_fifo` reuse `mpsc_fifo`'s node type. Threads interact only
through the shared words. There is no blocking, no I/O, nothing persistent, and
no timeout but the retry counters of `mpmc_stack.h`.

## 2. Modules

| Module | Models | Kind |
|---|---|---|
| `LockfreeRingBuffer` | `lockfree_ring_buffer.h` | component |
| `BoundedFifo` | what the ring promises | abstract specification |
| `LockfreeRingBufferProofs` | | theorems about the ring, with its refinement |
| `FifoStealBuffer` | `fifo_steal_buffer.h`, one buffer | component |
| `StealBuffer` | what one buffer promises | abstract specification |
| `FifoStealBufferProofs` | | theorems about the steal buffer, with its refinement, and about the sharded buffer |
| `ShardedFifoStealBuffer` | `fifo_steal_buffer.h`, the sharded buffer | component |
| `WorkStealingDeque` | `work_stealing_deque.c/.h` | component |
| `WorkStealingDequeProofs` | | theorems about the deque with a fence |
| `HazardPointer` | `hazard_pointer.h/.c`: announcing, retiring, scanning | operations, no `Next` of its own |
| `HazardRecords` | `hazard_pointer.c`: registering and destroying records, with a minimal client | component over `HazardPointer` |
| `HazardRecordsProofs` | | theorems about `hazard_pointer.c` under that client |
| `MpmcFifo` | `mpmc_fifo.h` | composition over `HazardPointer` |
| `MpmcFifoProofs` | | theorems about the fifo and its hazard pointers |
| `MpscFifo` | `mpsc_fifo.h` | operations |
| `WorkQueue` | `work_queue.c` | composition over `MpscFifo` |
| `WorkQueueProofs` | | theorems about the queues with one consumer: the work queue with the `mpsc_fifo` under it, and the relaxed fifo with its `spsc_fifo`s |
| `MpmcLifo` | `mpmc_lifo.h` | operations |
| `DistFifo` | `dist_fifo.h` | composition with `MpmcLifo`, whose nodes it shares |
| `DistFifoProofs` | | theorems about both |
| `SpscFifo` | `spsc_fifo.h` | operations |
| `MpscRelaxedFifo` | `mpsc_relaxed_fifo.h` | composition over `SpscFifo` |
| `MpmcStack` | `mpmc_stack.h` | component |
| `MpmcStackProofs` | | theorems about the stack |
| `QueueDef` | `queuedef.c` | pure operators and assumptions on them |
| `MC*` | | instances for TLC |

### State and actions

Every module keeps the fields of the C structs as variables of the same names,
each thread's place in the code in `pc` (or `o_pc`, `t_pc`), the locals that live
across two actions, and history variables (`pushed`, `popped`, `delivered`,
`taken`, `stolen`, `present`, `passed`, ...) that no guard of a modelled operation
reads except to make sure that a caller pushes each item once. A call returns by
resetting its locals. The comment above an action quotes the C it stands for;
PROJECT.json gives the lines. A definition `X_Something` directly before `X` is a
plausible bug in `X` that shows which property would catch it; no specification
uses it.

* **Ring.** `PushCall` and `PopCall` start a call, `spin` says whether it is the
  retrying `push`/`pop` or the `try` form. `TrypushReadLow`, `-ReadHigh`,
  `-ReadSlot`, `-CAS`, `-Store` are the five accesses of trypush, the `Trypop`
  actions those of trypop. The second look at `high` and `low` in push and pop
  only decides whether to call `cpu_relax` and has no action.
* **Steal buffer.** The master's `high` is read by others and written by it
  alone, so its own reads need no step. `PopAdd` is the fetch-and-add together
  with the recheck of the value it returned; `PopRestore` is the plain store that
  follows. `out` is the caller's word: `StealReadSlot` writes it before the CAS.
* **Sharded steal buffer.** `Word` and `ShardAt` are the two address computations:
  `create` writes headers at consecutive `fifo_steal_buffer_t`s, `get_shard` looks
  for them `memory_per_shard` apart. The words of a header that `create` does not reach
  hold any of `Unwritten`, chosen once in `Init`, as `malloc` leaves them. A shard is
  its header; what is in its slots is left out, so items are tickets. An access past the
  last slot of a shard whose `mod` is too large (`Strays`) is undefined behaviour, and
  the model says nothing of what follows (`Undefined`). A push and a pop of one shard are
  one action each, which `ImplementsStealBuffer` shows of `FifoStealBuffer`; a steal
  keeps its accesses apart, so that aborts happen where they do in the code.
* **Deque.** The owner's stores go through `sb`; `Flush` writes the oldest to
  memory. An owner action is the code from one load of `top` to the next. Arrays
  are numbered by how often they have grown, array k having `TwoTo[InitLog + k]`
  cells; an old array stays readable. A buffered store to a cell keeps the array
  and the index the push was made with.
  The size check of push and grow is made when `top` is read; thieves can only
  make room afterwards.
* **Hazard pointers.** `Announce` appends stores to the thread's buffer `hsb`;
  `BarrierPassed` is `store_load_barrier`; a locked instruction waits for the
  buffer (`Drained`). A scan takes the head of the list (`ScanHead`), then the
  head's threshold (`ScanAlloc`), then one hazard pointer per step (`ScanRead`),
  and sorts, searches and reclaims in one (`ScanReclaim`), which only touches the
  thread's own data. `Qsort` is what `qsort` promises, a permutation in ascending
  order; `Search` is the code's `binary_search` between `start` and `end`.
  `HazardRecords` adds
  create_and_push (`RegisterRead`, `RegisterCAS`, one `RegisterRaise` per older
  record), destroy_all (`DestroyRecord`, one record at a time) and the least client
  the header describes: a shared pointer that threads announce, check, use,
  replace and retire.
* **mpmc_fifo.** A reclaimed node is `free` and may be pushed again by anyone, so
  addresses do come back. A node that is popped while another thread reads it
  keeps its fields until it is pushed again. `DestroyCall` and `DestroyNode` are
  mpmc_fifo_destroy, with the scans it runs into.
* **mpsc_fifo and work_queue.** `PushExchange` and `PushLink` are the two halves
  of a push; what the single consumer does in trypop is one step, since `next` of
  the head is the only word it shares. `work_queue`'s actions are the accesses to
  `in_count` and `out_count` and the fifo's operations between them.
* **mpmc_lifo and dist_fifo.** Both keep a counter beside a pointer, read the two
  words in two loads and change both with `compare_and_swap2` (`CAS2Succeeds`).
  Every node can be in either structure and in a caller's hands, in any order; its
  `next` keeps whatever the last owner wrote. In `dist_fifo_trypop` the write of the
  data into the old head is part of the CAS action: the node is the caller's by
  then, and stale readers look at `next` only, or lose their CAS.
* **spsc_fifo and mpsc_relaxed_fifo.** A push is everything before its last store,
  then that store. The consumer visits one producer's fifo per step. `calloc` gives
  any free node, all being alike; `CreateFails` is its failure at any index.
* **mpmc_stack.** One action per access to `head`. `given` and `tries` are the
  argument and the counter of push_timeout; the flush timeouts are a flush when
  `tries > 0` and nothing otherwise. A caller walks what a flush returned before it
  uses the nodes again.

### Memory model

The target is x86: stores of a thread become visible in program order, loads are
not reordered, locked instructions drain the store buffer. The only reordering,
a load that passes an older store of the same thread, is modelled where the code
depends on it: the owner in `WorkStealingDeque` and the announcements in
`HazardPointer`, both with the constant `Fenced` saying whether
`store_load_barrier` is a fence. A thread reads its own pending stores: a scan sees
its own record with them (`HazardSeen`), those of the others without. In the ring the stores after the CAS are the
last thing a call does, and a later load of the same thread that passes one only
sees older tickets, which is what another interleaving gives; the steal buffer's
master loads `low` after its stores either conservatively (push) or followed by a
locked instruction (pop); in the linked queues the delayed link is the link action
taken later; the lifo and the stack make their changes with locked instructions.
These are modelled as sequentially consistent.

Memory allocation that fails is modelled where the code has a path for it that
leaves something to undo or to go on with (growing the deque, creating an
mpsc_relaxed_fifo). Tickets and ABA counters are unbounded naturals: the invariants
keep every subtraction non-negative and 2^63 operations are out of reach. Counters
that wrap within reach of an argument keep their width as a constant: `tries`
(`TriesModulus`), the cursor of mpsc_relaxed_fifo (`CounterModulus`), a thief's
`hint` (`UintModulus`).

## 3. Runs

| Run | Instance | Shows |
|---|---|---|
| `ring` | 2 producers, 1 consumer, 1 observer, 2 slots, 3 items | `IInv`, `FifoOrder`, `SlotOwnership`, `SizeNeverOver`, `ImplementsFifo`, `AllDelivered` |
| `steal` | master, 2 thieves, 2 slots, 3 items | `IInv`, `DeliveredOnce`, `NoOvertaking`, `ImplementsStealBuffer`, `Drains` |
| `steal_lastitem` | master, 1 thief, 2 items | **violation** of `SomeOtherThreadStoleTheData` |
| `sharded` | master, 2 thieves, 2 shards of 4 slots, 2 pushes, the second header unwritten | `IInv`, `EmptyIsHonest`, `Drains` |
| `deque` | owner, 2 thieves, 3 items, arrays of 2 and 4, with a fence | `TakenOnce`, `DequeIntact` (`BottomAboveTop`, `NothingLost`, `StealsInPushOrder`), `OwnerTakesNewest`, `Drains` |
| `deque_unfenced` | owner, 1 thief, 2 items, no fence | **violation** of `TakenOnce` |
| `hazard_records` | 3 threads with one hazard pointer each, 3 nodes, with a fence, symmetry of the threads | `UsedNotFreed`, `ThresholdsCorrect` (`HeadThresholdCorrect`, `ThresholdsSettle`), `ListsBounded` (`PlistFits`, `RetiredBounded`), `AllGivenBack` |
| `mpmc` | 2 threads, 3 nodes, 2 items, with a fence | `NoUseAfterFree`, `FifoOrder`, `NodesIntact` (`NodesConserved`), `AllPopped` |
| `workqueue` | 3 threads, 4 nodes, 3 items | `WorkerRole` (`SingleWorker`, `WorkHasWorker`, `CountsAgree`), `FifoOrder`, `NodesInOrder` (`OwnedNodesUnused`, `EmptyIsHonest`), `AllProcessed` |
| `dist` | 2 threads, 3 nodes, 2 items, 5 changes of the lifo | `FifoOrder`, `NodesIntact` (`EachNodeInOnePlace`, `FifoIntact`), `AllPopped` |
| `mpscr` | 2 producers, 4 nodes, 2 items pushed again and again, a counter of 5 values | `NodesIntact` (`NodesConserved`), `RoundRobin` (`EmptyIsHonest`, `OneRound`), `PopsInOrder`, `NobodyStarves` |
| `stack` | 2 threads, 3 nodes pushed again and again, tries 0 to 2 | `ListsIntact` (`ListIntact`, `FlushOrder`), `TriesHonoured`, `PushTimeoutReturns` |

A property in brackets is a conjunct of the invariant before it. Every module's type
invariant is checked too, as the first conjunct of its structural invariant (`IInv`,
`DequeIntact`, `NodesIntact`, `ThresholdsCorrect`, `WorkerRole`, `ListsIntact`). `ring`
also evaluates the assumptions of `QueueDef`: its `Size` is one that `queue_size_is_valid` accepts.

**Bounds.** Where each item is pushed once, `Items` bounds the run; `mpscr` and
`stack` recycle for ever and are finite without a bound. With two slots
the third item starts the second lap, the least at which a stale ticket and a
reused slot can meet. `MaxGrow` and `StoreBufferSize` bound the deque's arrays and
store buffer: 3 stores are what one push that grows makes at once, so a push and the
pop after it overlap in the buffer. `InitLog` is 1 where the code starts at 8, so
that the second item makes the array grow. Hazard pointers: three nodes and two
items are enough for a node to be retired, given back and pushed again while
another thread still holds its address (with `Fenced = FALSE`, and with the
bug in `PopCheckAgain_Omitted`, `NoUseAfterFree` fails at these bounds). In
`hazard_records` three threads are the least for two overlapping registrations to
raise the threshold of a third; with K = 1 the first one's threshold is 2, which
three nodes reach. In `dist` the third node lets one go round through the lifo while
a popper holds its address, and `MaxCounter` only stops new calls on the lifo: five
changes are two nodes pushed, popped and one pushed again. `TriesModulus = 4` is the
least power of two above the tries passed at which a wrap of `tries = 0` is told from
`tries = 2`. `CounterModulus = 5` lets the cursor of
`mpscr` wrap in the middle of a round: two producers do not divide 5, as the three of
`mpscr_test.c` do not divide 2^64. Traces exist in which a trypop returns NULL over an
item in the skipped fifo and in which a fifo waits for more than a round. For three
producers and more there is the proof.
In `sharded` all headers that `create` writes fall into the first shard, as in the scale
test, and the second shard's words are 21 or 24, each as `high`, as `low`, and as size
and mask (1 and 4, or 4 and 4 with words of 25 values). So it may start with three
tickets, empty, or with `high` below `low`; `high` is so near the end that it wraps
when something is pushed; and with mask 4 and four slots an access can stray. `MaxPushes`
is one push for each shard. Other contents are left to the proof, which is for any.

**Reductions.** Items are interchangeable. `ring` and `deque` check liveness, which
symmetry does not preserve; the action constraint `InOrder` lets a push take
only the first item that is left, so of all behaviours that differ by a renaming of
the items one is explored. Whenever some push is possible, the one `InOrder` allows
is, so it disables no fair action. `hazard_records` checks safety only and uses
symmetry of the threads; nodes are not interchangeable there, since a scan sorts
their addresses. The other runs use no reduction.

**Deadlock** is checked except where the structure is destroyed at the end of its
life (`mpmc`, `hazard_records`, `dist`).

**Fairness.** The operating system runs every thread: weak fairness of each
thread's steps inside a call. Where a property needs somebody to call again
(consumers, thieves), the fairness of the call is what the tests' loops do; the
master, the owner and the pushers never have to call again. `AllPopped` of
`MpmcFifo` and of `DistFifo` uses strong fairness of the call of trypop, because a
thread that also pushes and scans makes that call possible only now and then; both
allow the fifo to be destroyed instead. `NobodyStarves` assumes nothing of the
producers but that a push that has begun ends. `PushTimeoutReturns` needs only that
the thread itself keeps going. Liveness is that of a fair
scheduler: a thread stopped for ever between a claim and its store does stop the
others, so the structures are not lock-free in the strict sense, and no property
claims it. Stores leave the store buffers in the end.

## 4. What the violations and the modelling show

1. `fifo_steal_buffer_pop` loses the last item (run `steal_lastitem`): `new_low >=
   high` holds after the master's own add. `Accounting` in the inductive invariant is
   exact about it: every ticket below `low` is delivered once or was dropped by a pop.
   `StealBuffer` therefore has a `Drop` step.
2. `store_load_barrier` is empty for `ARCH_x86_64` (run `deque_unfenced`). On that
   target the deque hands an item out twice; `NoUseAfterFree` of `MpmcFifo` fails as
   well with `Fenced = FALSE`. With `Fenced = TRUE` (the `ARCH_x86` branch) deque,
   hazard pointers and fifo have all their properties.

Met while modelling, and left as they are in the model:

* `fifo_steal_buffer_steal` dirties `*out` on ABORT, and the scale test takes a
  non-NULL word as a stolen item (`fifo_steal_scale_test.c:115`).
* `sharded_fifo_steal_buffer_create` initialises `&shards[i]`, which is not where
  `get_shard` looks: the headers of the shards from 1 on are words of `malloc`'ed
  memory that nobody has written. Where they are zero these shards have size 0 and refuse
  every push (`Room`), so the buffer has the capacity of one shard, although the scale test
  asserts that no push is refused (`sharded_fifo_steal_scale_test.c:98`). Otherwise such a
  shard may hold tickets of items that nobody has pushed, or lead past the end of its
  slots. No property takes these shards to be usable: `EmptyIsHonest` and `Drains`
  hold for whatever the words contain, up to an access that strays.
* `mpmc_fifo_trypop` can return empty with hazard pointer 1 set by an earlier
  iteration; the node it names is reclaimed only after the thread's next pop.
* `dist_fifo_trypop` may report EMPTY although items are there, when the head it
  looks at was popped and is being pushed again. `AllPopped` shows that the items
  are not lost.
* `mpmc_stack_push_timeout` with `tries = 0` makes 2^64 attempts, while the flush
  timeouts with 0 make none.
* The cursor of `mpscr_fifo_trypop` jumps back to the first producer when the counter
  wraps, unless the number of producers divides 2^64. Until it has come to a producer
  it skipped, that one may wait longer than a round, and a NULL may hide its item
  (`Skipped` in `RoundRobin` says exactly when).
* `size_to_power_of_2` returns 1 for 0 and 1, where `queuedef.h` says "if size lower
  than 2, return always 2".

## 5. Proofs

Every safety property of the passing runs, action properties and refinements
included, is proved for every value of the constants. What is assumed of
them are the assumptions the modules state: a size is a positive natural, `NULL`
and `Garbage` are not items or nodes, the threads are finitely many, node addresses
are naturals; where a theorem needs a real `store_load_barrier` it says
`ASSUME Fenced`. Hardly a property of the runs is inductive as it stands: the
invariants below strengthen them, and TLC checked each on small instances before it
was proved.

The sharded buffer and the relaxed fifo are proved in the modules of the components
whose state machines theirs resemble, as instances (`Sharded`, `Relaxed`) over
variables declared there. An instance does not bring its module's assumptions with it,
so these theorems name them: `ShardsAssumed`, `RelaxedAssumed`.

**Ring** (`LockfreeRingBufferProofs`). `FifoOrder` is
not inductive: that a pop returns its ticket's item depends on what the slot held when
the thread looked. `IInv` adds

* `LocalsInv`: the tickets a thread has read may be stale, never ahead, and in
  the order in which it read them; so a push that passes the room test and then
  wins its CAS claims within one lap of the *current* `low`;
* `SlotsInv`: a live slot is unwritten or holds its own ticket's item;
* `TestsInv`: if the CAS would still succeed, the slot is as the thread saw it:
  a stale look can only go with a failing CAS;
* `OwnersInv`, `TicketsDistinct`: between claim and store a thread owns its slot,
  and for a pop `high` stays within the lap, so no push can pass it.

There is one lemma per kind of step (`FailInv`, `ReadInv`, `TestInv`,
`PushClaimInv`, `PopClaimInv`, `PushStoreInv`, `PopClearInv`). The slot
arithmetic (`IndexDistinct`, `IndexLap`) rests on `ModDistinct`: tickets less than
`Size` apart have different remainders. Theorems:
`Invariant`, `TypeCorrect`, `TicketsCorrect`, `FifoCorrect`, `OwnershipCorrect`,
`SizeCorrect`, and `Refinement`, `Spec => ImplementsFifo`: the abstract queue is the
part of `pushed` that is not yet in `popped`; a push takes effect at its CAS on
`high`, a pop at its CAS on `low`, and all other steps stutter.

**Steal buffer** (`FifoStealBufferProofs`). `IInv` says where each ticket is:
`SlotsInv` for those in the buffer, `ThievesInv` for what a thief's stale locals are
still worth (if its CAS would succeed, it has read the right item), `MasterInv` for
what the master may rely on at each point, `Accounting` for the tickets that are gone.
From it follow `DeliveredOnceCorrect`, `TicketsCorrect` and, as an action property,
`FifoCorrect`. `Refinement` is `Spec => ImplementsStealBuffer`: a push takes effect
when it stores `high`, a steal at its CAS, a pop at its fetch-and-add, where it is a
`Take` or, if the recheck fails, a `Drop` of the last item; the ticket a pop has
taken too many, until `PopRestore` gives it back, is hidden by `AbstractLow`. That is
what lets `ShardedFifoStealBuffer` take the push and the pop of a shard as one step.

**Sharded buffer** (`FifoStealBufferProofs`, second part). The words that `create` leaves
alone may hold anything that fits into them: the invariant knows no more of a shard than
that its fields have their types (`HeaderType`). What makes an EMPTY honest is a
statement about the whole of a call: `StealInv` says that as long as a thief's
`final_ret` is EMPTY, each shard is still to be visited (`ToVisit`, round the end of
the array from its hint), or what was in it at the call is gone (`Gone`); an abort ends
that, as it sets `final_ret`. `PopInv` says the same of the master's round. That a ticket,
once gone, does not come back is not obvious for a header nobody has written: `high` may
wrap, or be below `low`. `PresentUpTo` has the two cases: `high` is still at least what
it was, or it is below `low` for good (`Lost`), since a push raises `high` by one at a
time and is refused when that would catch up (`PushLater`).
`HintsAssumption` is needed: with a hint whose end wraps the loop visits nothing.
Theorems: `ShardsInvariant`, `EmptyAnswersCorrect`.

**Work queue** (`WorkQueueProofs`). The fifo's part, `FifoInv`, says that some function
`c` lists the nodes from head to tail (`Chain`): all different, none in a caller's
hands, each carrying the item of its place in `pushed`, each linked to the next unless
a push that has exchanged the tail has yet to link it, and then that push knows both.
The counters' part, `CountsInv`, says what `in_count` counts at each point of the
hand-over: the items on their way in, those in the fifo and those the worker has
taken but not subtracted; `RoleInv` says that it is zero exactly when nobody works, so
the push that moves it from 0 is the one that becomes the worker. Theorems:
`WorkerRoleCorrect`, `FifoCorrect`, `NodesCorrect`.

**Deque** (`WorkStealingDequeProofs`, with a fence). The indices alone do not say what a
cell holds, since thieves may read from any array the owner has left behind and the
owner's stores are still on their way. `IInv` says that there is a function `pos` from
the indices in the deque to the pushes that are there (`DequeHolds`), that every
array from the one in memory to the owner's has the published items (`ArraysHold`), and
what a thief whose CAS would succeed has read (`ThievesHold`). `BufferInv` and
`OrderInv` are about the store buffer: a cell is followed by all newer ones and by the
`bottom` that publishes it, and reaches an array before the thieves do; `IndicesInv`
has what the fence gives: in the race for the last item the buffer is empty and
`bottom` is visible. Theorems: `TakenOnceCorrect`, `DequeCorrect` and, as an action
property, `OwnerTakesNewestCorrect`.

**Hazard records** (`HazardRecordsProofs`). Records are numbered in the order of
registration (`Rec`), which later pushes do not change.

* `RecordsInv`, `ThresholdInv`: a thread that is raising thresholds has the oldest
  records before it, and the d-th record's threshold counts d and the later
  registrations that have raised it (`Raised`). The newest has nobody to wait for,
  which is why the head's threshold is right although registrations overlap.
* `ScanInv`: until a scan takes its size from the head it saw, it walks the M oldest
  records (`WalkOf`), and that head's threshold is never below M; what it has
  collected and has still to read is at most N * K. `PlistFits` and `RetiredBounded`
  follow with the step.
* `NodesInv`: every node is free, the client's, or on one thread's retired list.
* `AnnouncedInv`: what a thread has announced last, visible or not, is the node it
  holds; a drained thread without a node announces nothing, so `destroy_all` frees all.
* `UsedInv`, with the fence only: a node in use is announced to all, and every scan by
  a thread that has retired it has collected it or has still to read it. A scan that
  started before the user registered is no exception: the node was not retired then,
  and a thread retires nothing while it scans.

`HazardousIsMembership` proves the sorted search against its purpose, for plists of
every length: `binary_search` finds a node exactly when it was collected
(`SearchCorrect`, by well-founded induction on the width of the range; `OrderExists`
shows that there is something for `Qsort` to choose). `Invariant` holds with and
without the fence; `ThresholdsCorrectAlways`, `ListsBoundedAlways` and
`AllGivenBackCorrect` therefore hold on every target, `UsedNotFreedCorrect` assumes
`Fenced`.

**Mpmc fifo** (`MpmcFifoProofs`, with a fence). Nodes are recycled, so positions, not
addresses, tell the pushes apart: `Queue` says that there are a function `c` and a number
`lo` such that the fifo is `c[lo] .. c[Last]`, `c[j]` being the node of the j-th push,
each linked to the next or its pusher at `push_link` and about to do so, and that the fifo, the
threads' own nodes, their retired lists and the free nodes are a `Partition` of all.

Why a link, a load of `prev` or of `value` never touches a node that was given back is in
`Protects`: the announcement is visible (the fence), and the node is `Secure`: any thread
that has it on its retired list and is scanning has collected it or has still to read
*this* hazard pointer (`Covered`). When the check after an announcement finds the node
at `head` or `tail` it is in the chain, so nobody has retired it; whoever
retires it afterwards scans after that. The second
announcement of a pop is checked by looking at `head` again: if it has not moved, the
successor, read from the old head's `prev`, is still in the chain (`PopInv`). The
address of a protected node cannot come back, so a CAS that finds it finds the same push,
and `FifoOrder` follows. Any order of the records will do
(`RecordsAssumption`). That the sorted search of a scan decides membership is
`HazardousIsMembership` of `HazardRecordsProofs`, used through an instance (`Registry`).
Theorems: `NoUseAfterFreeCorrect`, `FifoCorrect`, `NodesCorrect`.

**Stack** (`MpmcStackProofs`). `head` carries no counter, so a push's CAS may succeed
although its `old` was flushed and pushed again since. What makes that harmless is in
`ThreadInv`: the node a thread is about to push is linked to `old`, whatever has become
of `old`, and in `PlacesInv`: it is nowhere else. So if the CAS finds `old` at the head
the list that follows is the stack's, which is `ListIntact`. `TurnedTo` says how far a
reversal has come: the first `k` nodes lead back, the others still forward. `TriesInv`
relates what is left of `tries` to the failed attempts, through the wrap-around of the
first decrement when the call was given 0. Theorems: `ListsCorrect`, `TriesCorrect`.

**Dist fifo and lifo** (`DistFifoProofs`). The two are proved together, since a node
leaves one and enters the other. `Chains` says that some sequences `f` and `s` are the
fifo from its dummy node on and the lifo (`IsList`), without a node twice, and that
with the threads' nodes and the freed ones they make a `Partition` of all nodes;
`FifoHolds` relates `f` to the history: one node more than items, each carrying the
item of its place, the last one at `tail`. Nodes are read after they were popped, and
what such a read returns is worth nothing. `LifoPopInv` and `FifoPopInv` say what is
worth something: as long as the counter is the one a thread has read, the node, its
successor and the successor's data are those of the head now, since each successful
`compare_and_swap2` moves the counter (`Harmless`, `OthersKept`). One condition is easy
to miss: the fifo's head, if it is also its tail, is written to by the pusher without a
move of the counter, but then a popper has read NULL and has returned EMPTY.
`DestroyInv` has one thread destroy, and `Chains` lets it take the nodes one by one.
Theorems: `FifoCorrect`, and `NodesCorrect`, for which `ChainNodes` proves that the
least set closed under `next` (`ChainFrom`) is the set of the sequence's nodes.
`DummyAssumption` is what `dist_fifo_init` returning success means: there is a node.

**Relaxed fifo** (`WorkQueueProofs`, second part). `FifosInv` says that each producer has
a sequence of nodes, from its fifo's head to its tail (`IsFifo`), with one node more than
items, or two while a push has not made its link; the items are in the nodes behind the
head, which is why trypop may free the head and copy the data down. The sequences and the
cleared nodes of the heap are a `Partition` of all, and `Exists` tells which sequences are
empty while the fifos are created or destroyed one by one; `ChainFromHead` shows that what
destroy walks is the whole sequence. `RoundsInv` is about turns: with `Since(p)` the number
of visits since the last one to `p`, no more pops than that have passed `p` over, and in a
trypop an item that was there at the call is in a fifo that has still to be visited. A
visit sets `Since` of its fifo to 0 and adds 1 to that of the others (`SinceNext`),
also when the counter wraps. In one lap of the counter the visits to `p` are
`NumProducers` apart; the jump adds those made since the counter was 0, until it comes to
`p` (`Skipped`). That gives the bound of `OneRound`, and `EmptyIsHonest`: a trypop
whose visits do not meet a jump over `p` visits `p`. Theorems:
`RelaxedNodesCorrect`, `RoundRobinCorrect` and, as an action property,
`RelaxedOrderCorrect`, for any number of producers and a counter of any width that can
count them (`num_producers` is a `size_t`, too).

Where a proof needs induction over numbers it takes a least counterexample
(`LeastNat`, from the well-foundedness of `<`), or the library's induction with a
predicate that is defined and hidden.

**Only model-checked:** all liveness properties (fairness and `ENABLED` are out of the
prover's reach). The operators of `QueueDef` are
evaluated for every value of a small `size_t`: what their recursion computes for
every input needs induction over data.

## 6. Not modelled

Not modelled on purpose: `destroy` of the structures whose destroy is a `free()` or
a walk with no caller left (`lockfree_ring_buffer`, `fifo_steal_buffer`, the deque,
`mpsc_fifo`, `work_queue`); `wsd_work_stealing_deque_size`, which only reads;
`arch.h`; the declarations of `mpmc_ring_queue_internal.h` (no operations in the
repository); the tests' barrier; the branches for architectures without
`atomic_exchange_pointer`, which the library does not build for; `cpu_relax`; and the
premature freeing of a deque's old array, which the header declares unsafe.
