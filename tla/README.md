# NBPQueue in TLA+

NBPQueue is a concurrent priority queue (a calendar queue over lock-free linked
lists) with a benchmark driver and two sequential baselines. This directory holds
TLA+ models of it, TLC configurations that check them on small instances, and
TLAPS proofs about them. Line numbers are those of `src/src/datatypes/nonblocking_queue.c`
unless another file is named.

    tlc -workers 2 -config nbq_safety.cfg MCNBQueue.tla      # check a run
    tlapm CalendarProofs.tla                                 # check the proofs

## 1. Inventory

### The parts of the system

| part | state it keeps | operations | calls / is called by |
|---|---|---|---|
| bucket list (354-418, 501-516, 782-815, 852-870) | `next` with a mark bit, `timestamp`, `payload`, `counter` of each node; per-thread `to_free_pointers` | `search()`, the linking CAS of `insert()`, the scan and the marking CAS of `dequeue()` | inside `insert()` and `dequeue()` |
| cursor protocol (430-453, 724-752, 764-883) | `queue->current` (bucket index, mark), `dequeue_size` | `enqueue()`, `flush_current()`, `dequeue()` | called by the driver's threads |
| mark generator (215-244) | per-thread counter `mark`, `lid` | `generate_mark()` | by every CAS on `current` |
| growing table (466-499, 530-659, 829-843) | `hashtable[32]`, `future_list`, `todo_list`, `dequeue_size` | `insert()` phase 1, `empty_todo_list()`, `expand_array()`, the collaborative loop of `enqueue()` | by `enqueue()` and by a `dequeue()` that leaves the table |
| table index (60-156) | none | `ibsr_x86`, `firstIndex`, `access_hashtable`, `hash` | by all of the above |
| `prune()` (896-963) | frees bucket nodes and to-free chains | `prune()` | by the driver |
| driver (`main.c`) | `array[]`, `GVT`, `ops[]`, `ops_count[]` | `process()`: random enqueue / dequeue, GVT check, prune threshold, drain; `main()` | calls the queue, the list or the calendar queue |
| sorted list (`list.c`) | head, tail, size, spinlock | insert, pop (locked); head/tail insert, extract, delete, find, trunc (unlocked) | by the driver |
| calendar queue (`calqueue.c`) | bucket array, `lastprio`, `lastbucket`, `buckettop`, width, thresholds, spinlock | `calqueue_put/get`, `resize`, `new_width` | by the driver |
| atomics (`arch/`) | — | CAS, counters, spinlocks | CAS by the queue; the rest unused |
| allocator (`mm/`) | timers | `mm_malloc`, `mm_free` | by all |
| launcher (`script/launch.py`) | pools of pending and running tests, free cores | selects tests that fit, reaps them | starts the driver |

### What is hard

Everything shared is accessed by plain reads and compare-and-swap; a thread can
sleep between any two accesses. The behaviours that are hard to test:

* a `dequeue()` decides that a bucket is empty, sleeps, and later advances
  `current` (872); only the mark in `current` tells it that an `enqueue()` was there;
* an `enqueue()` is two steps, link then flush (728, 731), and `dequeue()` sees
  states between them;
* in a bucket, linking, marking and unlinking race on neighbouring `next` fields;
* several threads run `expand_array()` at once, at different steps, one of them
  possibly left over from an earlier expansion;
* while an expansion re-inserts an event, the event is in no list at all (549).

### What makes each part correct

* bucket list: no linked event is lost, an event is taken once, the list is
  sorted and FIFO among equals, a scan's candidate was first at some moment of the
  scan, the to-free chains are exactly the unlinked nodes;
* cursor: `current` never passes a settled event; a dequeue answers in order for
  the events settled when it was called; every call returns;
* growing table: nodes are conserved by the list swaps, no segment is used before
  it is published, closed lists stay closed, and the queue still implements the pool;
* driver: GVT does not go back, the waits for other threads close no cycle, the prune threshold is
  below every node in use, `CHECK` is minus what is left in the queue; as long as the table has not
  grown, no thread stops the program and the drained queue is empty;
* baselines: each call takes effect at one moment and a get removes a smallest event, whatever
  the pointers, the resizes and the sampled widths do.

## 2. Modules

| module | what it is |
|---|---|
| `PriorityPool` | the abstract specification: a pool of events; what `enqueue()` and `dequeue()` promise |
| `Marks` | `generate_mark()` |
| `Calendar`, `MCCalendar` | the cursor protocol on a table of fixed size, `Calendar` implements `PriorityPool` |
| `CalendarProofs` | proof that marks do not repeat; inductive invariant and theorems about `Calendar` |
| `NBQueue`, `MCNBQueue` | extends `Calendar` with the growing table: the whole `enqueue()` and `dequeue()` |
| `NBTableProofs`, `NBQueueProofs` | inductive invariants and theorems about `NBQueue`: the table, then table and cursor together |
| `BucketList`, `MCBucketList` | one bucket, pointer by pointer: why a bucket may be atomic in the two modules above |
| `BucketProofs` | what the operators of `BucketList` return; its inductive invariant and theorems |
| `NumberLemmas` | facts about naturals, powers of two, division, sums and the pairing function that the other proof modules share |
| `HashIndex` | where a linear index lies in `hashtable[]`, on words of `WordBits` bits |
| `Driver`, `MCDriver` | `process()` and `main()` over the non-blocking queue, with `prune()`; uses `HashIndex` |
| `DriverProofs` | inductive invariant and theorems about `Driver` and `HashIndex` |
| `AtomicPool` | the abstract specification of the two locked baselines |
| `RootsimList` | the sorted list, pointer by pointer; implements `AtomicPool` |
| `ListProofs` | inductive invariant and theorems about `RootsimList` |
| `CalQueue` | the calendar queue; implements `AtomicPool` |
| `CalQueueProofs` | what the functions of `CalQueue` do to a calendar; its inductive invariant and theorems |
| `Baselines`, `MCBaselines` | the choice of `DATASTRUCT` between the two |

**`PriorityPool`.** The promise is deliberately weaker than a linearizable priority
queue. `dequeue()` reads `current` once and settles on a bucket; it does not
look at `current` again once it has a candidate, so an event enqueued meanwhile
in an earlier bucket does not count. What it does promise is stated with two history
variables: `settled`, the events whose `enqueue()` has returned, and `before[t]`,
the settled events still queued when thread `t` called `dequeue()`. The answer may
not be larger than a node of `before[t]` that is still queued, and "empty" may be
answered only when none is.

**`Calendar`.** A step is one access to shared memory plus the thread-local work
up to the next access. `pc[t]` says where a thread is in the C function,
`oldCur`, `newCur`, `marks` are the C locals of those names, `node` is `new_node`
of an enqueue or the candidate and answer of a dequeue. A local that is not read
any more is reset, which keeps the state space small and changes nothing else.
Each node has a `place`: `unused`, `held` (allocated, not linked), `bucket`
(linked, unmarked), `taken` (marked, still linked), `unlinked`. The actions:

| C code | actions |
|---|---|
| `enqueue()` 724-728 | `EnqueueCall` |
| `insert()` 501-516, linking CAS | `Insert` (with `generate_mark()` of the flush that follows), `Unlink` (what `search()` unlinks on the way) |
| `flush_current()` 430-453 | `FlushRead`, `FlushCas` |
| `dequeue()` 776-779, 782-820, 852-870 | `DeqRead`, `DeqScan`, `DeqMark`, `DeqMarkFails` |
| `dequeue()` 820-843, 872-879 | `DeqNextBucket`, `DeqEmpty`, `DeqAdvance` |
| returns | `EnqueueReturn`, `DequeueReturn` |

A scan whose unlinking CAS fails starts over (813) without having changed anything: it
is the same as a thread that read `current` later, and has no action of its own.
The CAS on the candidate fails if the candidate was taken, and may fail when its
successor changed; `seen[t]`, the nodes of the bucket at the scan, decides when
it may. Timestamps are integers, so the D_EQUAL tolerance does not appear.

**`NBQueue`.** `future_list` and `todo_list` hold the `counter` of their head node,
which identifies it; `list[h]` is the sequence of nodes after head `h`, `closed`
the heads whose `next` is marked, `table_size` the buckets that `hashtable[]`
covers. Places `future` and `carried` are added for a node in one of the lists and
for one popped by `empty_todo_list()`. There is one action per shared access of
`insert()` phase 1 (`InsHead`, `InsNext`, `InsPush`), of `empty_todo_list()`
(`PopHead`, `PopNext`, `PopCas`, then insertion again, `Move`), of the loops around
it (`LoopHead`, `LoopNext`, `LoopEnd`, `CollaborativeReturn`), of the end of the table in `dequeue()`
(`DeqTableEnd`, `DeqFutureHead`, `DeqFutureNext`) and of `expand_array()` (`ExpandCheck`
to `ExpandSize`). Node order in a list does not matter to `dequeue()`, but it is kept
because the CASes compare first nodes.

Three facts about the code are built in: `expand_array()` always returns true once
`dequeue_size` is past `old_size` (it never shrinks), the node that replaces a
list head is new (a head is never reused while the queue runs), and a second unlinking of
a list head is impossible.

**`BucketList`.** `next` is the C field with its mark, every read of a `next` and
every CAS is one action. `left`, `left_next`, `right`, `right_next`, `count` are
the locals of `search()` and of the scan of `dequeue()` (`min`, `min_next`, ...),
`to_free[t]` holds the chains of the thread-local to-free list as start and
count. Two history variables: `linked`, the nodes in the order of their linking CAS,
and `legal[t]`, what an atomic scan would have found at each moment of `t`'s scan.
The `counter` field of a bucket node is always 1 (line 509: the right node never has
the same timestamp), so it is left out.

**`HashIndex`.** `ibsr_x86`, `firstIndex`, `access_hashtable` and `hash` as operators.
`Segments` are the allocations of `queue_init()` and `expand_array()`, `LayoutExact`
compares the two: each index of the table has a cell of its own inside a segment.

**`Driver`** (`main.c`). Every read and write of `array[]`, `GVT`, `ops_count[]` and
`ops[]` is a step of its own; each loop over the cells is a set of cells still to read (`others`) in
the order of the ids. `acc` is the local the loop fills (`min`, `tot_count`), and
`end_index` while `prune()` runs. What a program chooses at random (enqueue or
dequeue, the update) is nondeterministic. The actions:

| C code | actions |
|---|---|
| the loop of `process()` 143-308 | `Start`, `CallEnqueue`; `DeqRead` |
| `enqueue()` 724-752 | `Insert`, `Flush`; `InsertFuture` (no flush follows, 730); `EndHelp` |
| `dequeue()` 776-879 | `DeqScan`, `DeqTake`, `DeqAdvance`, `DeqEmpty`, `DeqExpand` |
| `expand_array()` 570-658 | `ExpandSwap`, `ExpandClose`, `ExpandSize` |
| `empty_todo_list()` 530-551, also for a collaborative `enqueue()` | `Pop`, `Move` |
| publication and safety check 196-218 | `Publish`, `CheckGVT`, `WaitForCell`, `Spin`, `WriteGVT` |
| prune 270-280, `prune()` | `ReadMin`, `CallPrune`, `PruneBucket` |
| counting 287-307 | `Count`, `SumOps` |
| drain 326-401 | `DeqRead` with `draining`, `PublishDraining`, `Finish` |
| `main()` 498-529 | `PrintCheck`, `Exited` |

The queue inside it is coarser than in `NBQueue`, and keeps what GVT, the prune threshold and `CHECK`
depend on: the link and the flush of an enqueue are two steps; `current` is an index and a mark, the marks
come from `generate_mark()`, and the CAS of 872 succeeds exactly when the value is the one read, so
that thread 0's first flush can store what `queue_init()` stored (698); an expansion is `ExpandSwap`,
`ExpandClose`, a `Pop` and a `Move` for each event, and `ExpandSize`, run by any number of threads at once; a popped
event is in hand between 549 and 550 and is linked without a flush; the answer is empty when
`future_list` is (833), whatever is in hand. What is coarser:

* events of one timestamp are anonymous: `live`, `future` and `todo` count them. An event linked
  and not yet flushed is in `pending`, because another thread may take it first. A list is a bag,
  so the order in which events are popped is any;
* a CAS on a node or on `current` in `flush_current()` that fails is a thread that read later;
* the new segment, the to-do list and the new `future_list` (579-629) change in one step, the CAS on `todo_list`.
  An enqueue that read the old head can still push on it until its head is marked, and does: the second disjunct of
  `Push`. Whoever closes or empties the list of an expansion has seen both pointers changed, and an empty answer needs
  an unmarked empty head, which a list that was swapped never has. `NBQueue` has the single steps;
* the test of 570 is the guard of `DeqExpand`; the last look at the to-do list (650) and the CAS of 657 are one step: after that
  look the list is empty and closed, and nobody pushes on it.

`prune()` empties a bucket in one step. The freeing
of the thread's to-free chains that follows changes only memory: `BucketList` checks
those chains.

`array[]` is never initialised (449). It is the first memory the program takes from a
fresh heap, so its cells start as 0 here; a cell with another content would let a
threshold be computed from it before its thread has run line 141.

**`RootsimList`** (`list.c`). `list` holds head, tail, size and the links; `Chain` is the
nodes from head on, as many as `size` says. Where the program uses the list (`unlocked`
false) `__list_insert()` and `list_pop()` are steps around the spinlock: `LockInsert`,
`Walk` for each node passed, `Link`; `LockPop`, `PopLink`. The rest of the interface has no
caller in the program and takes no lock: with `unlocked` true one client calls head
and tail insertion, extraction by key and by content, pop and truncation in
any order (`Api...`). `stopped` is the state after a NULL pointer was followed or
`abort()` called.

**`CalQueue`** (`calqueue.c`). The C functions are operators from calendar to calendar
with their C names; the actions call them as `calqueue_put()` and `calqueue_get()` do, in
one step, since all of them run under `cal_spinlock`. The width is a fraction, `num` over
`den`, and times are compared after multiplying out, so no rounding is lost. A width of 0 or
NaN, which equal timestamps and single gaps produce, is `num = 0`: every conversion to an integer then
gives the smallest integer, a multiple of the (power of two) number of buckets, and no event is below `buckettop`. The test of `resize_enabled` is
the difference between `enq`/`deq`, which the sampling uses, and `calqueue_enq`/`calqueue_deq`.
Copying to the new calendar never reaches a threshold, so it uses `enq` as well. A bucket is the
sequence of its timestamps; `Passed` says where the walk of `calqueue_enq()` stops in it, `Pour` is `enq`
for each event of a sequence, and `CountIn` counts the events of a set of timestamps, wherever they are.

Memory order: all shared fields are `volatile` and every write after publication
is a locked instruction, so sequentially consistent steps are adequate on x86.

## 3. Runs

| run | instance | shows |
|---|---|---|
| `bucket_safety` | 2 threads, 3 nodes, 2 timestamps; 115 000 states | `LiveReachable`, `SortedFifo`, `ScanLegit`, `TakenOnce`, `ChainsExact`, `IndInv` (the proofs' invariant) |
| `calendar_refine` | 2 threads, 2 nodes, timestamps 0..2, 2 buckets of width 2; 250 000 states | `CursorCovers`, `TakenInOrder`, `HonestEmpty`, `IndInv` (the proofs' invariant), `ImplementsPool`, `CallsReturn` |
| `nbq_safety` | 2 threads that dequeue, one of them enqueues, 2 nodes, timestamps 0 and 2, table 1 to 4, collaborative; 506 000 states | `NodesConserved`, `SegmentsExist`, `OnlyLateStranded`, `ClosedListsShrink`, `NBIndInv` (the proofs' invariant) |
| `nbq_single_consumer` | 2 producers, 1 consumer, table 1 to 4; 23 000 states | `SoleInv` (the proofs' invariant), `NBImplementsPool` |
| `nbq_fair` | 2 threads, table 1 to 2, collaborative; 279 000 states | `NBCallsReturn` |
| `driver_safety` | 2 threads, lids 0 and 1, 3 operations, table 2 to 4, collaborative, pruning every second operation, safety check and drain; 1.8 million states | `NeverStopped`, `BucketsApart`, `PruneAloneInLoop`, `CheckZero`, `OpsBounded`, `SomeoneMoves`, `GVTAdvances`, `DriverIndInv` (the proofs' invariant) |
| `baselines` | list: 2 threads, 4 nodes, 2 keys; calendar: up to 17 events of timestamps 0, 1, 10, 2 to 16 buckets; 115 000 states | `ListShape`, `ListStable`, `ListImplementsPool`, `ListIndInv` (the proofs' invariant), `CalShape`, `CalImplementsPool`, `CalIndInv` (the proofs' invariant) |
| `driver_prune` | 2 threads, 6 operations, without safety check, drain and collaboration | violation of `PruneAlone` |
| `bucket_payload` | as `bucket_safety` | violation of `DequeuedValueKept` |
| `nbq_false_empty` | as `nbq_safety`, not collaborative | violation of `HonestEmpty` |
| `nbq_mark_zero` | the same with lids 0 and 1 | violation of `OnlyLateStranded` |
| `nbq_not_lock_free` | thread 1 may stop, thread 2 is fair | violation of `SomeCallReturns` |

Each component has one type invariant (that of `CalQueue` is in `CalIndInv`) and each property of a passing run has a mutant:
an operator kept beside the definition it alters (`FlushReadStrict` beside
`FlushRead`), the way a plausible slip in the C code would, under which TLC finds
the property violated.

**Bounds.** One `enqueue()` per node, so `Nodes` bounds the enqueues and nothing else
bounds the calls: dequeues are unlimited. `MaxMarks` (12) bounds the marks a thread may
draw; the instances never get there, since every mark belongs to a flush or to an advance
of `current`, and the runs would report a deadlock if they did. `MarkRange` (1000) stands for
2^32: the marks drawn stay below it (checked by `MarksFit`). `Doublings` bounds the
expansions by bounding the timestamps. Two threads suffice for every interference the
code has between a pair of operations (each thread plays both roles; in `nbq_safety` only one enqueues, as two enqueues at once are in
`nbq_fair` and `nbq_single_consumer`), three events for a to-free chain of two
nodes beside an insertion, two buckets of width two for order inside and across buckets (the theorems
below hold of any number of events), and two doublings for a thread left over from the previous expansion. Threads are not
symmetric in `Calendar`, their ids go into the marks; nodes are.

In `driver_safety`, `TotalOps` is 3: both threads can enqueue, or one of them enqueue twice, before a dequeue of the main loop, and
the drain adds as many dequeues as there are events left. `InitSize` is 2 and the width 9, so that timestamps 0 and 10 are in
the first table and the threshold 0.9 * 10 reaches bucket 0 and no further, while 20 goes to
`future_list` and the table doubles once. So runs that never grow and runs that do are both there, with a prune
above 0 in each. Once the table has grown, the instance reaches every bad end described under "What the code does not keep"
(a `CHECK` other than 0, a stop at a valid node, a stale CAS on mark 0): the condition `NotGrown` hides nothing the model leaves out.
`driver_prune` needs 6 operations and no third timestamp. `LogShare` (1, and 3 in `driver_prune`) stands for the 10 of `LOG_PERIOD = OPERATIONS/10`,
which such a small instance would make zero (see below). `WordBits` (3) cuts `hash` above every timestamp used, and
`MarkRange` (65536) is above every mark drawn. In the list, four nodes
give an insertion at the head, in the middle and at the tail beside a pop. The calendar
doubles past 4, 8 and 16 events and halves below 6 and 2, so `MaxEvents` (17) reaches every
size from 2 to 16 and goes back to 4 (no halving leads to 2), and a sample
of more than five events; three timestamps give widths of 0, of one gap and of an average that
leaves a gap out. `MAXNBUCKETS` is 16 for the 32768 of the code. One calendar thread is enough because
each body is one step under the lock. Events of equal timestamp are anonymous in `CalQueue`: the
sampling puts events back behind their equals, so it does not keep them first in,
first out.

**Fairness.** `FairSpec` and `NBFairSpec` assume that a thread inside an operation
keeps being scheduled (weak fairness of its step) and nothing about starting new
calls. This is the operating system's scheduler; there is no lock a thread could
be starved at. `CallsReturn` and `NBCallsReturn` hold because the instances have
finitely many enqueues: a retry is always due to the progress of another thread.
They are not wait-freedom.

`Driver` has no fairness assumption and no liveness property: its waiting loop is checked by
`SomeoneMoves`, an invariant that in each state some thread that has not ended is not
held up by a cell of `array[]`. The spinlocks of the baselines guarantee no thread its turn, so they have
no liveness either; TLC's deadlock check covers them.

### What the code does not keep

* **A false "empty"** (`nbq_false_empty`). Thread A pops an event from the to-do
  list and has it in hand; a dequeue of thread B finds the list empty, finishes the
  expansion, walks to the end of the table and answers "empty" although the event was
  there when it was called. `empty_todo_list()` never flushes `current` (550), so A's
  late re-insertion may also stay behind the cursor. `OnlyLateStranded` says that
  nothing else is ever stranded. With a single consumer and no collaboration the queue
  implements the pool (`nbq_single_consumer`, and for all instances `NBRefinement` below). Both
  conditions are needed: a producer that helps to empty the to-do list can be thread A just as well.
* **The mark of thread 0** (`nbq_mark_zero`). `queue_init()` stores mark 0, which is also
  the first mark of the thread with lid 0: in a table that expands at once, a dequeue
  moves `current` past that thread's event. The passing runs of `NBQueue` use lids 1 and 2;
  `Calendar` keeps lid 0, because there the initial `current` is on the last bucket, from
  which nothing advances. `Driver` keeps it too, with the growing table: `main()` gives every program a lid 0 (493).
* **The program past its first expansion.** With the lids and the parameters of `main()` both of these happen: a
  dequeue that found the last bucket empty, expanded and slept moves `current` past thread 0's first event, and a
  popped event is linked behind `current`. The program then ends with a `CHECK` other than 0, or `prune()` meets the event and stops it
  (`valid node`, 923). In the instance of `driver_safety` both ends are reached. What is said of the drain and of the
  exits therefore has the condition `NotGrown`: nothing was ever put in `future_list`, and the table is the one of `queue_init()`.
  That the printed `CHECK` is minus the number of events left holds always. With an INIT_SIZE of 32768
  (`src/script/config`) a run need not expand.
* **Marks past 32 bits.** The mask of `generate_mark()` makes marks repeat after some 92 000 of one thread; a
  dequeue that slept that long may move `current` past an event. No instance gets there; the theorems exclude it by hypothesis.
* **Lock-freedom** (`nbq_not_lock_free`). A thread that stops between the CAS on
  `todo_list` and the marking of its head keeps collaborative enqueues spinning.
* **The returned payload** (`bucket_payload`). `dequeue()` returns a pointer to an internal
  node, which other threads recycle.
* **Pruning under a running thread** (`driver_prune`). `prune()` assumes that no thread
  holds a node below its threshold (887-888), and `process()` computes the threshold from the last
  timestamps dequeued. Without `SAFETY_CHECK`, as in `script/config/clusterSapienza`, a
  thread is inside a bucket while the other one frees it. With the safety check the
  threads of the main loop stay in step (`PruneAloneInLoop`); a thread in the drain
  loop publishes without waiting (372), and with three threads `PruneAlone` fails there too: one
  drains an event of bucket 1, another then enqueues in bucket 0, and the
  threshold of the third one already covers bucket 0.
* **Stopping before the queue is drained.** With `SAFETY_CHECK` but without `EMPTY_QUEUE` the
  order of the drain loop is missing and `prune()` stops the program (`ERROR: valid node`, 943):
  with two threads and timestamps 0, 10, 20, thread 0 enqueues early events and ends with some of them
  queued (its cell is then at the end of time, 404), thread 1 passes its wait at 10, prunes, and meets a live event below its
  threshold. `EmptyQueue` is therefore a hypothesis of `NeverStopped`.
* **The log period.** `LOG_PERIOD` is `OPERATIONS/10`, and thread 0 divides by it even when `LOG` is 0
  (main.c:287, 310): fewer than ten operations per thread end in a division by zero. The model
  has this exit (`LogCondition`), the instance avoids it.
* **A table whose initial size is not a power of two.** `LayoutExact(6, 3)` is false, as
  `PowerOfTwoNeeded` in `MCDriver` records: the bit scan leads to a cell outside its segment.
* **The list.** Extracting the only node follows a NULL pointer, `list_trunc_after()` aborts,
  and `list_delete()` overwrites its own stack. The program calls none of them.

## 4. Proofs

**Marks and cursor** (`CalendarProofs`). Cantor's pairing function is injective
(`CantorInjective`, from `PairsApart` of `NumberLemmas`), so while the mask drops no bit two marks differ (`MarksUnique`). For any set
of threads, nodes and timestamps and any table size:

* `TypeCorrect`: `Spec => []TypeOK`, from `Owned` alone (types and who owns a node), no assumption
  on marks;
* `Invariance`: `Spec => []IndInv`, assuming `MarksDistinct` (two calls of `generate_mark()` differ).
  `MarksStayDistinct` derives the assumption from `NoMarkLost`: no mark that can be drawn
  reaches `MarkRange`. TLC evaluates `NoMarkLost` on the instances. It is a real restriction: 2^32 is
  reached after about 92 000 marks of a thread, and then the mask makes marks repeat;
* `CursorSafe`, `OrderSafe`, `EmptySafe`: `CursorCovers`, `TakenInOrder`, `HonestEmpty`;
* `Refinement`: `Spec => ImplementsPool`, under the same assumption.

`CursorCovers` is not inductive. The danger is a dequeue that holds an old copy of
`current`, found its bucket empty, and will advance. The invariant adds

* `FlushedCovered`, `CursorCovers` already from the end of the flush;
* `StaleScanHarmless`: if the CAS of such a dequeue would still succeed, its bucket has no
  flushed node;
* `MarksFresh`: which marks are drawn and that the mark of a pending flush is carried by no
  cursor that can be advanced from. This makes the CAS of the dequeue fail after a flush;
  a cursor on the last bucket may carry any mark, which is why lid 0 is harmless here;
* `FlushTarget`, `AdvanceInTable`: what a flush is about to write, where an advance may go;
* `DequeueKnows`: what a running dequeue knows of the nodes of `before`, from which
  `TakenInOrder` and `HonestEmpty` follow at its answer.

**The bucket list** (`BucketProofs`), for any set of threads, nodes and
timestamps and with no assumption: `BucketTypeCorrect`, `NoEventLost` (`LiveReachable`),
`BucketSorted` (`SortedFifo`), `NodeTakenOnce` (`TakenOnce`), `ToFreeExact` (`ChainsExact`),
`ScanAsIfAtomic` (`ScanLegit`) and the action property `MarkedFrozen`, all from
`BucketInvariant`: `Spec => []IndInv`. The argument:

* every step is quiet (it writes no pointer) or one of four writes: it points a private node
  at its place, links a node (`Put`), marks one (`Delete`), or unlinks a run of marked
  nodes (`Cut`); `StepKinds` proves it, and the rest of the proof is about these five kinds;
* the history grows in one direction (`Grow`): a marked node keeps its `next` for ever, a
  linked node stays linked in `linked` and the order of two linked nodes never changes. What
  a thread read long ago is therefore still a fact about the list, and each thread's `left` and
  `right` stay useful as long as its CAS can succeed;
* the to-free chains are the unlinked nodes because a `Cut` skips exactly the marked nodes
  between `left` and `right`, which nobody can unlink a second time;
* `ScanLegit` follows from the least node the head can lead to through the nodes not yet
  marked, followed through the whole scan.

What is reachable from a node is defined over paths, with sets, so that it can be reasoned about
by the least element of a set of naturals.

**The growing table** (`NBTableProofs`), for any number of threads, nodes and
doublings, and with no assumption on the marks: `NBTypeCorrect`, `SegmentsSafe`
(`SegmentsExist`), `Conservation` (`NodesConserved`) and the action property `ClosedShrink`, all from
`GrowInvariant`: `NBSpec => []GrowInv`. None of the properties is inductive: each depends
on what the threads inside `expand_array()` still remember. `GrowInv` says

* `TableOk`, `ClosedOk`: how `future_list`, `todo_list`, `table_size` and `dequeue_size` are
  related. They move in one order (segment, to-do list, future list, size), and each is either at the
  old size or at its double;
* `LinksOk`, `HandsOk`: a node is linked in one list once, or carried by one thread;
* `HeadsKnown`: a head that a thread has read is one that queue still points to or a retired one
  (closed and empty), so that a late CAS on it fails or changes nothing;
* `ExpandersKnow`: what a thread at each step of `expand_array()` knows while
  `dequeue_size` is what it read. A thread left over from an earlier expansion finds it doubled at least;
* `CursorInside`: the cursor and its copies stay inside the table.

That 2^k doubles is proved from the library's theorem on the number of subsets of a finite set, since the
provers know nothing of exponents.

**Table and cursor** (`NBQueueProofs`): `NBInvariance`: `NBSpec => []NBIndInv`, and from it
`StrandedOnlyLate` (`OnlyLateStranded`), assuming `MarksDistinct` and `InitMarkUndrawn` (no mark
drawn is the one `queue_init()` stores). Unlike in `Calendar` the second is needed: in a
table that expands, every bucket is left sooner or later, and run `nbq_mark_zero` shows what the first mark of
thread 0 does. `StrandedOnlyLateFromLidOne` derives both from `NoMarkLost` and `0 \notin Threads`. The invariant
adds to `GrowInv` the counterparts of the parts of `IndInv` above, restricted to nodes
that are not `late`.

**One consumer** (`NBQueueProofs`). Assuming besides `SoleConsumer` (at most one thread dequeues and no
enqueue helps), the growing queue keeps all the promises of the fixed one, for any number
of producers and doublings: `SoleInvariance` (`SoleInv`), `SoleOrder` (`TakenInOrder`),
`SoleEmpty` (`HonestEmpty`) and `NBRefinement` (`NBImplementsPool`). `NBRefinementFromLidOne`
has the hypotheses that can be read off the constants. `NBIndInv` does not say
why a dequeue may answer "empty"; `SoleInv` adds

* `RoleOf`: what each label tells of what the thread holds, in particular that only the consumer
  grows the table and pops nodes;
* `SoleGrower`, `SegmentKnown`: the consumer grows from the present size, and the table is
  larger than `dequeue_size` only between its two stores, so nobody else's expansion is under way when
  it answers;
* `CarriedAhead`: a popped node belongs beyond every bucket the consumer has visited, so nothing is
  ever `late`, and the exception in `OnlyLateStranded` is void;
* `BucketsInTable`: an event in a bucket is in a bucket of the table;
* `SoleKnows`: the dequeue's cursor, candidate and answer are not past an event
  settled before it started.

The refinement then goes step by step: each step moves at most one node (`StepMoves`), a place other than
the mover's own cannot change the pool (`OthersOp`), and the three visible steps (the insertion, the mark, the answer)
are matched with the pool's actions.

**The driver** (`DriverProofs`), for any number of threads, any timestamps, widths,
table sizes and periods, and through any number of expansions. Every property of run `driver_safety` is a theorem.

| theorem | property | hypotheses |
|---|---|---|
| `DriverTypeCorrect`, `NobodyStuck`, `OperationsBounded` | `DriverTypeOK`, `SomeoneMoves`, `OpsBounded` | none |
| `CheckCountsTheQueue` | the second part of `CheckZero` | finitely many timestamps |
| `TableLaidOut` | `BucketsApart` | `InitSizeFits` |
| `GVTNeverBack` | `GVTAdvances` | `SafetyCheck` |
| `PrunesAlone` | `PruneAloneInLoop` | `InitSizeFits`, `TimestampsFit`, `SafetyCheck`, `EmptyQueue` |
| `DriverInvariance` | `DriverIndInv` | the same and `[]MarksKept` |
| `ProgramNeverStopped` | `NeverStopped` | the same, `[]MarksKept` and `LogPeriod # 0` |
| `CheckIsZero` | `CheckZero` | `InitSizeFits`, `TimestampsFit`, `SafetyCheck`, finitely many timestamps and `[]MarksKept` |

`InitSizeFits` (INIT_SIZE is a power of two) and `TimestampsFit` (a bucket index fits an `unsigned
int`) are what the bit scan and the cast of `hash` need; `src/script/config` gives an INIT_SIZE of 32768. The two
switches are arguments of the program; what fails without each is under "What the code does not
keep", and so is the log period. In every case TLC evaluates the hypotheses on the instance.

`MarksKept` says that the mask has dropped no bit of a mark drawn so far. It is about the run, not the constants, because nothing bounds the
dequeues of a thread. The mark of `queue_init()` may be drawn: no theorem excludes lid 0.

What makes the waits order the threads is not local to them. The invariant is built in layers:

* `TypeInv`, `WaitInv`, `SizeInv`, `PhaseInv`, `StartInv`: types, which cells a waiting thread has still to read, the
  size as a power of two, what each location implies for the locals; in particular an open to-do list has a thread about to close it;
* `GvtOrder`, `PruneInv`: the order of cell and id between a thread past its wait and every other thread
  of the main loop, and that what a thread has in hand or walks is not before its cell. They hold
  whatever the queue answers, so `GVTNeverBack` and `PrunesAlone` cover every expansion;
* `GrownInv`: a table of its first size with an empty `future_list` was never anything else, and nobody is expanding it.
  So `NotGrown`, a condition on one state, is one on all the earlier ones.

While the table has not grown (`Settled`):

* `InStep`, `AheadInv`: the order of the threads, and what a thread has in hand is not before its cell;
* `EventsFit`: every event of the table has a bucket in it;
* `Guarded`: every flushed event has a guard, a thread bound to meet it before it takes a later one. If the event
  is before the timestamp of a waiting thread, one of its guards is a cell that thread has still to
  read; so no event is before the cell of a thread past its wait;
* `CursorRight`: `current` is not past the bucket of a flushed event, and if the CAS of a dequeue that found
  its bucket empty would succeed, the bucket has no flushed event;
* `MarksFresh`: `current` and every copy of it carry a mark that was drawn, or are on the last bucket of the
  first table. A new mark differs from every one drawn (`MarksUnique`), so a flush is noticed; thread 0's mark 0 can only be taken for the
  mark of the initial value, and no CAS leaves the last bucket without an expansion;
* `MinInv`, `GvtInv`: a minimum of the cells is not above its reader's own, and GVT has passed no cell of the main loop.

`OpsBounded` follows from `OpsInv`: once TOTAL_OPS operations are counted, the threads that can still
count have room for one operation each, and the thread that counted the last of them
has none. `CheckCountsTheQueue` follows from `CheckInv`, a balance between the counts in `ops[]` and the events in the table, in
the two lists, in the threads' hands and owed by the enqueues under way; `CheckIsZero` from it and `Guarded`: when every
thread has ended nobody guards anything.

**The sorted list** (`ListProofs`), for any number of threads, nodes and keys, and with no
hypothesis. Every property of the list in run `baselines` is a theorem: `ListTypeCorrect`
(`ListTypeOK`, with the mutual exclusion), `ListWellFormed` (`ListShape`), `ListKeepsOrder`
(the action property `ListStable`) and `ListRefinesPool` (`ListImplementsPool`), all from
`ListInvariance`: `ListSpec => []ListIndInv`. The first two hold of the whole interface, locked
or not. The argument:

* a list is *laid* as a row, a sequence of different nodes, when its links spell the row in both
  directions (`Laid`); the tail of an empty list may be anything. `ChainIs` shows that following
  `next` from head gives that row. The operations of `list.c` are then reduced to three things done
  to a row: a node joins after the first k (`JoinedLaid`), one leaves (`PartedLaid`, `PopHeadLaid`),
  the first ones are cut off (`CutToLaid`);
* `RowKinds`: every step of the program leaves the row alone or does one of the three, so
  `RowInv` (the row is the queued nodes) and `SortedInv` are each proved for three kinds of step;
* `HandsInv`, `MutexInv`, `PlaceInv`: a node not in the row is free or with one thread; the thread in
  a critical section has the lock; its walk stands in the row with only larger keys behind it.
  Without the lock `PlaceInv` fails as soon as another thread links or pops;
* the pool changes at `Link` and at `PopLink`: the head has a smallest key because the row is sorted.

**The calendar queue** (`CalQueueProofs`), for any number of threads, any timestamps and any number of
events. Every property of the calendar in run `baselines` is a theorem: `CalWellFormed`
(`CalShape`), `CalRefinesPool` (`CalImplementsPool`) and the type invariant `CalTypeCorrect` (`CalTypeOK`), all from
`CalInvariance`: `CalSpec => []CalIndInv`. The one hypothesis is that MAXNBUCKETS is a power of two
(calqueue.h:7 says 32768): otherwise the last doubling would go past it. The argument:

* `Coherent` is what each function relies on and leaves: every event is in the bucket of its virtual
  bucket and the lists are sorted (`InPlace`), `qsize` is exact, no event is before `lastprio`
  (`Ahead`), and the cursor is where no event is missed (`Cursor`). `EnqIs`, `DeqIs`, `PourIs`,
  `NewWidthIs` and `ResizeIs` prove it of the functions, also in the middle of a resize, where the thresholds do not hold;
* `Cursor` is the delicate part. One would expect `lastbucket` and `buckettop` to
  name the same virtual bucket. They do not: a direct search sets `lastbucket` to the bucket of the event it takes and
  leaves `buckettop` a year above where the search began (205-236), and an event taken from there on may not be
  in the year that `buckettop` belongs to. What holds is that `lastbucket` is the bucket of some virtual bucket v not past `lastprio`,
  `buckettop` the top of some m, and m + 2 <= v + nbuckets. That suffices: a head found below
  `buckettop` on the way is in the current year (`OnTheWay`), so the first such bucket holds a smallest
  event, and when there is none the search compares all heads;
* with `num = 0` (a width of 0 or NaN) every event is in bucket 0, no head is ever due, and each dequeue
  is a direct search;
* the sampling takes n events, puts them back and restores the cursor: the events are the same,
  and none of them is before the restored `lastprio`. A resize copies them by buckets. Both are
  folds, followed by the least index at which the claim would fail;
* events are counted: a function keeps the events when `CountIn` of every set of timestamps stays
  the same. The pool's count of a timestamp then changes by one at `CalPut` and `CalGet`, and a smallest event is
  one before which `CountIn` finds none.

`CalIndInv` adds to `Coherent` that the number of buckets is a power of two within the thresholds
(`Fitting`) and that what is queued was put (`Known`), and the types of the calls.
It implies `CalTypeOK`, which the run therefore leaves out.

**What the proofs share** (`NumberLemmas`): the least element of a set of naturals, an induction
over a set instead of an operator, 2^k, quotients and remainders, the pairing function, and the
sum of a function over a finite set when one argument changes. The induction theorems of the
library take an operator as parameter, and recursive operators are out of reach of the provers as well;
hence the sets.

**What stays with TLC.**

* Liveness: `CallsReturn` and `NBCallsReturn`. The prover has no `ENABLED` and no fairness rules.
* What `SampledWidth` computes: it sums with a fold. The proofs need only that a width is a fraction that is
  not negative, so they hold whatever width is sampled.
* `Doublings`, `MaxMarks` and the five runs that expect a violation, which need instances.

## 5. Not modelled, and the plan

Left out, with the reason:

* the allocator wrapper: `malloc` and `free` with timers; `mm_init()` stores two sizes.
  When an allocation fails the program exits;
* `arch/x86.c` and `atomic.h`: the compare-and-swaps are the atomic steps of every module; the counters,
  bit operations and spinlocks are single locked instructions without a caller;
* `list_delete()`: undefined after its extraction (364); `dump_l()` and the accessor macros of
  `list.h` change no state;
* the cast of a bucket index past 2^31 or 2^32 widths, and an expansion past 32 segments: the
  order is lost there, and the instances stay below;
* `launch.py`, which starts one process per test in a sequential loop, the result and plotting
  scripts, generated build files, log output, timing.

Every safety property, action property and refinement of the passing runs is a theorem, under the
hypotheses given above. What remains
to do: `driver_safety` with a third thread, and what a bound on the late events would give `Driver` past its first expansion.
