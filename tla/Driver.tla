------------------------------- MODULE Driver -------------------------------
(***************************************************************************)
(* The benchmark driver with DATASTRUCT 'N': THREADS threads run process() *)
(* over one non-blocking queue, publish the timestamps they dequeue in     *)
(* array[], check them against GVT, prune the buckets below the minimum of *)
(* array[], and drain the queue; main() joins them and prints CHECK.       *)
(*                                                                         *)
(* The queue is coarser than in NBQueue: its events are anonymous and      *)
(* counted by timestamp, a failed CAS on a node is a thread that read      *)
(* current later, and the swap of the lists is one step of an expansion.   *)
(* current keeps its marks, and an event popped from the to-do list is in  *)
(* hand until it is linked again.                                          *)
(***************************************************************************)
EXTENDS HashIndex, Marks, FiniteSets, FiniteSetsExt, Functions

CONSTANTS Threads,        \* my_id of each thread: 0 .. THREADS-1
          Timestamps,     \* the timestamps the random updates can lead to
          INFTY,          \* DBL_MAX
          BucketWidth,    \* BUCKET_WIDTH
          InitSize,       \* INIT_SIZE
          TotalOps,       \* TOTAL_OPS
          PrunePeriod,    \* PRUNE_PERIOD
          ThresholdNum,   \* PRUNE_TRESHOLD, as a fraction
          ThresholdDen,
          LogShare,       \* LOG_PERIOD is OPERATIONS/LogShare, 10 in the code
          Collaborative,  \* COLLABORATIVE_TODO_LIST
          SafetyCheck,    \* SAFETY_CHECK
          EmptyQueue      \* EMPTY_QUEUE

ASSUME DriverAssumption ==
  /\ IsFiniteSet(Threads) /\ 0 \in Threads /\ Threads \subseteq Nat
  /\ Timestamps \subseteq Nat
  /\ INFTY \in Nat /\ \A ts \in Timestamps : ts < INFTY
  /\ {BucketWidth, InitSize, PrunePeriod, ThresholdDen, LogShare, MarkRange}
       \subseteq Nat \ {0}
  /\ Cardinality(Threads) > 1
  /\ ThresholdNum \in 0..ThresholdDen
  /\ TotalOps \in Nat
  /\ {Collaborative, SafetyCheck, EmptyQueue} \subseteq BOOLEAN

VARIABLES
  current,       \* queue->current: index in the high half, mark in the low
  marks,         \* how many marks each thread has drawn
  dequeue_size,  \* queue->dequeue_size
  table_size,    \* queue->future_list->counter: the buckets allocated
  live,          \* how many events of each timestamp the table holds, but for
  pending,       \* those of the threads that have still to flush current
  future,        \* the events of each timestamp in future_list
  todo,          \* and in todo_list
  closed,        \* the head of todo_list is marked
  array, GVT, ops_count, ops,     \* the driver's shared variables
  pc,
  draining,      \* the thread has left the main loop
  oldCur,        \* current as the dequeue() read it
  timestamp,     \* the timestamp in hand, of the caller or of a popped event
  local_min,
  balance,       \* n_dequeue - n_enqueue
  others,        \* threads whose cell a loop has still to read
  j,             \* the bucket prune() is at
  acc,           \* min, end_index or tot_count, where the thread needs one
  outcome,       \* "running", "printed", or why the program was stopped
  check          \* what main() prints after CHECK

cursor == <<current, marks>>
sizes == <<dequeue_size, table_size>>
lists == <<future, todo, closed>>
queue == <<cursor, sizes, live, pending, lists>>
cells == <<array, GVT, ops_count, ops>>
loop  == <<others, j, acc>>
own   == <<draining, timestamp, local_min, balance>>
vars  == <<queue, cells, pc, oldCur, loop, own, outcome, check>>

Sum(f) == FoldFunction(LAMBDA x, y : x + y, 0, f)
BucketOf(ts) == hash(ts, BucketWidth)

Goto(t, where) == pc' = [pc EXCEPT ![t] = where]
Set(f, t, value) == [f EXCEPT ![t] = value]

\* What a thread's copy of current is between its dequeues.
NoCursor == [index |-> 0, mark |-> InitMark]

NoEvents == [ts \in Timestamps |-> 0]
OneMore(f, ts) == Set(f, ts, f[ts] + 1)
OneLess(f, ts) == Set(f, ts, f[ts] - 1)

\* array[] is malloc'ed and never initialised; it is the first memory the
\* program takes from the heap, which the system hands over zeroed.
Init ==
  /\ current = [index |-> InitSize - 1, mark |-> InitMark]
  /\ marks = [t \in Threads |-> 0]
  /\ dequeue_size = InitSize
  /\ table_size = InitSize
  /\ live = NoEvents
  /\ pending = {}
  /\ future = NoEvents
  /\ todo = NoEvents
  /\ closed = TRUE
  /\ array = [t \in Threads |-> 0]
  /\ GVT = 0
  /\ ops_count = [t \in Threads |-> 0]
  /\ ops = [t \in Threads |-> 0]
  /\ pc = [t \in Threads |-> "start"]
  /\ draining = [t \in Threads |-> FALSE]
  /\ oldCur = [t \in Threads |-> NoCursor]
  /\ timestamp = [t \in Threads |-> 0]
  /\ local_min = [t \in Threads |-> 0]
  /\ balance = [t \in Threads |-> 0]
  /\ others = [t \in Threads |-> {}]
  /\ j = [t \in Threads |-> 0]
  /\ acc = [t \in Threads |-> 0]
  /\ outcome = "running"
  /\ check = 0

-----------------------------------------------------------------------------
\* The queue.

\* The events of the table.
Linked == {ts \in Timestamps : live[ts] > 0} \cup {timestamp[u] : u \in pending}

\* The events a walk of bucket i meets.
BucketEvents(i) ==
  {ts \in Linked :
     access_hashtable(BucketOf(ts), InitSize) = access_hashtable(i, InitSize)}

\* A write of current with the next mark of t, as a new cursor.
Drawn(t, index) == [index |-> index, mark |-> GenerateMark(t, marks[t])]
DrawMark(t) == marks' = Set(marks, t, marks[t] + 1)

Others(t) == Threads \ {t}

\* The log condition divides by LOG_PERIOD, in thread 0 and with or without LOG.
LogPeriod == (TotalOps \div Cardinality(Threads)) \div LogShare
LogCondition(t) == outcome' = IF t = 0 /\ LogPeriod = 0 THEN "SIGFPE" ELSE outcome

\* After an operation of the main loop: the prune condition.  The loops over
\* the cells of array[] and ops_count[] begin with the thread's own cell, that
\* nobody else writes, and read the others in the order of the ids.
AfterOperation(t) ==
  LET prunes == ops_count[t] % PrunePeriod = 0
  IN  /\ Goto(t, IF prunes THEN "min" ELSE "count")
      /\ others' = IF prunes THEN Set(others, t, Others(t)) ELSE others
      /\ acc' = IF prunes THEN Set(acc, t, array'[t]) ELSE acc

\* The main loop draws an enqueue: local_min plus a random update.
CallEnqueue(t) ==
  /\ pc[t] = "loop" /\ acc[t] < TotalOps
  /\ \E ts \in Timestamps :
        /\ ts >= local_min[t]
        /\ timestamp' = Set(timestamp, t, ts)
  /\ acc' = Set(acc, t, 0)
  /\ Goto(t, "insert")
  /\ UNCHANGED <<queue, cells, oldCur, others, j, draining, local_min, balance, outcome, check>>

\* insert() finds no bucket for its event and pushes it on future_list; or on
\* the list that was future_list when it read the head, and that an expander has
\* made the to-do list but not closed yet.
Push(ts) ==
  \/ /\ BucketOf(ts) >= table_size
     /\ future' = OneMore(future, ts)
     /\ UNCHANGED todo
  \/ /\ ~closed /\ 2 * BucketOf(ts) >= table_size
     /\ todo' = OneMore(todo, ts)
     /\ UNCHANGED future

\* The end of the enqueue in process(), after the loop of a collaborative one.
EndEnqueue(t) ==
  /\ local_min' = Set(local_min, t, timestamp[t])
  /\ balance' = Set(balance, t, balance[t] - 1)
  /\ timestamp' = Set(timestamp, t, 0)
  /\ IF Collaborative
     THEN Goto(t, "help") /\ UNCHANGED <<others, acc>>
     ELSE AfterOperation(t)

\* insert() links the node in its bucket.
Insert(t) ==
  /\ pc[t] = "insert"
  /\ BucketOf(timestamp[t]) < table_size
  /\ pending' = pending \cup {t}
  /\ Goto(t, "flush")
  /\ UNCHANGED <<cursor, sizes, live, lists, cells, oldCur, loop, own, outcome, check>>

\* insert() pushes it: it returns false, and enqueue() does not flush.
InsertFuture(t) ==
  /\ pc[t] = "insert"
  /\ Push(timestamp[t])
  /\ UNCHANGED <<cursor, sizes, live, pending, closed, cells, oldCur, j, draining, outcome, check>>
  /\ EndEnqueue(t)

\* flush_current().
Flush(t) ==
  /\ pc[t] = "flush"
  /\ LET ts == timestamp[t] IN
       /\ current' = IF BucketOf(ts) <= current.index THEN Drawn(t, BucketOf(ts)) ELSE current
       /\ live' = IF t \in pending THEN OneMore(live, ts) ELSE live
  /\ DrawMark(t)
  /\ pending' = pending \ {t}
  /\ UNCHANGED <<sizes, lists, cells, oldCur, j, draining, outcome, check>>
  /\ EndEnqueue(t)

\* The loop of a collaborative enqueue() ends when the to-do list is empty.
EndHelp(t) ==
  /\ pc[t] = "help" /\ todo = NoEvents
  /\ UNCHANGED <<queue, cells, oldCur, j, own, outcome, check>>
  /\ AfterOperation(t)

\* dequeue() reads current: when the main loop draws a dequeue, when tot_count
\* has reached TOTAL_OPS and the drain loop begins, and again in its own loop.
DeqRead(t) ==
  /\ \/ /\ pc[t] = "loop"
        /\ draining' = Set(draining, t, acc[t] >= TotalOps)
        /\ acc' = Set(acc, t, 0)
        /\ IF acc[t] < TotalOps THEN UNCHANGED outcome ELSE LogCondition(t)
     \/ /\ pc[t] = "read"
        /\ UNCHANGED <<draining, acc, outcome>>
  /\ oldCur' = Set(oldCur, t, current)
  /\ Goto(t, "scan")
  /\ UNCHANGED <<queue, cells, others, j, timestamp, local_min, balance, check>>

\* dequeue() walks the bucket to its first node.
DeqScan(t) ==
  /\ pc[t] = "scan"
  /\ LET events == BucketEvents(oldCur[t].index) IN
       IF events = {}
       THEN /\ Goto(t, "advance")
            /\ UNCHANGED timestamp
       ELSE /\ Goto(t, "take")
            /\ timestamp' = Set(timestamp, t, Min(events))
  /\ UNCHANGED <<queue, cells, oldCur, loop, draining, local_min, balance, outcome, check>>

\* The CAS that marks the candidate: an event with this timestamp, flushed or
\* not, or a failure because others have taken them all.
DeqTake(t) ==
  /\ pc[t] = "take"
  /\ LET ts == timestamp[t]
         early == {u \in pending : timestamp[u] = ts}
     IN \/ /\ live[ts] > 0
           /\ live' = OneLess(live, ts)
           /\ UNCHANGED <<pending, timestamp>>
           /\ balance' = Set(balance, t, balance[t] + 1)
           /\ Goto(t, "publish")
        \/ /\ \E u \in early : pending' = pending \ {u}
           /\ UNCHANGED <<live, timestamp>>
           /\ balance' = Set(balance, t, balance[t] + 1)
           /\ Goto(t, "publish")
        \/ /\ live[ts] = 0 /\ early = {}
           /\ UNCHANGED <<live, pending, balance>>
           /\ timestamp' = Set(timestamp, t, 0)
           /\ Goto(t, "read")
  /\ oldCur' = Set(oldCur, t, NoCursor)
  /\ UNCHANGED <<cursor, sizes, lists, cells, loop, draining, local_min, outcome, check>>

\* DeqAdvance, storing current without comparing it.
DeqAdvanceStore(t) ==
  /\ pc[t] = "advance" /\ oldCur[t].index + 1 < dequeue_size
  /\ current' = Drawn(t, oldCur[t].index + 1)
  /\ DrawMark(t)
  /\ oldCur' = Set(oldCur, t, NoCursor)
  /\ Goto(t, "read")
  /\ UNCHANGED <<sizes, live, pending, lists, cells, loop, own, outcome, check>>

\* The bucket was empty and there is a next one: the CAS of current to it.
DeqAdvance(t) ==
  /\ pc[t] = "advance" /\ oldCur[t].index + 1 < dequeue_size
  /\ current' = IF current = oldCur[t] THEN Drawn(t, oldCur[t].index + 1) ELSE current
  /\ DrawMark(t)
  /\ oldCur' = Set(oldCur, t, NoCursor)
  /\ Goto(t, "read")
  /\ UNCHANGED <<sizes, live, pending, lists, cells, loop, own, outcome, check>>

\* future_list is empty and as long as the table.
NoFuture == future = NoEvents /\ table_size = dequeue_size

\* The end of the table and nothing in future_list: the empty answer.
DeqEmpty(t) ==
  /\ pc[t] = "advance" /\ oldCur[t].index + 1 >= dequeue_size /\ NoFuture
  /\ oldCur' = Set(oldCur, t, NoCursor)
  /\ UNCHANGED <<queue, cells, j, own, outcome, check>>
  /\ IF draining[t]
     THEN Goto(t, "finish") /\ UNCHANGED <<others, acc>>
     ELSE AfterOperation(t)

\* The end of the table otherwise: expand_array(tmp_size).
DeqExpand(t) ==
  /\ pc[t] = "advance" /\ oldCur[t].index + 1 >= dequeue_size /\ ~NoFuture
  /\ Goto(t, "expand")
  /\ UNCHANGED <<queue, cells, oldCur, loop, own, outcome, check>>

-----------------------------------------------------------------------------
\* expand_array() and empty_todo_list().

\* old_size of expand_array(), the dequeue_size that ended the walk.
old_size(t) == oldCur[t].index + 1

\* ExpandSwap by an expander that does not look whether another has done it.
ExpandSwapAgain(t) ==
  /\ pc[t] = "expand"
  /\ table_size' = 2 * table_size
  /\ todo' = future
  /\ future' = NoEvents
  /\ closed' = FALSE
  /\ Goto(t, "close")
  /\ UNCHANGED <<cursor, dequeue_size, live, pending, cells, oldCur, loop, own, outcome, check>>

\* The new segment, and future_list made the to-do list by the first expander.
ExpandSwap(t) ==
  /\ pc[t] = "expand"
  /\ IF table_size = old_size(t)
     THEN /\ table_size' = 2 * table_size
          /\ todo' = future
          /\ future' = NoEvents
          /\ closed' = FALSE
     ELSE UNCHANGED <<table_size, lists>>
  /\ Goto(t, "close")
  /\ UNCHANGED <<cursor, dequeue_size, live, pending, cells, oldCur, loop, own, outcome, check>>

\* The head of the to-do list is marked: nothing is pushed on it any more.
ExpandClose(t) ==
  /\ pc[t] = "close"
  /\ closed' = TRUE
  /\ Goto(t, "empty")
  /\ UNCHANGED <<cursor, sizes, live, pending, future, todo, cells, oldCur, loop, own, outcome, check>>

\* empty_todo_list() pops an event, for expand_array() or for a collaborative
\* enqueue(): its CAS expects a marked head.
Pop(t) ==
  /\ pc[t] \in {"empty", "help"} /\ closed
  /\ \E ts \in Timestamps :
       /\ todo[ts] > 0
       /\ todo' = OneLess(todo, ts)
       /\ timestamp' = Set(timestamp, t, ts)
  /\ Goto(t, IF pc[t] = "empty" THEN "move" ELSE "help_move")
  /\ UNCHANGED <<cursor, sizes, live, pending, future, closed, cells, oldCur, loop>>
  /\ UNCHANGED <<draining, local_min, balance, outcome, check>>

\* insert() of the popped event, which no flush of current follows.
Move(t) ==
  /\ pc[t] \in {"move", "help_move"}
  /\ \/ /\ BucketOf(timestamp[t]) < table_size
        /\ live' = OneMore(live, timestamp[t])
        /\ UNCHANGED <<future, todo>>
     \/ /\ Push(timestamp[t])
        /\ UNCHANGED live
  /\ timestamp' = Set(timestamp, t, 0)
  /\ Goto(t, IF pc[t] = "move" THEN "empty" ELSE "help")
  /\ UNCHANGED <<cursor, sizes, pending, closed, cells, oldCur, loop>>
  /\ UNCHANGED <<draining, local_min, balance, outcome, check>>

\* The to-do list is empty: dequeue_size is doubled, unless it has been.
ExpandSize(t) ==
  /\ pc[t] = "empty" /\ todo = NoEvents
  /\ dequeue_size' = IF dequeue_size = old_size(t) THEN 2 * dequeue_size ELSE dequeue_size
  /\ Goto(t, "advance")
  /\ UNCHANGED <<cursor, table_size, live, pending, lists, cells, oldCur, loop, own, outcome, check>>

-----------------------------------------------------------------------------
\* process().

Start(t) ==
  /\ pc[t] = "start"
  /\ array' = Set(array, t, 0)
  /\ Goto(t, "loop")
  /\ UNCHANGED <<queue, GVT, ops_count, ops, oldCur, loop, own, outcome, check>>

\* array[my_id] = timestamp, in the drain loop.
PublishDraining(t) ==
  /\ pc[t] = "publish" /\ draining[t]
  /\ array' = Set(array, t, timestamp[t])
  /\ local_min' = Set(local_min, t, timestamp[t])
  /\ timestamp' = Set(timestamp, t, 0)
  /\ Goto(t, IF EmptyQueue THEN "read" ELSE "finish")
  /\ UNCHANGED <<queue, GVT, ops_count, ops, oldCur, loop, draining, balance, outcome, check>>

\* The same in the main loop; without SAFETY_CHECK the operation ends here.
Publish(t) ==
  /\ pc[t] = "publish" /\ ~draining[t]
  /\ array' = Set(array, t, timestamp[t])
  /\ IF SafetyCheck
     THEN /\ Goto(t, "check")
          /\ UNCHANGED <<timestamp, local_min, others, acc>>
     ELSE /\ timestamp' = Set(timestamp, t, 0)
          /\ local_min' = Set(local_min, t, timestamp[t])
          /\ AfterOperation(t)
  /\ UNCHANGED <<queue, GVT, ops_count, ops, oldCur, j, draining, balance, outcome, check>>

\* The comparison with GVT: exit(1) if the timestamp is below it.
CheckGVT(t) ==
  /\ pc[t] = "check"
  /\ outcome' = IF timestamp[t] < GVT THEN "ERRORE" ELSE outcome
  /\ others' = Set(others, t, Others(t))
  /\ Goto(t, "wait")
  /\ UNCHANGED <<queue, cells, oldCur, j, acc, own, check>>

\* Whether a read of array[u] keeps t waiting: u has not reached t's
\* timestamp, or has the same one and the lower id.
KeepsWaitingLower(t, u) == u < t /\ array[u] <= timestamp[t]

\* KeepsWaiting, for any equal timestamp.
KeepsWaitingEqual(t, u) == array[u] <= timestamp[t]

KeepsWaiting(t, u) ==
  array[u] < timestamp[t] \/ (array[u] = timestamp[t] /\ u < t)

\* A read of array[] that ends the wait for its thread.
WaitForCell(t) ==
  /\ pc[t] = "wait" /\ others[t] # {}
  /\ ~KeepsWaiting(t, Min(others[t]))
  /\ others' = Set(others, t, others[t] \ {Min(others[t])})
  /\ UNCHANGED <<queue, cells, pc, oldCur, j, acc, own, outcome, check>>

\* A read of array[] that does not.
Spin(t) ==
  /\ pc[t] = "wait" /\ others[t] # {}
  /\ KeepsWaiting(t, Min(others[t]))
  /\ UNCHANGED vars

\* GVT = timestamp, local_min = timestamp.
WriteGVT(t) ==
  /\ pc[t] = "wait" /\ others[t] = {}
  /\ GVT' = timestamp[t]
  /\ local_min' = Set(local_min, t, timestamp[t])
  /\ timestamp' = Set(timestamp, t, 0)
  /\ UNCHANGED <<queue, array, ops_count, ops, oldCur, j, draining, balance, outcome, check>>
  /\ AfterOperation(t)

\* EndIndex, the bucket of the minimum included.
EndIndexInclusive(m) == hash(m * ThresholdNum, ThresholdDen * BucketWidth) + 1

\* prune()'s end_index for the minimum m of array[].
EndIndex(m) == hash(m * ThresholdNum, ThresholdDen * BucketWidth)

\* One read of array[] for the minimum.
ReadMin(t) ==
  /\ pc[t] = "min" /\ others[t] # {}
  /\ LET u == Min(others[t]) IN
       /\ acc' = Set(acc, t, Min({acc[t], array[u]}))
       /\ others' = Set(others, t, others[t] \ {u})
  /\ UNCHANGED <<queue, cells, pc, oldCur, j, own, outcome, check>>

\* prune() is called with the minimum.
CallPrune(t) ==
  /\ pc[t] = "min" /\ others[t] = {}
  /\ acc' = Set(acc, t, EndIndex(acc[t]))
  /\ Goto(t, "prune")
  /\ UNCHANGED <<queue, cells, oldCur, others, j, own, outcome, check>>

\* prune() empties bucket j, and stops the program at an event nobody took.
PruneBucket(t) ==
  /\ pc[t] = "prune" /\ j[t] < acc[t]
  /\ outcome' = IF BucketEvents(j[t]) = {} THEN outcome ELSE "valid node"
  /\ j' = Set(j, t, j[t] + 1)
  /\ UNCHANGED <<queue, cells, pc, oldCur, others, acc, own, check>>

\* prune() has freed the thread's to-free chains, or was not called: the log
\* condition, and ops_count[my_id]++.
Count(t) ==
  /\ pc[t] = "count" \/ (pc[t] = "prune" /\ j[t] = acc[t])
  /\ LogCondition(t)
  /\ ops_count' = Set(ops_count, t, ops_count[t] + 1)
  /\ others' = Set(others, t, Others(t))
  /\ acc' = Set(acc, t, ops_count'[t])
  /\ j' = Set(j, t, 0)
  /\ Goto(t, "sum")
  /\ UNCHANGED <<queue, array, GVT, ops, oldCur, own, check>>

\* SumOps that keeps the last count it read.
SumOpsLast(t) ==
  /\ pc[t] = "sum"
  /\ LET u == Min(others[t]) IN
       /\ acc' = Set(acc, t, ops_count[u])
       /\ others' = Set(others, t, others[t] \ {u})
  /\ Goto(t, IF others'[t] = {} THEN "loop" ELSE "sum")
  /\ UNCHANGED <<queue, cells, oldCur, j, own, outcome, check>>

\* One read of ops_count[] for tot_count.
SumOps(t) ==
  /\ pc[t] = "sum"
  /\ LET u == Min(others[t]) IN
       /\ acc' = Set(acc, t, acc[t] + ops_count[u])
       /\ others' = Set(others, t, others[t] \ {u})
  /\ Goto(t, IF others'[t] = {} THEN "loop" ELSE "sum")
  /\ UNCHANGED <<queue, cells, oldCur, j, own, outcome, check>>

\* ops[my_id] and array[my_id] = INFTY, after the drain loop.
Finish(t) ==
  /\ pc[t] = "finish"
  /\ ops' = Set(ops, t, balance[t])
  /\ array' = Set(array, t, INFTY)
  /\ Goto(t, "done")
  /\ UNCHANGED <<queue, GVT, ops_count, oldCur, loop, own, outcome, check>>

\* main() has joined every thread and prints the sum of ops[].
PrintCheck ==
  /\ outcome = "running"
  /\ \A t \in Threads : pc[t] = "done"
  /\ check' = Sum(ops)
  /\ outcome' = "printed"
  /\ UNCHANGED <<queue, cells, pc, oldCur, loop, own>>

\* The process has ended, by itself or by exit(1).
Exited == outcome # "running" /\ UNCHANGED vars

Step(t) ==
  /\ outcome = "running"
  /\ \/ Start(t) \/ CallEnqueue(t) \/ Insert(t) \/ InsertFuture(t) \/ Flush(t) \/ EndHelp(t)
     \/ DeqRead(t) \/ DeqScan(t) \/ DeqTake(t) \/ DeqAdvance(t) \/ DeqEmpty(t) \/ DeqExpand(t)
     \/ ExpandSwap(t) \/ ExpandClose(t) \/ Pop(t) \/ Move(t) \/ ExpandSize(t)
     \/ Publish(t) \/ PublishDraining(t)
     \/ CheckGVT(t) \/ WaitForCell(t) \/ Spin(t) \/ WriteGVT(t)
     \/ ReadMin(t) \/ CallPrune(t) \/ PruneBucket(t)
     \/ Count(t) \/ SumOps(t) \/ Finish(t)

Next == (\E t \in Threads : Step(t)) \/ PrintCheck \/ Exited

Spec == Init /\ [][Next]_vars

-----------------------------------------------------------------------------
Locations == {"start", "loop", "insert", "flush", "help", "help_move",
              "read", "scan", "take", "advance", "expand", "close", "empty", "move",
              "publish", "check", "wait", "min", "prune", "count", "sum", "finish", "done"}
Reached == Timestamps \cup {0}

\* Every variable has its type, and a thread is where its locals say.
DriverTypeOK ==
  /\ current \in [index : 0..(dequeue_size - 1), mark : 0..(MarkRange - 1)]
  /\ marks \in [Threads -> Nat]
  /\ table_size \in {dequeue_size, 2 * dequeue_size}
  /\ {live, future, todo} \subseteq [Timestamps -> Nat]
  /\ pending \subseteq {t \in Threads : pc[t] = "flush"}
  /\ closed \in BOOLEAN /\ (~closed => \E t \in Threads : pc[t] = "close")
  /\ array \in [Threads -> Reached \cup {INFTY}]
  /\ GVT \in Reached
  /\ ops_count \in [Threads -> Nat]
  /\ pc \in [Threads -> Locations]
  /\ \A t \in Threads :
       /\ oldCur[t].index < dequeue_size
       /\ pc[t] \in {"insert", "flush", "help_move", "move", "take", "publish", "check", "wait"} =>
            timestamp[t] \in Timestamps
       /\ others[t] \subseteq Others(t)
       /\ others[t] # {} => pc[t] \in {"wait", "min", "sum"}
       /\ j[t] <= acc[t] /\ (j[t] > 0 => pc[t] = "prune")
       /\ local_min[t] \in Reached

\* Nothing has been pushed on future_list: the table has the buckets that
\* queue_init() allocated.
NotGrown == future = NoEvents /\ table_size = InitSize

\* As long as the table has not grown, no thread stops the program: not at a
\* timestamp below GVT (ERRORE), not at an event nobody took below the prune
\* threshold, not at a zero log period.  (An expansion links events behind
\* current and flushes nothing, and prune() may find one of those.)
NeverStopped == NotGrown => outcome \in {"running", "printed"}

\* At every size the table reaches, each of its indices has a bucket of its own
\* in a segment that expand_array() or queue_init() allocated.
BucketsApart == LayoutExact(table_size, InitSize)

\* GVT does not go back: the threads pass the safety check in timestamp order.
GVTAdvances == [][GVT' >= GVT]_vars

\* The thread is in enqueue() or in the walk of dequeue(), in bucket b.
InBucket(t, b) ==
  \/ pc[t] \in {"insert", "flush", "help_move", "move"} /\ b = BucketOf(timestamp[t])
  \/ pc[t] \in {"scan", "take"} /\ b = oldCur[t].index

HoldsBelow(u, end_index) == \E b \in 0..(end_index - 1) : InBucket(u, b)

\* What prune() assumes: no other thread holds a pointer to a node of a bucket
\* below the threshold while prune() frees those nodes.
PruneAlone ==
  \A t, u \in Threads : pc[t] = "prune" /\ u # t => ~HoldsBelow(u, acc[t])

\* The same of the threads that are still in the main loop: there the safety
\* check keeps every thread in step with the cells the threshold comes from.
\* (A thread in the drain loop publishes without waiting for anybody.)
PruneAloneInLoop ==
  \A t, u \in Threads :
    pc[t] = "prune" /\ u # t /\ ~draining[u] => ~HoldsBelow(u, acc[t])

\* When the queue was to be emptied and the table has not grown, main() prints
\* CHECK:0 and nothing is left in the queue; grown or not, CHECK is minus the
\* number of events that are left.
CheckZero ==
  outcome = "printed" =>
    /\ EmptyQueue /\ NotGrown => check = 0 /\ Linked = {}
    /\ check = 0 - (Sum(live) + (Sum(future) + Sum(todo)))

\* The threads together do TOTAL_OPS operations, and at most THREADS-1 more.
OpsBounded ==
  /\ Sum(ops_count) <= TotalOps + Cardinality(Threads) - 1
  /\ outcome = "printed" => Sum(ops_count) >= TotalOps

\* The waits for the cells of array[] never close a cycle: while the program
\* runs, some thread that has not ended is not held up by another one's cell.
SomeoneMoves ==
  outcome = "running" /\ (\E t \in Threads : pc[t] # "done") =>
    \E t \in Threads :
      /\ pc[t] # "done"
      /\ pc[t] = "wait" /\ others[t] # {} => ~KeepsWaiting(t, Min(others[t]))
      /\ pc[t] \in {"help", "empty"} => closed \/ todo = NoEvents
=============================================================================
