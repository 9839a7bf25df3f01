------------------------------ MODULE Calendar ------------------------------
(***************************************************************************)
(* The cursor protocol of the non-blocking queue over a hashtable that     *)
(* already covers every timestamp in use: enqueue() puts a node in its     *)
(* bucket and flushes queue->current back to it, dequeue() takes the first *)
(* node of the current bucket or moves queue->current one bucket on.       *)
(*                                                                         *)
(* Every action is one access to shared memory by one thread, together     *)
(* with the thread-local computation that follows it.  A bucket is atomic  *)
(* here: the linked list behind it is module BucketList, which justifies   *)
(* the three operations used (insert a node, find the first live node,     *)
(* mark a node).                                                           *)
(***************************************************************************)
EXTENDS Marks

CONSTANTS Threads,      \* lid of each thread, a set of naturals
          Nodes,        \* the nodes that can be allocated, one per enqueue
          Timestamps,   \* the keys the threads enqueue
          BucketWidth,  \* queue->bucket_width
          InitSize,     \* queue->init_size
          MaxMarks,     \* bound: marks a thread may draw
          NoNode        \* "no node": the list's tail, or an empty answer

ASSUME CalendarAssumption ==
  /\ Threads \subseteq Nat
  /\ Timestamps \subseteq Nat
  /\ BucketWidth \in Nat \ {0}
  /\ InitSize \in Nat \ {0}
  /\ MarkRange \in Nat \ {0}
  /\ MaxMarks \in Nat
  /\ NoNode \notin Nodes

VARIABLES
  current,       \* queue->current: index in the high half, mark in the low
  dequeue_size,  \* queue->dequeue_size: buckets a dequeue may visit
  place,         \* where each node is: unused, held, bucket, ..., taken (marked
                 \* and still linked), unlinked
  timestamp,     \* node->timestamp
  pc,            \* where each thread is in its operation
  node,          \* new_node of an enqueue; candidate, then answer of a dequeue
  oldCur,        \* oldCur of flush_current(), oldCurrent of dequeue()
  newCur,        \* newCur of flush_current()
  marks,         \* the thread-local counter mark
  seen,          \* nodes of the bucket when the candidate was picked
  settled,       \* history: nodes whose enqueue has returned
  before         \* history: settled nodes queued when the dequeue was called

shared == <<current, dequeue_size>>
nodes  == <<place, timestamp>>
locals == <<oldCur, newCur, marks, seen>>
history == <<settled, before>>
vars == <<shared, nodes, pc, node, locals, history>>

-----------------------------------------------------------------------------
\* BucketOf, counting buckets from one bucket too low.
BucketOfTooLow(ts) == (ts \div BucketWidth) - 1

\* hash(timestamp, bucket_width)
BucketOf(ts) == ts \div BucketWidth

\* The unmarked nodes linked in bucket i.
Bucket(i) == {n \in Nodes : place[n] = "bucket" /\ BucketOf(timestamp[n]) = i}

\* Firsts, if insert() did not keep the list sorted.
FirstsUnsorted(i) == Bucket(i)

\* Nodes a scan of bucket i can return: the list is sorted by timestamp.
Firsts(i) == {n \in Bucket(i) : \A m \in Bucket(i) : timestamp[n] <= timestamp[m]}

\* A node that was inserted and not yet taken, wherever the queue keeps it.
Queued(n) == place[n] \in {"bucket", "future", "carried"}

Cursors == [index : Nat, mark : Nat]

\* The value of a thread's copy of current while it holds none: locals are
\* cleared when the operation no longer reads them.
NoCursor == [index |-> 0, mark |-> InitMark]

Forget(f, t) == f' = [f EXCEPT ![t] = NoCursor]

Goto(t, label) == pc' = [pc EXCEPT ![t] = label]

\* NextMark, if every cursor were written with the same mark.
NextMarkConstant(t) == InitMark

NextMark(t) == GenerateMark(t, marks[t])

\* A thread draws a mark; MaxMarks bounds how many it can draw.
DrawMark(t) ==
  /\ marks[t] < MaxMarks
  /\ marks' = [marks EXCEPT ![t] = @ + 1]

-----------------------------------------------------------------------------
Init ==
  /\ current = [index |-> InitSize - 1, mark |-> InitMark]
  /\ dequeue_size = InitSize
  /\ place = [n \in Nodes |-> "unused"]
  /\ timestamp = [n \in Nodes |-> 0]
  /\ pc = [t \in Threads |-> "idle"]
  /\ node = [t \in Threads |-> NoNode]
  /\ oldCur = [t \in Threads |-> NoCursor]
  /\ newCur = [t \in Threads |-> NoCursor]
  /\ marks = [t \in Threads |-> 0]
  /\ seen = [t \in Threads |-> {}]
  /\ settled = {}
  /\ before = [t \in Threads |-> {}]

\* enqueue(): allocate the node, then go to label.
AllocateNode(t, n, ts, label) ==
  /\ pc[t] = "idle"
  /\ place[n] = "unused"
  /\ Goto(t, label)
  /\ node' = [node EXCEPT ![t] = n]
  /\ place' = [place EXCEPT ![n] = "held"]
  /\ timestamp' = [timestamp EXCEPT ![n] = ts]
  /\ UNCHANGED <<shared, locals, history>>

EnqueueCall(t, n, ts) ==
  /\ BucketOf(ts) < dequeue_size
  /\ AllocateNode(t, n, ts, "insert")

\* The CAS of insert() that links the new node, then the head of
\* flush_current(): newCur is computed before the first read of current.
Insert(t) ==
  /\ pc[t] = "insert"
  /\ place' = [place EXCEPT ![node[t]] = "bucket"]
  /\ newCur' = [newCur EXCEPT ![t] =
       [index |-> BucketOf(timestamp[node[t]]), mark |-> NextMark(t)]]
  /\ DrawMark(t)
  /\ Goto(t, "flush_read")
  /\ UNCHANGED <<shared, timestamp, node, oldCur, seen, history>>

\* FlushRead, not flushing when current is on the bucket of the new node.
FlushReadStrict(t) ==
  /\ pc[t] = "flush_read"
  /\ IF newCur[t].index < current.index
       THEN /\ oldCur' = [oldCur EXCEPT ![t] = current]
            /\ Goto(t, "flush_cas")
            /\ UNCHANGED newCur
       ELSE /\ Forget(newCur, t)
            /\ Goto(t, "enqueued")
            /\ UNCHANGED oldCur
  /\ UNCHANGED <<shared, nodes, node, marks, seen, history>>

\* search() unlinks a marked node it meets in bucket i.  The candidate of a
\* dequeue may have lost its successor: nothing it has seen can be relied on.
UnlinkIn(i) ==
  /\ \E n \in Nodes :
       /\ place[n] = "taken"
       /\ BucketOf(timestamp[n]) = i
       /\ place' = [place EXCEPT ![n] = "unlinked"]
  /\ seen' = [u \in Threads |-> IF pc[u] = "mark" /\ oldCur[u].index = i THEN {} ELSE seen[u]]
  /\ UNCHANGED <<shared, timestamp, pc, node, oldCur, newCur, marks, history>>

Unlink(t) ==
  /\ pc[t] = "insert"
  /\ UnlinkIn(BucketOf(timestamp[node[t]]))

\* flush_current() is over when current is already below the node's bucket.
FlushRead(t) ==
  /\ pc[t] = "flush_read"
  /\ IF newCur[t].index <= current.index
       THEN /\ oldCur' = [oldCur EXCEPT ![t] = current]
            /\ Goto(t, "flush_cas")
            /\ UNCHANGED newCur
       ELSE /\ Forget(newCur, t)
            /\ Goto(t, "enqueued")
            /\ UNCHANGED oldCur
  /\ UNCHANGED <<shared, nodes, node, marks, seen, history>>

\* FlushCas, retrying its CAS without reading current again.
FlushCasNoReload(t) ==
  /\ pc[t] = "flush_cas"
  /\ IF current = oldCur[t]
       THEN /\ current' = newCur[t]
            /\ Forget(newCur, t)
            /\ Forget(oldCur, t)
            /\ Goto(t, "enqueued")
       ELSE UNCHANGED <<current, newCur, oldCur, pc>>
  /\ UNCHANGED <<dequeue_size, nodes, node, marks, seen, history>>

FlushCas(t) ==
  /\ pc[t] = "flush_cas"
  /\ IF current = oldCur[t]
       THEN /\ current' = newCur[t]
            /\ Forget(newCur, t)
            /\ Goto(t, "enqueued")
       ELSE /\ Goto(t, "flush_read")
            /\ UNCHANGED <<current, newCur>>
  /\ Forget(oldCur, t)
  /\ UNCHANGED <<dequeue_size, nodes, node, marks, seen, history>>

EnqueueReturn(t) ==
  /\ pc[t] = "enqueued"
  /\ settled' = settled \cup {node[t]}
  /\ node' = [node EXCEPT ![t] = NoNode]
  /\ Goto(t, "idle")
  /\ UNCHANGED <<shared, nodes, locals, before>>

-----------------------------------------------------------------------------
DequeueCall(t) ==
  /\ pc[t] = "idle"
  /\ before' = [before EXCEPT ![t] = {n \in settled : Queued(n)}]
  /\ Goto(t, "deq_read")
  /\ UNCHANGED <<shared, nodes, node, locals, settled>>

\* Step 1: read current.  Every retry of dequeue() starts here.
DeqRead(t) ==
  /\ pc[t] = "deq_read"
  /\ oldCur' = [oldCur EXCEPT ![t] = current]
  /\ Goto(t, "scan")
  /\ UNCHANGED <<shared, nodes, node, newCur, marks, seen, history>>

\* Steps 2 to 4: the first unmarked node of the bucket, or its tail.
DeqScan(t) ==
  /\ pc[t] = "scan"
  /\ LET i == oldCur[t].index IN
       \/ /\ \E n \in Firsts(i) : node' = [node EXCEPT ![t] = n]
          /\ seen' = [seen EXCEPT ![t] = Bucket(i)]
          /\ Goto(t, "mark")
       \/ /\ Bucket(i) = {}
          /\ Goto(t, "tail")
          /\ UNCHANGED <<node, seen>>
  /\ UNCHANGED <<shared, nodes, oldCur, newCur, marks, history>>

\* DeqMark, taking the candidate even when another dequeue has marked it.
DeqMarkTwice(t) ==
  /\ pc[t] = "mark"
  /\ place' = [place EXCEPT ![node[t]] = "taken"]
  /\ seen' = [seen EXCEPT ![t] = {}]
  /\ Forget(oldCur, t)
  /\ Goto(t, "answered")
  /\ UNCHANGED <<shared, timestamp, node, newCur, marks, history>>

\* The CAS that marks the candidate's next pointer.
DeqMark(t) ==
  /\ pc[t] = "mark"
  /\ place[node[t]] = "bucket"
  /\ place' = [place EXCEPT ![node[t]] = "taken"]
  /\ seen' = [seen EXCEPT ![t] = {}]
  /\ Forget(oldCur, t)
  /\ Goto(t, "answered")
  /\ UNCHANGED <<shared, timestamp, node, newCur, marks, history>>

\* The CAS fails when the candidate was taken, and may fail when its successor
\* changed: a node was linked, or a marked one unlinked, after the scan.
DeqMarkFails(t) ==
  /\ pc[t] = "mark"
  /\ place[node[t]] # "bucket" \/ Bucket(oldCur[t].index) # seen[t]
  /\ node' = [node EXCEPT ![t] = NoNode]
  /\ seen' = [seen EXCEPT ![t] = {}]
  /\ Forget(oldCur, t)
  /\ Goto(t, "deq_read")
  /\ UNCHANGED <<shared, nodes, newCur, marks, history>>

\* Steps 7 and 8: index++, then the next bucket if the table has one.
DeqNextBucket(t) ==
  /\ pc[t] = "tail"
  /\ oldCur[t].index + 1 < dequeue_size
  /\ Goto(t, "advance")
  /\ UNCHANGED <<shared, nodes, node, locals, history>>

\* The table is exhausted and, in this module, nothing is in the future list.
DeqEmpty(t) ==
  /\ pc[t] = "tail"
  /\ oldCur[t].index + 1 >= dequeue_size
  /\ Forget(oldCur, t)
  /\ Goto(t, "answered")
  /\ UNCHANGED <<shared, nodes, node, newCur, marks, seen, history>>

\* DeqAdvance, storing the next index without comparing current.
DeqAdvanceStore(t) ==
  /\ pc[t] = "advance"
  /\ DrawMark(t)
  /\ current' = [index |-> oldCur[t].index + 1, mark |-> NextMark(t)]
  /\ Forget(oldCur, t)
  /\ Goto(t, "deq_read")
  /\ UNCHANGED <<dequeue_size, nodes, node, newCur, seen, history>>

\* Step 9: the CAS that moves current one bucket on.  Its arguments, mark
\* included, are evaluated whether or not it succeeds.
DeqAdvance(t) ==
  /\ pc[t] = "advance"
  /\ DrawMark(t)
  /\ current' = IF current = oldCur[t]
                  THEN [index |-> oldCur[t].index + 1, mark |-> NextMark(t)]
                  ELSE current
  /\ Forget(oldCur, t)
  /\ Goto(t, "deq_read")
  /\ UNCHANGED <<dequeue_size, nodes, node, newCur, seen, history>>

DequeueReturn(t) ==
  /\ pc[t] = "answered"
  /\ node' = [node EXCEPT ![t] = NoNode]
  /\ before' = [before EXCEPT ![t] = {}]
  /\ Goto(t, "idle")
  /\ UNCHANGED <<shared, nodes, locals, settled>>

-----------------------------------------------------------------------------
\* The steps of an operation that is under way.
EnqueueStep(t) ==
  \/ Unlink(t)
  \/ Insert(t)
  \/ FlushRead(t)
  \/ FlushCas(t)
  \/ EnqueueReturn(t)

DequeueStep(t) ==
  \/ DeqRead(t)
  \/ DeqScan(t)
  \/ DeqMark(t)
  \/ DeqMarkFails(t)
  \/ DeqNextBucket(t)
  \/ DeqEmpty(t)
  \/ DeqAdvance(t)
  \/ DequeueReturn(t)

Step(t) == EnqueueStep(t) \/ DequeueStep(t)

Call(t) == DequeueCall(t) \/ \E n \in Nodes, ts \in Timestamps : EnqueueCall(t, n, ts)

Next == \E t \in Threads : Call(t) \/ Step(t)

Spec == Init /\ [][Next]_vars

\* A thread in an operation is scheduled again; nothing makes it start one.
Fairness == \A t \in Threads : WF_vars(Step(t))

FairSpec == Spec /\ Fairness

-----------------------------------------------------------------------------
PlacesHere == {"unused", "held", "bucket", "taken", "unlinked"}

Labels == {"idle", "insert", "flush_read", "flush_cas", "enqueued", "deq_read",
           "scan", "mark", "tail", "advance", "answered"}

\* Every variable keeps its type.
TypeOK ==
  /\ current \in Cursors
  /\ dequeue_size = InitSize
  /\ place \in [Nodes -> PlacesHere]
  /\ timestamp \in [Nodes -> Nat]
  /\ pc \in [Threads -> Labels]
  /\ node \in [Threads -> Nodes \cup {NoNode}]
  /\ oldCur \in [Threads -> Cursors]
  /\ newCur \in [Threads -> Cursors]
  /\ marks \in [Threads -> Nat]
  /\ seen \in [Threads -> SUBSET Nodes]
  /\ settled \subseteq Nodes
  /\ before \in [Threads -> SUBSET Nodes]

\* No event is left behind the cursor: the bucket of every node that is in
\* the table and whose enqueue() has returned is at or after current's index.
\* This is what flush_current() is for, and what a dequeue() that moves
\* current on from an empty bucket must not undo, however long it slept
\* between reading current, scanning the bucket and its CAS.
CursorCovers ==
  \A n \in settled : place[n] = "bucket" => current.index <= BucketOf(timestamp[n])

\* A dequeue() never returns a node larger than an event that was settled
\* when it was called and is still queued when it answers.
TakenInOrder ==
  \A t \in Threads : pc[t] = "answered" /\ node[t] # NoNode =>
    \A y \in before[t] : Queued(y) => timestamp[node[t]] <= timestamp[y]

\* A dequeue() that reports an empty queue leaves no event behind that was
\* settled when it was called.
HonestEmpty ==
  \A t \in Threads : pc[t] = "answered" /\ node[t] = NoNode =>
    \A y \in before[t] : ~Queued(y)

\* Every call returns if its thread keeps being scheduled: the retries of
\* flush_current() and dequeue() are caused by other threads' progress.
CallsReturn == \A t \in Threads : pc[t] # "idle" ~> pc[t] = "idle"

-----------------------------------------------------------------------------
\* The refinement: the table as the pool it implements.
PoolPlace(n) ==
  IF Queued(n) THEN "queued" ELSE IF place[n] = "unlinked" THEN "taken" ELSE place[n]

PoolOp(t) ==
  CASE pc[t] \in {"idle", "answered"} -> pc[t]
    [] pc[t] = "insert" -> "enqueue"
    [] pc[t] \in {"flush_read", "flush_cas", "enqueued"} -> "inserted"
    [] OTHER -> "dequeue"

\* The candidate of a dequeue that has not answered yet is not visible.
PoolNode(t) == IF PoolOp(t) = "dequeue" THEN NoNode ELSE node[t]

Pool == INSTANCE PriorityPool WITH
  place <- [n \in Nodes |-> PoolPlace(n)],
  op <- [t \in Threads |-> PoolOp(t)],
  node <- [t \in Threads |-> PoolNode(t)]

\* Every behaviour of the table is a behaviour of the pool.
ImplementsPool == Pool!Spec
=============================================================================
