------------------------------- MODULE NBQueue ------------------------------
(***************************************************************************)
(* The whole non-blocking queue: the cursor protocol of module Calendar    *)
(* plus a hashtable that grows.  enqueue() puts an event beyond the table  *)
(* in the future list; a dequeue() that runs off the table doubles it in   *)
(* expand_array(): a new segment, the future list becomes the to-do list,  *)
(* the to-do list is closed and emptied node by node, dequeue_size grows.  *)
(*                                                                         *)
(* A list is known by the counter of its head, the table size it belongs   *)
(* to.  Every action is one access to shared memory and what the thread    *)
(* then computes from it, except that a bucket is atomic as in Calendar.   *)
(***************************************************************************)
EXTENDS Calendar, Sequences, FiniteSets

CONSTANTS Producers,      \* the threads that call enqueue()
          Consumers,      \* the threads that call dequeue()
          Collaborative,  \* queue->collaborative_todo_list
          Doublings       \* bound: times the table can double

ASSUME NBQueueAssumption ==
  /\ Producers \subseteq Threads
  /\ Consumers \subseteq Threads
  /\ Collaborative \in BOOLEAN
  /\ Doublings \in Nat
  /\ \A ts \in Timestamps : BucketOf(ts) < InitSize * 2^Doublings

VARIABLES
  future_list,  \* queue->future_list, as the counter of its head
  todo_list,    \* queue->todo_list, as the counter of its head
  list,         \* the nodes linked after each head
  closed,       \* the heads whose next is marked: no push, pops only
  table_size,   \* buckets in the segments that hashtable[] points to
  future,       \* local: tmp_node of insert(), future of dequeue() and expand_array()
  todo,         \* local: the head read from queue->todo_list
  first,        \* local: the node read from the head's next
  old_size,     \* local: old_size of expand_array(), 0 outside it
  carried,      \* local: the node empty_todo_list() has popped
  late          \* history: nodes re-inserted when their bucket was already open

heads == <<future_list, todo_list, list, closed>>
locals2 == <<future, todo, first, old_size, carried>>
added == <<heads, table_size, locals2, late>>
allVars == <<vars, added>>

-----------------------------------------------------------------------------
Sizes == {InitSize * 2^k : k \in 0 .. Doublings}

\* The head that queue_init() puts in todo_list has counter 0.
Heads == Sizes \cup {0}

\* The node after head h, NoNode for the tail.
First(h) == IF list[h] = <<>> THEN NoNode ELSE list[h][1]

\* insert() works on the popped node if there is one, else on the new one.
NodeInHand(t) == IF carried[t] # NoNode THEN carried[t] ELSE node[t]

IndexInHand(t) == BucketOf(timestamp[NodeInHand(t)])

Set(f, t, v) == f' = [f EXCEPT ![t] = v]

NBInit ==
  /\ Init
  /\ future_list = InitSize
  /\ todo_list = 0
  /\ list = [h \in Heads |-> <<>>]
  /\ closed = {0}
  /\ table_size = InitSize
  /\ future = [t \in Threads |-> 0]
  /\ todo = [t \in Threads |-> 0]
  /\ first = [t \in Threads |-> NoNode]
  /\ old_size = [t \in Threads |-> 0]
  /\ carried = [t \in Threads |-> NoNode]
  /\ late = {}

\* Steps of Calendar that the growing table leaves as they are.
Unchanged(A) == A /\ UNCHANGED added

-----------------------------------------------------------------------------
\* insert(), called with NodeInHand(t).

NBEnqueueCall(t, n, ts) ==
  /\ t \in Producers
  /\ AllocateNode(t, n, ts, "ins_head")
  /\ UNCHANGED added

InsHead(t) ==
  /\ pc[t] = "ins_head"
  /\ Set(future, t, future_list)
  /\ Goto(t, "ins_next")
  /\ UNCHANGED <<shared, nodes, node, locals, history, heads, table_size>>
  /\ UNCHANGED <<todo, first, old_size, carried, late>>

\* InsNext, starting over with the head it has instead of reading future_list.
InsNextSameHead(t) ==
  /\ pc[t] = "ins_next"
  /\ LET h == future[t] IN
       \/ /\ h \in closed
          /\ UNCHANGED <<pc, future, first>>
       \/ /\ h \notin closed
          /\ IndexInHand(t) >= h
          /\ Goto(t, "ins_push")
          /\ Set(first, t, First(h))
          /\ UNCHANGED future
       \/ /\ h \notin closed
          /\ IndexInHand(t) < h
          /\ Goto(t, IF carried[t] # NoNode THEN "move" ELSE "insert")
          /\ Set(future, t, 0)
          /\ UNCHANGED first
  /\ UNCHANGED <<shared, nodes, node, locals, history, heads, table_size>>
  /\ UNCHANGED <<todo, old_size, carried, late>>

\* The read of the head's next: start over if it is marked, go to the table
\* if the node's bucket exists, else try to push it.
InsNext(t) ==
  /\ pc[t] = "ins_next"
  /\ LET h == future[t] IN
       \/ /\ h \in closed
          /\ Goto(t, "ins_head")
          /\ Set(future, t, 0)
          /\ UNCHANGED first
       \/ /\ h \notin closed
          /\ IndexInHand(t) >= h
          /\ Goto(t, "ins_push")
          /\ Set(first, t, First(h))
          /\ UNCHANGED future
       \/ /\ h \notin closed
          /\ IndexInHand(t) < h
          /\ Goto(t, IF carried[t] # NoNode THEN "move" ELSE "insert")
          /\ Set(future, t, 0)
          /\ UNCHANGED first
  /\ UNCHANGED <<shared, nodes, node, locals, history, heads, table_size>>
  /\ UNCHANGED <<todo, old_size, carried, late>>

\* InsPush, comparing the first node but not the mark.
InsPushUnderMark(t) ==
  /\ pc[t] = "ins_push"
  /\ LET h == future[t]
         n == NodeInHand(t) IN
       IF First(h) = first[t]
         THEN /\ list' = [list EXCEPT ![h] = <<n>> \o @]
              /\ place' = [place EXCEPT ![n] = "future"]
              /\ Set(carried, t, NoNode)
              /\ Goto(t, IF old_size[t] # 0 THEN "todo_head" ELSE "enqueued")
         ELSE /\ Goto(t, "ins_head")
              /\ UNCHANGED <<list, place, carried>>
  /\ Set(future, t, 0)
  /\ Set(first, t, NoNode)
  /\ UNCHANGED <<shared, timestamp, node, locals, history>>
  /\ UNCHANGED <<future_list, todo_list, closed, table_size, todo, old_size, late>>

\* The CAS on the head's next.  A node pushed by enqueue() needs no flush.
InsPush(t) ==
  /\ pc[t] = "ins_push"
  /\ LET h == future[t]
         n == NodeInHand(t) IN
       IF h \notin closed /\ First(h) = first[t]
         THEN /\ list' = [list EXCEPT ![h] = <<n>> \o @]
              /\ place' = [place EXCEPT ![n] = "future"]
              /\ Set(carried, t, NoNode)
              /\ Goto(t, IF old_size[t] # 0 THEN "todo_head" ELSE "enqueued")
         ELSE /\ Goto(t, "ins_head")
              /\ UNCHANGED <<list, place, carried>>
  /\ Set(future, t, 0)
  /\ Set(first, t, NoNode)
  /\ UNCHANGED <<shared, timestamp, node, locals, history>>
  /\ UNCHANGED <<future_list, todo_list, closed, table_size, todo, old_size, late>>

\* search() on behalf of a popped node.
MoveUnlink(t) ==
  /\ pc[t] = "move"
  /\ UnlinkIn(IndexInHand(t))

\* insert() links a popped node in its bucket; empty_todo_list() does not
\* flush queue->current.
Move(t) ==
  /\ pc[t] = "move"
  /\ LET n == carried[t] IN
       /\ place' = [place EXCEPT ![n] = "bucket"]
       /\ late' = IF IndexInHand(t) < dequeue_size THEN late \cup {n} ELSE late
  /\ Set(carried, t, NoNode)
  /\ Goto(t, IF old_size[t] # 0 THEN "todo_head" ELSE "enqueued")
  /\ UNCHANGED <<shared, timestamp, node, locals, history, heads, table_size>>
  /\ UNCHANGED <<future, todo, first, old_size>>

-----------------------------------------------------------------------------
\* The loops of expand_array() and of a collaborative enqueue() that empty
\* the to-do list, and the empty_todo_list() they call.

\* A collaborative enqueue() enters its loop when the insertion is over.
LoopHead(t) ==
  /\ \/ pc[t] = "todo_head"
     \/ pc[t] = "enqueued" /\ Collaborative
  /\ Set(todo, t, todo_list)
  /\ Goto(t, "todo_next")
  /\ UNCHANGED <<shared, nodes, node, locals, history, heads, table_size>>
  /\ UNCHANGED <<future, first, old_size, carried, late>>

\* Nodes are left: call empty_todo_list(), which reads todo_list again.
LoopNext(t) ==
  /\ pc[t] = "todo_next"
  /\ list[todo[t]] # <<>>
  /\ Goto(t, "pop_head")
  /\ Set(todo, t, 0)
  /\ UNCHANGED <<shared, nodes, node, locals, history, heads, table_size>>
  /\ UNCHANGED <<future, first, old_size, carried, late>>

\* The list is empty: expand_array() goes on to its last CAS.
LoopEnd(t) ==
  /\ pc[t] = "todo_next"
  /\ old_size[t] # 0
  /\ list[todo[t]] = <<>>
  /\ Goto(t, "ex_size")
  /\ Set(todo, t, 0)
  /\ UNCHANGED <<shared, nodes, node, locals, history, heads, table_size>>
  /\ UNCHANGED <<future, first, old_size, carried, late>>

\* The list is empty: a collaborative enqueue() returns.
CollaborativeReturn(t) ==
  /\ pc[t] = "todo_next"
  /\ old_size[t] = 0
  /\ list[todo[t]] = <<>>
  /\ settled' = settled \cup {node[t]}
  /\ Set(node, t, NoNode)
  /\ Goto(t, "idle")
  /\ Set(todo, t, 0)
  /\ UNCHANGED <<shared, nodes, locals, before, heads, table_size>>
  /\ UNCHANGED <<future, first, old_size, carried, late>>

PopHead(t) ==
  /\ pc[t] = "pop_head"
  /\ Set(todo, t, todo_list)
  /\ Goto(t, "pop_next")
  /\ UNCHANGED <<shared, nodes, node, locals, history, heads, table_size>>
  /\ UNCHANGED <<future, first, old_size, carried, late>>

\* The read of the head's next; empty_todo_list() returns if it is the tail.
PopNext(t) ==
  /\ pc[t] = "pop_next"
  /\ IF list[todo[t]] = <<>>
       THEN /\ Set(todo, t, 0)
            /\ Goto(t, IF old_size[t] # 0 THEN "todo_head" ELSE "enqueued")
            /\ UNCHANGED first
       ELSE /\ Set(first, t, First(todo[t]))
            /\ Goto(t, "pop_cas")
            /\ UNCHANGED todo
  /\ UNCHANGED <<shared, nodes, node, locals, history, heads, table_size>>
  /\ UNCHANGED <<future, old_size, carried, late>>

\* The CAS expects a marked pointer: it fails until the list is closed.
PopCas(t) ==
  /\ pc[t] = "pop_cas"
  /\ LET h == todo[t] IN
       IF h \in closed /\ First(h) = first[t]
         THEN /\ list' = [list EXCEPT ![h] = Tail(@)]
              /\ place' = [place EXCEPT ![first[t]] = "carried"]
              /\ Set(carried, t, first[t])
              /\ Set(todo, t, 0)
              /\ Goto(t, "ins_head")
         ELSE /\ Goto(t, "pop_next")
              /\ UNCHANGED <<list, place, carried, todo>>
  /\ Set(first, t, NoNode)
  /\ UNCHANGED <<shared, timestamp, node, locals, history>>
  /\ UNCHANGED <<future_list, todo_list, closed, table_size, future, old_size, late>>

-----------------------------------------------------------------------------
\* dequeue() at the end of the table.

NBDequeueCall(t) ==
  /\ t \in Consumers
  /\ DequeueCall(t)
  /\ UNCHANGED added

\* index++ leaves the table: tmp_size is kept for what follows.
DeqTableEnd(t) ==
  /\ pc[t] = "tail"
  /\ oldCur[t].index + 1 >= dequeue_size
  /\ Set(old_size, t, dequeue_size)
  /\ Goto(t, "fut_head")
  /\ UNCHANGED <<shared, nodes, node, locals, history, heads, table_size>>
  /\ UNCHANGED <<future, todo, first, carried, late>>

DeqFutureHead(t) ==
  /\ pc[t] = "fut_head"
  /\ Set(future, t, future_list)
  /\ Goto(t, "fut_next")
  /\ UNCHANGED <<shared, nodes, node, locals, history, heads, table_size>>
  /\ UNCHANGED <<todo, first, old_size, carried, late>>

\* NoFuture, without looking for a node in the list.
NoFutureUnread(t) == future[t] \notin closed /\ future[t] = old_size[t]

\* Empty, unmarked and of the size of the table: the queue is empty.
NoFuture(t) ==
  /\ list[future[t]] = <<>>
  /\ future[t] \notin closed
  /\ future[t] = old_size[t]

DeqFutureNext(t) ==
  /\ pc[t] = "fut_next"
  /\ Set(future, t, 0)
  /\ IF NoFuture(t)
       THEN /\ Goto(t, "answered")
            /\ Forget(oldCur, t)
            /\ Set(old_size, t, 0)
       ELSE /\ Goto(t, "ex_check")
            /\ UNCHANGED <<oldCur, old_size>>
  /\ UNCHANGED <<shared, nodes, node, newCur, marks, seen, history, heads, table_size>>
  /\ UNCHANGED <<todo, first, carried, late>>

-----------------------------------------------------------------------------
\* expand_array(queue, old_size).

\* It returns at once if dequeue_size has grown since dequeue() read it.
ExpandCheck(t) ==
  /\ pc[t] = "ex_check"
  /\ IF dequeue_size # old_size[t]
       THEN Goto(t, "advance") /\ Set(old_size, t, 0)
       ELSE Goto(t, "ex_future") /\ UNCHANGED old_size
  /\ UNCHANGED <<shared, nodes, node, locals, history, heads, table_size>>
  /\ UNCHANGED <<future, todo, first, carried, late>>

\* Another thread is past these steps if future_list is of a larger size.
ExpandFuture(t) ==
  /\ pc[t] = "ex_future"
  /\ IF future_list = old_size[t]
       THEN Goto(t, "ex_alloc") /\ Set(future, t, future_list)
       ELSE Goto(t, "ex_mark") /\ UNCHANGED future
  /\ UNCHANGED <<shared, nodes, node, locals, history, heads, table_size>>
  /\ UNCHANGED <<todo, first, old_size, carried, late>>

\* ExpandAlloc, publishing the segment after another thread has grown the table.
ExpandAllocStore(t) ==
  /\ pc[t] = "ex_alloc"
  /\ table_size' = 2 * old_size[t]
  /\ Goto(t, "ex_todo")
  /\ UNCHANGED <<shared, nodes, node, locals, history, heads, locals2, late>>

\* The CAS that publishes the segment for buckets old_size .. 2*old_size - 1.
ExpandAlloc(t) ==
  /\ pc[t] = "ex_alloc"
  /\ table_size' = IF table_size = old_size[t] THEN 2 * old_size[t] ELSE table_size
  /\ Goto(t, "ex_todo")
  /\ UNCHANGED <<shared, nodes, node, locals, history, heads, locals2, late>>

ExpandTodo(t) ==
  /\ pc[t] = "ex_todo"
  /\ IF todo_list < old_size[t]
       THEN Goto(t, "ex_todo_cas") /\ Set(todo, t, todo_list)
       ELSE Goto(t, "ex_new") /\ UNCHANGED todo
  /\ UNCHANGED <<shared, nodes, node, locals, history, heads, table_size>>
  /\ UNCHANGED <<future, first, old_size, carried, late>>

\* ExpandTodoCas, storing the head without comparing todo_list.
ExpandTodoStore(t) ==
  /\ pc[t] = "ex_todo_cas"
  /\ todo_list' = future[t]
  /\ Set(todo, t, 0)
  /\ Goto(t, "ex_new")
  /\ UNCHANGED <<shared, nodes, node, locals, history, table_size>>
  /\ UNCHANGED <<future_list, list, closed, future, first, old_size, carried, late>>

\* The future list becomes the to-do list.
ExpandTodoCas(t) ==
  /\ pc[t] = "ex_todo_cas"
  /\ todo_list' = IF todo_list = todo[t] THEN future[t] ELSE todo_list
  /\ Set(todo, t, 0)
  /\ Goto(t, "ex_new")
  /\ UNCHANGED <<shared, nodes, node, locals, history, table_size>>
  /\ UNCHANGED <<future_list, list, closed, future, first, old_size, carried, late>>

\* A new, empty future list of twice the size.
ExpandNewFuture(t) ==
  /\ pc[t] = "ex_new"
  /\ future_list' = IF future_list = future[t] THEN 2 * old_size[t] ELSE future_list
  /\ Set(future, t, 0)
  /\ Goto(t, "ex_mark")
  /\ UNCHANGED <<shared, nodes, node, locals, history, table_size>>
  /\ UNCHANGED <<todo_list, list, closed, todo, first, old_size, carried, late>>

ExpandMarkHead(t) ==
  /\ pc[t] = "ex_mark"
  /\ Set(todo, t, todo_list)
  /\ Goto(t, "ex_mark_next")
  /\ UNCHANGED <<shared, nodes, node, locals, history, heads, table_size>>
  /\ UNCHANGED <<future, first, old_size, carried, late>>

ExpandMarkNext(t) ==
  /\ pc[t] = "ex_mark_next"
  /\ IF todo[t] \in closed
       THEN Goto(t, "todo_head") /\ Set(todo, t, 0) /\ UNCHANGED first
       ELSE Goto(t, "ex_mark_cas") /\ Set(first, t, First(todo[t])) /\ UNCHANGED todo
  /\ UNCHANGED <<shared, nodes, node, locals, history, heads, table_size>>
  /\ UNCHANGED <<future, old_size, carried, late>>

\* The CAS that closes the to-do list, unless a push changed its first node.
ExpandMarkCas(t) ==
  /\ pc[t] = "ex_mark_cas"
  /\ IF todo[t] \notin closed /\ First(todo[t]) = first[t]
       THEN closed' = closed \cup {todo[t]} /\ Goto(t, "todo_head")
       ELSE UNCHANGED closed /\ Goto(t, "ex_mark")
  /\ Set(todo, t, 0)
  /\ Set(first, t, NoNode)
  /\ UNCHANGED <<shared, nodes, node, locals, history, table_size>>
  /\ UNCHANGED <<future_list, todo_list, list, future, old_size, carried, late>>

\* ExpandSize, doubling whatever size it finds.
ExpandSizeTwice(t) ==
  /\ pc[t] = "ex_size"
  /\ dequeue_size' = 2 * dequeue_size
  /\ Set(old_size, t, 0)
  /\ Goto(t, "advance")
  /\ UNCHANGED <<current, nodes, node, locals, history, heads, table_size>>
  /\ UNCHANGED <<future, todo, first, carried, late>>

\* The iCAS on dequeue_size.  Whoever succeeded, it is now larger than
\* old_size, so expand_array() returns true and dequeue() moves on.
ExpandSize(t) ==
  /\ pc[t] = "ex_size"
  /\ dequeue_size' = IF dequeue_size = old_size[t] THEN 2 * old_size[t] ELSE dequeue_size
  /\ Set(old_size, t, 0)
  /\ Goto(t, "advance")
  /\ UNCHANGED <<current, nodes, node, locals, history, heads, table_size>>
  /\ UNCHANGED <<future, todo, first, carried, late>>

-----------------------------------------------------------------------------
NBEnqueueStep(t) ==
  \/ Unchanged(Unlink(t))
  \/ Unchanged(Insert(t))
  \/ Unchanged(FlushRead(t))
  \/ Unchanged(FlushCas(t))
  \/ Unchanged(~Collaborative /\ EnqueueReturn(t))
  \/ CollaborativeReturn(t)

InsertStep(t) ==
  \/ InsHead(t)
  \/ InsNext(t)
  \/ InsPush(t)
  \/ Unchanged(MoveUnlink(t))
  \/ Move(t)

TodoStep(t) ==
  \/ LoopHead(t)
  \/ LoopNext(t)
  \/ LoopEnd(t)
  \/ PopHead(t)
  \/ PopNext(t)
  \/ PopCas(t)

NBDequeueStep(t) ==
  \/ Unchanged(DeqRead(t))
  \/ Unchanged(DeqScan(t))
  \/ Unchanged(DeqMark(t))
  \/ Unchanged(DeqMarkFails(t))
  \/ Unchanged(DeqNextBucket(t))
  \/ DeqTableEnd(t)
  \/ DeqFutureHead(t)
  \/ DeqFutureNext(t)
  \/ Unchanged(DeqAdvance(t))
  \/ Unchanged(DequeueReturn(t))

ExpandStep(t) ==
  \/ ExpandCheck(t)
  \/ ExpandFuture(t)
  \/ ExpandAlloc(t)
  \/ ExpandTodo(t)
  \/ ExpandTodoCas(t)
  \/ ExpandNewFuture(t)
  \/ ExpandMarkHead(t)
  \/ ExpandMarkNext(t)
  \/ ExpandMarkCas(t)
  \/ ExpandSize(t)

NBStep(t) == NBEnqueueStep(t) \/ InsertStep(t) \/ TodoStep(t) \/ NBDequeueStep(t) \/ ExpandStep(t)

NBCall(t) ==
  \/ NBDequeueCall(t)
  \/ \E n \in Nodes, ts \in Timestamps : NBEnqueueCall(t, n, ts)

NBNext == \E t \in Threads : NBCall(t) \/ NBStep(t)

NBSpec == NBInit /\ [][NBNext]_allVars

NBFairSpec == NBSpec /\ \A t \in Threads : WF_allVars(NBStep(t))

-----------------------------------------------------------------------------
NBLabels == Labels \cup
  {"ins_head", "ins_next", "ins_push", "move", "todo_head", "todo_next", "pop_head",
   "pop_next", "pop_cas", "fut_head", "fut_next", "ex_check", "ex_future", "ex_alloc",
   "ex_todo", "ex_todo_cas", "ex_new", "ex_mark", "ex_mark_next", "ex_mark_cas", "ex_size"}

\* Every variable keeps its type.
NBTypeOK ==
  /\ current \in Cursors
  /\ {dequeue_size, table_size, future_list} \subseteq Sizes
  /\ place \in [Nodes -> PlacesHere \cup {"future", "carried"}]
  /\ timestamp \in [Nodes -> Nat]
  /\ pc \in [Threads -> NBLabels]
  /\ {node, first, carried} \subseteq [Threads -> Nodes \cup {NoNode}]
  /\ {oldCur, newCur} \subseteq [Threads -> Cursors]
  /\ marks \in [Threads -> Nat]
  /\ seen \in [Threads -> SUBSET Nodes]
  /\ {settled, late} \subseteq SUBSET Nodes
  /\ before \in [Threads -> SUBSET Nodes]
  /\ todo_list \in Heads
  /\ list \in [Heads -> Seq(Nodes)]
  /\ closed \subseteq Heads
  /\ {future, todo, old_size} \subseteq [Threads -> Heads]

\* No event is lost or doubled while the table grows: a node is in the two
\* lists as often as its place says, a popped one is in the hands of one
\* thread, and a list that queue points to no more is empty.
NodesConserved ==
  /\ \A n \in Nodes :
       LET links == UNION {{h} \X {i \in DOMAIN list[h] : list[h][i] = n} : h \in Heads}
           hands == {t \in Threads : carried[t] = n} IN
       /\ Cardinality(links) = IF place[n] = "future" THEN 1 ELSE 0
       /\ Cardinality(hands) = IF place[n] = "carried" THEN 1 ELSE 0
  /\ \A h \in Heads : h \notin {future_list, todo_list} => list[h] = <<>>

\* No thread addresses a bucket of a segment that does not exist yet: the
\* segment is published before future_list grows and dequeue_size after it.
SegmentsExist ==
  /\ future_list <= table_size
  /\ dequeue_size <= future_list
  /\ current.index < dequeue_size
  /\ \A t \in Threads :
       /\ pc[t] = "advance" => oldCur[t].index + 1 < dequeue_size
       /\ pc[t] \in {"insert", "move"} => IndexInHand(t) < table_size

\* While the table grows, no event is left behind the cursor except one that
\* an expansion re-inserted after dequeues had been let into its bucket: such
\* an event may stay behind current for good, insert() does not flush it.
OnlyLateStranded ==
  \A n \in settled \ late : place[n] = "bucket" => current.index <= BucketOf(timestamp[n])

\* A closed list is never re-opened nor pushed to, so the popped nodes cannot
\* come back under a CAS that compares first nodes only.
ClosedListsShrink ==
  [][\A h \in closed : h \in closed' /\ (list'[h] = list[h] \/ list'[h] = Tail(list[h]))]_allVars

\* Every call returns if every thread keeps being scheduled.
NBCallsReturn == \A t \in Threads : pc[t] # "idle" ~> pc[t] = "idle"

\* If a call is under way, some call returns: no thread that stops inside
\* the queue keeps another one from completing.
SomeCallReturns == []<>(\E t \in Threads : pc[t] = "idle")

-----------------------------------------------------------------------------
\* The whole queue as the pool it implements when one thread dequeues.
NBPoolOp(t) ==
  IF pc[t] \in {"idle", "answered"} THEN pc[t]
  ELSE IF node[t] = NoNode \/ pc[t] = "mark" THEN "dequeue"
  ELSE IF place[node[t]] = "held" THEN "enqueue"
  ELSE "inserted"

NBPoolNode(t) == IF NBPoolOp(t) = "dequeue" THEN NoNode ELSE node[t]

NBPool == INSTANCE PriorityPool WITH
  place <- [n \in Nodes |-> PoolPlace(n)],
  op <- [t \in Threads |-> NBPoolOp(t)],
  node <- [t \in Threads |-> NBPoolNode(t)]

\* Every behaviour of the growing queue is a behaviour of the pool.
NBImplementsPool == NBPool!Spec
=============================================================================
