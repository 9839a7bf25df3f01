---------------------------- MODULE NBTableProofs ----------------------------
(***************************************************************************)
(* Proofs about the growing table of module NBQueue, for any number of     *)
(* threads, nodes and doublings: how the sizes, the two lists and what     *)
(* each thread has read of them fit together.  From this follow the        *)
(* types, that no event is lost or doubled, that no bucket is addressed    *)
(* before its segment exists, and that a closed list only shrinks.         *)
(*                                                                         *)
(* Most lemmas are about one step of NBNext: one case per action, which    *)
(* names the parts of the invariant the action depends on.                 *)
(***************************************************************************)
EXTENDS NBQueue, CalendarProofs, NumberLemmas

\* The table can double from size h.
Grows(h) == 2 * h \in Sizes

\* A head nothing will be pushed after any more, nor is there anything to pop.
Retired(h) == h \in closed /\ list[h] = <<>>

\* How the sizes that the shared fields hold are related.
TableOk ==
  /\ future_list \in {dequeue_size, 2 * dequeue_size}
  /\ table_size \in {dequeue_size, 2 * dequeue_size}
  /\ future_list <= table_size
  /\ todo_list = dequeue_size \/ (todo_list < dequeue_size /\ Retired(todo_list))
  /\ dequeue_size = InitSize \/ dequeue_size <= 2 * todo_list
  /\ todo_list = dequeue_size => Grows(dequeue_size)
  /\ future_list # dequeue_size => todo_list = dequeue_size

\* Only the to-do list and lists used up before are closed, and a list that
\* queue points to no more is empty.
ClosedOk ==
  /\ \A h \in closed \ {0} : h <= dequeue_size /\ Grows(h)
  /\ future_list \in closed => future_list = todo_list
  /\ \A h \in Heads : h \notin {future_list, todo_list} => list[h] = <<>>

\* The lists hold the nodes whose place says so, each once, and none whose
\* bucket comes before the list's size.
LinksOk ==
  /\ \A h \in Heads : \A i \in DOMAIN list[h] :
       place[list[h][i]] = "future" /\ h <= BucketOf(timestamp[list[h][i]])
  /\ \A g, h \in Heads : \A i \in DOMAIN list[g] : \A j \in DOMAIN list[h] :
       list[g][i] = list[h][j] => g = h /\ i = j
  /\ \A n \in Nodes : place[n] = "future" =>
       \E h \in Heads : \E i \in DOMAIN list[h] : list[h][i] = n

\* Where a thread pushes a node, pops nodes, opens the next list of futures, and
\* closes the to-do list.
InsertLabels == {"ins_head", "ins_next", "ins_push"}
TodoLabels == {"todo_head", "todo_next", "pop_head", "pop_next", "pop_cas"}
OpenLabels == {"ex_future", "ex_alloc", "ex_todo", "ex_todo_cas", "ex_new"}
MarkLabels == {"ex_mark", "ex_mark_next", "ex_mark_cas"}

\* The thread is inserting the node it allocated.
Inserting(t) == pc[t] = "insert" \/ (pc[t] \in InsertLabels /\ carried[t] = NoNode)

\* The thread is inside an enqueue(), past the allocation.
InEnqueue(t) ==
  \/ pc[t] \in Enqueuing
  \/ pc[t] \in InsertLabels \cup TodoLabels \cup {"move"} /\ old_size[t] = 0

\* A new node belongs to the thread that inserts it.
NewOk ==
  /\ \A t \in Threads : InEnqueue(t) => node[t] \in Nodes
  /\ \A t \in Threads : Inserting(t) => InEnqueue(t) /\ place[node[t]] = "held"
  /\ \A t, u \in Threads : Inserting(t) /\ Inserting(u) /\ node[t] = node[u] => t = u

\* A popped node is in the hands of one thread.
CarryOk ==
  /\ \A t \in Threads : carried[t] # NoNode =>
       pc[t] \in InsertLabels \cup {"move"} /\ place[carried[t]] = "carried"
  /\ \A t \in Threads : pc[t] = "move" => carried[t] # NoNode
  /\ \A t, u \in Threads : carried[t] # NoNode /\ carried[t] = carried[u] => t = u
  /\ \A n \in Nodes : place[n] = "carried" => \E t \in Threads : carried[t] = n

\* Candidates and first nodes are nodes, and a node in use has its timestamp.
ReadOk ==
  /\ \A t \in Threads : pc[t] = "mark" => node[t] \in Nodes
  /\ \A t \in Threads : pc[t] = "pop_cas" => first[t] \in Nodes
  /\ \A n \in Nodes : place[n] # "unused" => timestamp[n] \in Timestamps

\* What is in the threads' hands.
HandsOk == NewOk /\ CarryOk /\ ReadOk

\* The heads a thread has read are those queue points to, or retired.
HeadsOf(t) ==
  /\ pc[t] \in {"ins_next", "ins_push", "fut_next"} =>
       /\ future[t] \in {dequeue_size, future_list} \/ Retired(future[t])
       /\ future[t] <= future_list
  /\ pc[t] = "ins_push" => future[t] <= IndexInHand(t)
  /\ pc[t] \in {"insert", "move"} => IndexInHand(t) < table_size
  /\ pc[t] \in MarkLabels \ {"ex_mark"} => todo[t] = todo_list \/ Retired(todo[t])

\* Every thread knows as much.
HeadsKnown == \A t \in Threads : HeadsOf(t)

\* What a dequeue() that grows the table knows, in expand_array() and before.
Expander(t) ==
  old_size[t] # 0 =>
    /\ pc[t] \in InsertLabels \cup TodoLabels \cup OpenLabels \cup MarkLabels
                 \cup {"move", "fut_head", "fut_next", "ex_check", "ex_size"}
    /\ oldCur[t].index < old_size[t]
    /\ old_size[t] = dequeue_size \/ (2 * old_size[t] <= dequeue_size /\ Grows(old_size[t]))
    /\ pc[t] = "fut_next" => old_size[t] <= future[t]
    /\ pc[t] \notin {"fut_head", "fut_next"} => Grows(old_size[t])
    /\ pc[t] \in {"ex_alloc", "ex_todo", "ex_todo_cas", "ex_new"} => future[t] = old_size[t]
    /\ pc[t] = "ex_todo_cas" => todo[t] < old_size[t]
    /\ old_size[t] = dequeue_size =>
         /\ pc[t] \in {"ex_todo", "ex_todo_cas", "ex_new"} => table_size = 2 * dequeue_size
         /\ pc[t] = "ex_todo_cas" => todo[t] = todo_list \/ todo_list = dequeue_size
         /\ pc[t] = "ex_new" => todo_list = dequeue_size
         /\ pc[t] \notin OpenLabels \cup {"fut_head", "fut_next", "ex_check"} =>
              future_list = 2 * dequeue_size
         /\ pc[t] \in {"ex_mark_next", "ex_mark_cas", "todo_next"} => todo[t] = todo_list
         /\ pc[t] \in TodoLabels \cup InsertLabels \cup {"move", "ex_size"} => dequeue_size \in closed
         /\ pc[t] = "ex_size" => list[dequeue_size] = <<>>

\* A dequeue() that grows the table or is about to knows the size it read.
SizeRead(t) ==
  pc[t] \in OpenLabels \cup MarkLabels \cup {"fut_head", "fut_next", "ex_check", "ex_size"} =>
    old_size[t] \in Sizes

\* Every thread that grows the table knows as much.
ExpandersKnow == \A t \in Threads : Expander(t) /\ SizeRead(t)

\* The cursor stays inside the part of the table dequeue() may visit.
CursorOf(t) ==
  /\ pc[t] \in {"scan", "tail"} => oldCur[t].index < dequeue_size
  /\ pc[t] = "advance" => oldCur[t].index + 1 < dequeue_size
  /\ pc[t] \in Flushing => node[t] \in Nodes /\ place[node[t]] # "unused"
  /\ pc[t] \in Flushing => newCur[t].index = BucketOf(timestamp[node[t]])
  /\ pc[t] = "flush_cas" => newCur[t].index <= oldCur[t].index

\* So do all copies of the cursor.
CursorInside ==
  /\ current.index < dequeue_size
  /\ \A t \in Threads : CursorOf(t)

\* The inductive invariant of the growing table.
GrowInv ==
  /\ NBTypeOK
  /\ TableOk
  /\ ClosedOk
  /\ LinksOk
  /\ HandsOk
  /\ HeadsKnown
  /\ ExpandersKnow
  /\ CursorInside

-----------------------------------------------------------------------------
\* A table size is a positive number, at least the initial one.
LEMMA SizesAbove == \A h \in Sizes : h \in Nat /\ InitSize <= h /\ 0 < h
  <1> TAKE h \in Sizes
  <1>1. PICK k \in 0 .. Doublings : h = InitSize * 2^k
    BY DEF Sizes
  <1>2. k \in Nat /\ InitSize \in Nat /\ 0 < InitSize
    BY <1>1, NBQueueAssumption, CalendarAssumption
  <1>3. 2^k \in Nat
    BY <1>2, Doubled
  <1>4. 2^k # 0
    <2>1. IsFiniteSet(1 .. k) /\ Cardinality(1 .. k) = k
      BY <1>2, FS_Interval
    <2>2. IsFiniteSet(SUBSET (1 .. k)) /\ Cardinality(SUBSET (1 .. k)) = 2^k
      BY <2>1, FS_SUBSET
    <2>3. SUBSET (1 .. k) # {}
      OBVIOUS
    <2> QED
      BY <2>2, <2>3, FS_EmptySet, Zenon
  <1>5. \A i, p \in Nat : 0 < i /\ p # 0 => i * p \in Nat /\ i <= i * p /\ 0 < i * p
    OBVIOUS
  <1> HIDE DEF Sizes
  <1> QED
    BY <1>1, <1>2, <1>3, <1>4, <1>5, Zenon

\* The table starts with one of its sizes.
LEMMA InitSizeIn == InitSize \in Sizes
  <1>1. 2^0 = 1 /\ 0 \in 0 .. Doublings
    BY NBQueueAssumption
  <1>2. InitSize * 1 = InitSize
    BY CalendarAssumption
  <1> QED
    BY <1>1, <1>2 DEF Sizes

\* The table can double from every size but the last one.
LEMMA CanGrow == \A h \in Sizes : h < InitSize * 2^Doublings => Grows(h)
  <1> TAKE h \in Sizes
  <1> HAVE h < InitSize * 2^Doublings
  <1>1. PICK k \in 0 .. Doublings : h = InitSize * 2^k
    BY DEF Sizes
  <1>2. k # Doublings
    <2>1. h \in Nat
      BY SizesAbove
    <2> QED
      BY <1>1, <2>1
  <1>3. k \in Nat /\ k + 1 \in 0 .. Doublings /\ InitSize \in Nat
    BY <1>1, <1>2, NBQueueAssumption, CalendarAssumption
  <1>4. 2^k \in Nat /\ 2^(k + 1) = 2 * 2^k
    BY <1>3, Doubled
  <1>5. \A i, p \in Nat : 2 * (i * p) = i * (2 * p)
    OBVIOUS
  <1>6. 2 * h = InitSize * 2^(k + 1)
    BY <1>1, <1>3, <1>4, <1>5, Zenon
  <1> QED
    BY <1>3, <1>6 DEF Grows, Sizes

\* A bucket an event can need lies in a table that can still be reached.
LEMMA BeyondGrows ==
  ASSUME NEW h \in Sizes, NEW ts \in Timestamps, h <= BucketOf(ts)
  PROVE  Grows(h)
  <1>1. BucketOf(ts) \in Nat /\ BucketOf(ts) < InitSize * 2^Doublings
    BY BucketOfNat, NBQueueAssumption, CalendarAssumption
  <1>2. h \in Nat /\ InitSize * 2^Doublings \in Nat
    BY SizesAbove, Doubled, NBQueueAssumption, CalendarAssumption
  <1>3. h < InitSize * 2^Doublings
    BY <1>1, <1>2
  <1> QED
    BY <1>3, CanGrow

\* Pushing a node in front of a list.
LEMMA PushElements ==
  ASSUME NEW S, NEW s \in Seq(S), NEW n \in S
  PROVE  /\ <<n>> \o s \in Seq(S)
         /\ DOMAIN (<<n>> \o s) = 1 .. (Len(s) + 1)
         /\ (<<n>> \o s)[1] = n
         /\ \A i \in DOMAIN s : i + 1 \in DOMAIN (<<n>> \o s) /\ (<<n>> \o s)[i + 1] = s[i]
  OBVIOUS

\* Popping the first node of a list.
LEMMA PopElements ==
  ASSUME NEW S, NEW s \in Seq(S), s # <<>>
  PROVE  /\ s[1] \in S
         /\ Tail(s) \in Seq(S)
         /\ DOMAIN Tail(s) = 1 .. (Len(s) - 1)
         /\ \A i \in DOMAIN Tail(s) : i + 1 \in DOMAIN s /\ Tail(s)[i] = s[i + 1]
  OBVIOUS

\* NBTypeOK in three parts.
TypeTable ==
  /\ current \in Cursors
  /\ dequeue_size \in Sizes
  /\ table_size \in Sizes
  /\ future_list \in Sizes
  /\ todo_list \in Heads
  /\ list \in [Heads -> Seq(Nodes)]
  /\ closed \in SUBSET Heads

\* All the places a node can be in.
AllPlaces == PlacesHere \cup {"future", "carried"}

\* The types of nodes.
TypeNodes ==
  /\ place \in [Nodes -> AllPlaces]
  /\ timestamp \in [Nodes -> Nat]
  /\ settled \in SUBSET Nodes
  /\ late \in SUBSET Nodes

\* A node, or none.
SomeNode == Nodes \cup {NoNode}

\* The types of control.
TypePc == pc \in [Threads -> NBLabels]

\* The types of what threads keep.
TypeLocals ==
  /\ node \in [Threads -> SomeNode]
  /\ first \in [Threads -> SomeNode]
  /\ carried \in [Threads -> SomeNode]
  /\ oldCur \in [Threads -> Cursors]
  /\ newCur \in [Threads -> Cursors]
  /\ marks \in [Threads -> Nat]
  /\ seen \in [Threads -> SUBSET Nodes]
  /\ before \in [Threads -> SUBSET Nodes]
  /\ future \in [Threads -> Heads]
  /\ todo \in [Threads -> Heads]
  /\ old_size \in [Threads -> Heads]

\* The types, part by part.
LEMMA TypeParts == NBTypeOK <=> TypeTable /\ TypeNodes /\ TypePc /\ TypeLocals
  BY DEF NBTypeOK, TypeTable, TypeNodes, TypePc, TypeLocals, SomeNode, AllPlaces

\* The same, after a step.
LEMMA TypePartsNext == NBTypeOK' <=> TypeTable' /\ TypeNodes' /\ TypePc' /\ TypeLocals'
  BY DEF NBTypeOK, TypeTable, TypeNodes, TypePc, TypeLocals, SomeNode, AllPlaces

\* Table sizes are heads, and heads are numbers.
LEMMA HeadsAre == Sizes \subseteq Heads /\ 0 \in Heads /\ Heads \subseteq Nat
  BY SizesAbove DEF Heads

\* The labels one by one, so that no proof has to expand the set.
LEMMA LabelsIn ==
  /\ "idle" \in NBLabels /\ "insert" \in NBLabels /\ "flush_read" \in NBLabels /\ "flush_cas" \in NBLabels
  /\ "enqueued" \in NBLabels /\ "deq_read" \in NBLabels /\ "scan" \in NBLabels /\ "mark" \in NBLabels
  /\ "tail" \in NBLabels /\ "advance" \in NBLabels /\ "answered" \in NBLabels /\ "ins_head" \in NBLabels
  /\ "ins_next" \in NBLabels /\ "ins_push" \in NBLabels /\ "move" \in NBLabels /\ "todo_head" \in NBLabels
  /\ "todo_next" \in NBLabels /\ "pop_head" \in NBLabels /\ "pop_next" \in NBLabels /\ "pop_cas" \in NBLabels
  /\ "fut_head" \in NBLabels /\ "fut_next" \in NBLabels /\ "ex_check" \in NBLabels /\ "ex_future" \in NBLabels
  /\ "ex_alloc" \in NBLabels /\ "ex_todo" \in NBLabels /\ "ex_todo_cas" \in NBLabels /\ "ex_new" \in NBLabels
  /\ "ex_mark" \in NBLabels /\ "ex_mark_next" \in NBLabels /\ "ex_mark_cas" \in NBLabels /\ "ex_size" \in NBLabels
  BY DEF NBLabels, Labels

\* Both kinds of value that a thread keeps for a node.
LEMMA NodesIn == NoNode \in SomeNode /\ Nodes \subseteq SomeNode
  BY DEF SomeNode

\* A bucket and a mark make a cursor.
LEMMA CursorMake == \A i, m \in Nat : [index |-> i, mark |-> m] \in Cursors
  BY DEF Cursors

\* The value of a cursor that is not in use.
LEMMA NoCursorIn == NoCursor \in Cursors
  BY DEF Cursors, NoCursor, InitMark

\* The fields of a cursor are numbers.
LEMMA CursorFields == \A c \in Cursors : c.index \in Nat /\ c.mark \in Nat
  BY DEF Cursors

\* What a thread reads after a head is a node or the tail.
LEMMA FirstIn == TypeTable => \A h \in Heads : First(h) \in SomeNode
  <1> SUFFICES ASSUME TypeTable, NEW h \in Heads PROVE First(h) \in SomeNode
    OBVIOUS
  <1>1. list[h] \in Seq(Nodes)
    BY DEF TypeTable
  <1>2. list[h] # <<>> => list[h][1] \in Nodes
    BY <1>1
  <1> QED
    BY <1>2, NodesIn DEF First

\* Marks, and how many were drawn, are numbers.
LEMMA NextMarkNat == TypeLocals => \A t \in Threads : NextMark(t) \in Nat /\ marks[t] \in Nat
  BY MarkNat DEF NextMark, TypeLocals

\* Every step takes a thread from label to label.
LEMMA TypePcStep == TypePc /\ [NBNext]_allVars => TypePc'
  <1> SUFFICES ASSUME TypePc, [NBNext]_allVars PROVE TypePc'
    OBVIOUS
  <1> USE LabelsIn DEF TypePc, Goto, locals
  <1>1. ASSUME NEW t \in Threads, NEW n \in Nodes, NEW ts \in Timestamps, NBEnqueueCall(t, n, ts)
        PROVE TypePc'
    BY <1>1 DEF NBEnqueueCall, AllocateNode
  <1>2. ASSUME NEW t \in Threads, InsHead(t) PROVE TypePc'
    BY <1>2 DEF InsHead
  <1>3. ASSUME NEW t \in Threads, InsNext(t) PROVE TypePc'
    BY <1>3 DEF InsNext
  <1>4. ASSUME NEW t \in Threads, InsPush(t) PROVE TypePc'
    BY <1>4 DEF InsPush
  <1>5. ASSUME NEW t \in Threads, MoveUnlink(t), UNCHANGED added PROVE TypePc'
    BY <1>5 DEF MoveUnlink, UnlinkIn
  <1>6. ASSUME NEW t \in Threads, Move(t) PROVE TypePc'
    BY <1>6 DEF Move
  <1>7. ASSUME NEW t \in Threads, LoopHead(t) PROVE TypePc'
    BY <1>7 DEF LoopHead
  <1>8. ASSUME NEW t \in Threads, LoopNext(t) PROVE TypePc'
    BY <1>8 DEF LoopNext
  <1>9. ASSUME NEW t \in Threads, LoopEnd(t) PROVE TypePc'
    BY <1>9 DEF LoopEnd
  <1>10. ASSUME NEW t \in Threads, CollaborativeReturn(t) PROVE TypePc'
    BY <1>10 DEF CollaborativeReturn
  <1>11. ASSUME NEW t \in Threads, PopHead(t) PROVE TypePc'
    BY <1>11 DEF PopHead
  <1>12. ASSUME NEW t \in Threads, PopNext(t) PROVE TypePc'
    BY <1>12 DEF PopNext
  <1>13. ASSUME NEW t \in Threads, PopCas(t) PROVE TypePc'
    BY <1>13 DEF PopCas
  <1>14. ASSUME NEW t \in Threads, Unlink(t), UNCHANGED added PROVE TypePc'
    BY <1>14 DEF Unlink, UnlinkIn
  <1>15. ASSUME NEW t \in Threads, Insert(t), UNCHANGED added PROVE TypePc'
    BY <1>15 DEF Insert, DrawMark
  <1>16. ASSUME NEW t \in Threads, FlushRead(t), UNCHANGED added PROVE TypePc'
    BY <1>16 DEF FlushRead
  <1>17. ASSUME NEW t \in Threads, FlushCas(t), UNCHANGED added PROVE TypePc'
    BY <1>17 DEF FlushCas
  <1>18. ASSUME NEW t \in Threads, EnqueueReturn(t), UNCHANGED added PROVE TypePc'
    BY <1>18 DEF EnqueueReturn
  <1>19. ASSUME NEW t \in Threads, NBDequeueCall(t) PROVE TypePc'
    BY <1>19 DEF NBDequeueCall, DequeueCall, Queued
  <1>20. ASSUME NEW t \in Threads, DeqRead(t), UNCHANGED added PROVE TypePc'
    BY <1>20 DEF DeqRead
  <1>21. ASSUME NEW t \in Threads, DeqScan(t), UNCHANGED added PROVE TypePc'
    BY <1>21 DEF DeqScan, Firsts, Bucket
  <1>22. ASSUME NEW t \in Threads, DeqMark(t), UNCHANGED added PROVE TypePc'
    BY <1>22 DEF DeqMark
  <1>23. ASSUME NEW t \in Threads, DeqMarkFails(t), UNCHANGED added PROVE TypePc'
    BY <1>23 DEF DeqMarkFails
  <1>24. ASSUME NEW t \in Threads, DeqNextBucket(t), UNCHANGED added PROVE TypePc'
    BY <1>24 DEF DeqNextBucket
  <1>25. ASSUME NEW t \in Threads, DeqAdvance(t), UNCHANGED added PROVE TypePc'
    BY <1>25 DEF DeqAdvance, DrawMark
  <1>26. ASSUME NEW t \in Threads, DequeueReturn(t), UNCHANGED added PROVE TypePc'
    BY <1>26 DEF DequeueReturn
  <1>27. ASSUME NEW t \in Threads, DeqTableEnd(t) PROVE TypePc'
    BY <1>27 DEF DeqTableEnd
  <1>28. ASSUME NEW t \in Threads, DeqFutureHead(t) PROVE TypePc'
    BY <1>28 DEF DeqFutureHead
  <1>29. ASSUME NEW t \in Threads, DeqFutureNext(t) PROVE TypePc'
    BY <1>29 DEF DeqFutureNext
  <1>30. ASSUME NEW t \in Threads, ExpandCheck(t) PROVE TypePc'
    BY <1>30 DEF ExpandCheck
  <1>31. ASSUME NEW t \in Threads, ExpandFuture(t) PROVE TypePc'
    BY <1>31 DEF ExpandFuture
  <1>32. ASSUME NEW t \in Threads, ExpandAlloc(t) PROVE TypePc'
    BY <1>32 DEF ExpandAlloc
  <1>33. ASSUME NEW t \in Threads, ExpandTodo(t) PROVE TypePc'
    BY <1>33 DEF ExpandTodo
  <1>34. ASSUME NEW t \in Threads, ExpandTodoCas(t) PROVE TypePc'
    BY <1>34 DEF ExpandTodoCas
  <1>35. ASSUME NEW t \in Threads, ExpandNewFuture(t) PROVE TypePc'
    BY <1>35 DEF ExpandNewFuture
  <1>36. ASSUME NEW t \in Threads, ExpandMarkHead(t) PROVE TypePc'
    BY <1>36 DEF ExpandMarkHead
  <1>37. ASSUME NEW t \in Threads, ExpandMarkNext(t) PROVE TypePc'
    BY <1>37 DEF ExpandMarkNext
  <1>38. ASSUME NEW t \in Threads, ExpandMarkCas(t) PROVE TypePc'
    BY <1>38 DEF ExpandMarkCas
  <1>39. ASSUME NEW t \in Threads, ExpandSize(t) PROVE TypePc'
    BY <1>39 DEF ExpandSize
  <1>40. CASE UNCHANGED allVars
    BY <1>40 DEF allVars, vars
  <1> QED
    BY <1>1, <1>2, <1>3, <1>4, <1>5, <1>6, <1>7, <1>8, <1>9, <1>10, <1>11, <1>12, <1>13, <1>14,
       <1>15, <1>16, <1>17, <1>18, <1>19, <1>20, <1>21, <1>22, <1>23, <1>24, <1>25, <1>26, <1>27, <1>28,
       <1>29, <1>30, <1>31, <1>32, <1>33, <1>34, <1>35, <1>36, <1>37, <1>38, <1>39, <1>40
       DEF NBNext, NBCall, NBStep, NBEnqueueStep, InsertStep, TodoStep,
           NBDequeueStep, ExpandStep, Unchanged

\* Every step keeps the types of the local variables.
LEMMA TypeLocalsStep == GrowInv /\ [NBNext]_allVars => TypeLocals'
  <1> SUFFICES ASSUME GrowInv, [NBNext]_allVars PROVE TypeLocals'
    OBVIOUS
  <1>0. TypeTable /\ TypeNodes /\ TypeLocals
    BY TypeParts DEF GrowInv
  <1> USE <1>0, HeadsAre, NoCursorIn, NodesIn
      DEF TypeTable, TypeNodes, TypeLocals, Set,
          shared, nodes, locals, history, heads, locals2, added, Forget
  <1>1. ASSUME NEW t \in Threads, NEW n \in Nodes, NEW ts \in Timestamps, NBEnqueueCall(t, n, ts)
        PROVE TypeLocals'
    BY <1>1 DEF NBEnqueueCall, AllocateNode
  <1>2. ASSUME NEW t \in Threads, InsHead(t) PROVE TypeLocals'
    BY <1>2 DEF InsHead
  <1>3. ASSUME NEW t \in Threads, InsNext(t) PROVE TypeLocals'
    <2>1. First(future[t]) \in SomeNode
      BY <1>0, FirstIn, HeadsAre DEF TypeLocals
    <2>2. first' \in [Threads -> SomeNode]
      BY <1>3, <2>1 DEF InsNext
    <2>3. future' \in [Threads -> Heads]
      BY <1>3 DEF InsNext
    <2> QED
      BY <1>3, <2>2, <2>3 DEF InsNext
  <1>4. ASSUME NEW t \in Threads, InsPush(t) PROVE TypeLocals'
    BY <1>4 DEF InsPush
  <1>5. ASSUME NEW t \in Threads, MoveUnlink(t), UNCHANGED added PROVE TypeLocals'
    BY <1>5 DEF MoveUnlink, UnlinkIn
  <1>6. ASSUME NEW t \in Threads, Move(t) PROVE TypeLocals'
    BY <1>6 DEF Move
  <1>7. ASSUME NEW t \in Threads, LoopHead(t) PROVE TypeLocals'
    BY <1>7 DEF LoopHead
  <1>8. ASSUME NEW t \in Threads, LoopNext(t) PROVE TypeLocals'
    BY <1>8 DEF LoopNext
  <1>9. ASSUME NEW t \in Threads, LoopEnd(t) PROVE TypeLocals'
    BY <1>9 DEF LoopEnd
  <1>10. ASSUME NEW t \in Threads, CollaborativeReturn(t) PROVE TypeLocals'
    BY <1>10 DEF CollaborativeReturn
  <1>11. ASSUME NEW t \in Threads, PopHead(t) PROVE TypeLocals'
    BY <1>11 DEF PopHead
  <1>12. ASSUME NEW t \in Threads, PopNext(t) PROVE TypeLocals'
    <2>1. First(todo[t]) \in SomeNode
      BY <1>0, FirstIn, HeadsAre DEF TypeLocals
    <2>2. first' \in [Threads -> SomeNode]
      BY <1>12, <2>1 DEF PopNext
    <2>3. todo' \in [Threads -> Heads]
      BY <1>12 DEF PopNext
    <2> QED
      BY <1>12, <2>2, <2>3 DEF PopNext
  <1>13. ASSUME NEW t \in Threads, PopCas(t) PROVE TypeLocals'
    <2>1. /\ first' = [first EXCEPT ![t] = NoNode] /\ UNCHANGED <<node, locals, history, future, old_size>>
          /\ \/ carried' = [carried EXCEPT ![t] = first[t]] /\ todo' = [todo EXCEPT ![t] = 0]
             \/ carried' = carried /\ todo' = todo
      BY <1>13 DEF PopCas
    <2>2. first' \in [Threads -> SomeNode] /\ carried' \in [Threads -> SomeNode] /\ todo' \in [Threads -> Heads]
      BY <2>1
    <2> QED
      BY <2>1, <2>2
  <1>14. ASSUME NEW t \in Threads, Unlink(t), UNCHANGED added PROVE TypeLocals'
    BY <1>14 DEF Unlink, UnlinkIn
  <1>15. ASSUME NEW t \in Threads, Insert(t), UNCHANGED added PROVE TypeLocals'
    <2>1. node[t] \in Nodes
      BY <1>15 DEF Insert, GrowInv, HandsOk, NewOk, InEnqueue, Enqueuing
    <2>2. BucketOf(timestamp[node[t]]) \in Nat
      BY <2>1, BucketOfNat
    <2>3. [index |-> BucketOf(timestamp[node[t]]), mark |-> NextMark(t)] \in Cursors
      BY <2>2, NextMarkNat, CursorMake
    <2>4. /\ marks' = [marks EXCEPT ![t] = marks[t] + 1]
          /\ newCur' = [newCur EXCEPT ![t] = [index |-> BucketOf(timestamp[node[t]]), mark |-> NextMark(t)]]
          /\ UNCHANGED <<node, oldCur, seen, history, added>>
      BY <1>15 DEF Insert, DrawMark
    <2>5. marks' \in [Threads -> Nat] /\ newCur' \in [Threads -> Cursors]
      BY <2>3, <2>4
    <2> QED
      BY <2>4, <2>5
  <1>16. ASSUME NEW t \in Threads, FlushRead(t), UNCHANGED added PROVE TypeLocals'
    BY <1>16 DEF FlushRead
  <1>17. ASSUME NEW t \in Threads, FlushCas(t), UNCHANGED added PROVE TypeLocals'
    BY <1>17 DEF FlushCas
  <1>18. ASSUME NEW t \in Threads, EnqueueReturn(t), UNCHANGED added PROVE TypeLocals'
    BY <1>18 DEF EnqueueReturn
  <1>19. ASSUME NEW t \in Threads, NBDequeueCall(t) PROVE TypeLocals'
    BY <1>19 DEF NBDequeueCall, DequeueCall, Queued
  <1>20. ASSUME NEW t \in Threads, DeqRead(t), UNCHANGED added PROVE TypeLocals'
    BY <1>20 DEF DeqRead
  <1>21. ASSUME NEW t \in Threads, DeqScan(t), UNCHANGED added PROVE TypeLocals'
    <2>1. \A i : Bucket(i) \in SUBSET Nodes /\ Firsts(i) \subseteq Nodes
      BY DEF Firsts, Bucket
    <2>2. /\ UNCHANGED <<oldCur, newCur, marks, history, added>>
          /\ \/ /\ \E n \in Nodes : node' = [node EXCEPT ![t] = n]
                /\ \E b \in SUBSET Nodes : seen' = [seen EXCEPT ![t] = b]
             \/ node' = node /\ seen' = seen
      <3> DEFINE i == oldCur[t].index
      <3>1. UNCHANGED <<oldCur, newCur, marks, history, added>>
        BY <1>21 DEF DeqScan
      <3>2. \/ /\ \E n \in Firsts(i) : node' = [node EXCEPT ![t] = n]
               /\ seen' = [seen EXCEPT ![t] = Bucket(i)]
            \/ node' = node /\ seen' = seen
        BY <1>21 DEF DeqScan
      <3>3. Bucket(i) \in SUBSET Nodes /\ Firsts(i) \subseteq Nodes
        BY <2>1
      <3> HIDE DEF i
      <3> QED
        BY <3>1, <3>2, <3>3
    <2>3. node' \in [Threads -> SomeNode]
      BY <2>2
    <2>4. seen' \in [Threads -> SUBSET Nodes]
      BY <2>2
    <2> QED
      BY <2>2, <2>3, <2>4
  <1>22. ASSUME NEW t \in Threads, DeqMark(t), UNCHANGED added PROVE TypeLocals'
    BY <1>22 DEF DeqMark
  <1>23. ASSUME NEW t \in Threads, DeqMarkFails(t), UNCHANGED added PROVE TypeLocals'
    BY <1>23 DEF DeqMarkFails
  <1>24. ASSUME NEW t \in Threads, DeqNextBucket(t), UNCHANGED added PROVE TypeLocals'
    BY <1>24 DEF DeqNextBucket
  <1>25. ASSUME NEW t \in Threads, DeqAdvance(t), UNCHANGED added PROVE TypeLocals'
    <2>1. /\ marks' = [marks EXCEPT ![t] = marks[t] + 1] /\ oldCur' = [oldCur EXCEPT ![t] = NoCursor]
          /\ UNCHANGED <<node, newCur, seen, history, added>>
      BY <1>25 DEF DeqAdvance, DrawMark
    <2>2. marks' \in [Threads -> Nat] /\ oldCur' \in [Threads -> Cursors]
      BY <2>1
    <2> QED
      BY <2>1, <2>2
  <1>26. ASSUME NEW t \in Threads, DequeueReturn(t), UNCHANGED added PROVE TypeLocals'
    BY <1>26 DEF DequeueReturn
  <1>27. ASSUME NEW t \in Threads, DeqTableEnd(t) PROVE TypeLocals'
    BY <1>27 DEF DeqTableEnd
  <1>28. ASSUME NEW t \in Threads, DeqFutureHead(t) PROVE TypeLocals'
    BY <1>28 DEF DeqFutureHead
  <1>29. ASSUME NEW t \in Threads, DeqFutureNext(t) PROVE TypeLocals'
    BY <1>29 DEF DeqFutureNext
  <1>30. ASSUME NEW t \in Threads, ExpandCheck(t) PROVE TypeLocals'
    BY <1>30 DEF ExpandCheck
  <1>31. ASSUME NEW t \in Threads, ExpandFuture(t) PROVE TypeLocals'
    BY <1>31 DEF ExpandFuture
  <1>32. ASSUME NEW t \in Threads, ExpandAlloc(t) PROVE TypeLocals'
    BY <1>32 DEF ExpandAlloc
  <1>33. ASSUME NEW t \in Threads, ExpandTodo(t) PROVE TypeLocals'
    BY <1>33 DEF ExpandTodo
  <1>34. ASSUME NEW t \in Threads, ExpandTodoCas(t) PROVE TypeLocals'
    BY <1>34 DEF ExpandTodoCas
  <1>35. ASSUME NEW t \in Threads, ExpandNewFuture(t) PROVE TypeLocals'
    BY <1>35 DEF ExpandNewFuture
  <1>36. ASSUME NEW t \in Threads, ExpandMarkHead(t) PROVE TypeLocals'
    BY <1>36 DEF ExpandMarkHead
  <1>37. ASSUME NEW t \in Threads, ExpandMarkNext(t) PROVE TypeLocals'
    <2>1. First(todo[t]) \in SomeNode
      BY <1>0, FirstIn, HeadsAre DEF TypeLocals
    <2>2. first' \in [Threads -> SomeNode]
      BY <1>37, <2>1 DEF ExpandMarkNext
    <2>3. todo' \in [Threads -> Heads]
      BY <1>37 DEF ExpandMarkNext
    <2> QED
      BY <1>37, <2>2, <2>3 DEF ExpandMarkNext
  <1>38. ASSUME NEW t \in Threads, ExpandMarkCas(t) PROVE TypeLocals'
    BY <1>38 DEF ExpandMarkCas
  <1>39. ASSUME NEW t \in Threads, ExpandSize(t) PROVE TypeLocals'
    BY <1>39 DEF ExpandSize
  <1>40. CASE UNCHANGED allVars
    BY <1>40 DEF allVars, vars
  <1> QED
    BY <1>1, <1>2, <1>3, <1>4, <1>5, <1>6, <1>7, <1>8, <1>9, <1>10, <1>11, <1>12, <1>13, <1>14,
       <1>15, <1>16, <1>17, <1>18, <1>19, <1>20, <1>21, <1>22, <1>23, <1>24, <1>25, <1>26, <1>27, <1>28,
       <1>29, <1>30, <1>31, <1>32, <1>33, <1>34, <1>35, <1>36, <1>37, <1>38, <1>39, <1>40
       DEF NBNext, NBCall, NBStep, NBEnqueueStep, InsertStep, TodoStep,
           NBDequeueStep, ExpandStep, Unchanged

\* The places one by one.
LEMMA PlacesAre ==
  {"unused", "held", "bucket", "taken", "unlinked", "future", "carried"} \subseteq AllPlaces
  BY DEF AllPlaces, PlacesHere

\* Every step keeps the types of the nodes.
LEMMA TypeNodesStep == GrowInv /\ [NBNext]_allVars => TypeNodes'
  <1> SUFFICES ASSUME GrowInv, [NBNext]_allVars PROVE TypeNodes'
    OBVIOUS
  <1>0. TypeNodes
    BY TypeParts DEF GrowInv
  <1> USE <1>0, PlacesAre
      DEF TypeNodes, shared, nodes, locals, history, heads, locals2, added
  <1>1. ASSUME NEW t \in Threads, NEW n \in Nodes, NEW ts \in Timestamps, NBEnqueueCall(t, n, ts)
        PROVE TypeNodes'
    BY <1>1, CalendarAssumption DEF NBEnqueueCall, AllocateNode
  <1>2. ASSUME NEW t \in Threads, InsHead(t) PROVE TypeNodes'
    BY <1>2 DEF InsHead
  <1>3. ASSUME NEW t \in Threads, InsNext(t) PROVE TypeNodes'
    BY <1>3 DEF InsNext
  <1>4. ASSUME NEW t \in Threads, InsPush(t) PROVE TypeNodes'
    BY <1>4 DEF InsPush
  <1>5. ASSUME NEW t \in Threads, MoveUnlink(t), UNCHANGED added PROVE TypeNodes'
    BY <1>5 DEF MoveUnlink, UnlinkIn
  <1>6. ASSUME NEW t \in Threads, Move(t) PROVE TypeNodes'
    <2>1. carried[t] \in Nodes
      BY <1>6, TypeParts DEF Move, GrowInv, HandsOk, CarryOk, SomeNode, TypeLocals
    <2>2. late' \in SUBSET Nodes
      BY <1>6, <2>1 DEF Move
    <2> QED
      BY <1>6, <2>1, <2>2 DEF Move
  <1>7. ASSUME NEW t \in Threads, LoopHead(t) PROVE TypeNodes'
    BY <1>7 DEF LoopHead
  <1>8. ASSUME NEW t \in Threads, LoopNext(t) PROVE TypeNodes'
    BY <1>8 DEF LoopNext
  <1>9. ASSUME NEW t \in Threads, LoopEnd(t) PROVE TypeNodes'
    BY <1>9 DEF LoopEnd
  <1>10. ASSUME NEW t \in Threads, CollaborativeReturn(t) PROVE TypeNodes'
    BY <1>10 DEF CollaborativeReturn, GrowInv, HandsOk, NewOk, InEnqueue, TodoLabels
  <1>11. ASSUME NEW t \in Threads, PopHead(t) PROVE TypeNodes'
    BY <1>11 DEF PopHead
  <1>12. ASSUME NEW t \in Threads, PopNext(t) PROVE TypeNodes'
    BY <1>12 DEF PopNext
  <1>13. ASSUME NEW t \in Threads, PopCas(t) PROVE TypeNodes'
    BY <1>13 DEF PopCas
  <1>14. ASSUME NEW t \in Threads, Unlink(t), UNCHANGED added PROVE TypeNodes'
    BY <1>14 DEF Unlink, UnlinkIn
  <1>15. ASSUME NEW t \in Threads, Insert(t), UNCHANGED added PROVE TypeNodes'
    BY <1>15 DEF Insert, DrawMark
  <1>16. ASSUME NEW t \in Threads, FlushRead(t), UNCHANGED added PROVE TypeNodes'
    BY <1>16 DEF FlushRead
  <1>17. ASSUME NEW t \in Threads, FlushCas(t), UNCHANGED added PROVE TypeNodes'
    BY <1>17 DEF FlushCas
  <1>18. ASSUME NEW t \in Threads, EnqueueReturn(t), UNCHANGED added PROVE TypeNodes'
    BY <1>18 DEF EnqueueReturn, GrowInv, HandsOk, NewOk, InEnqueue, Enqueuing
  <1>19. ASSUME NEW t \in Threads, NBDequeueCall(t) PROVE TypeNodes'
    BY <1>19 DEF NBDequeueCall, DequeueCall, Queued
  <1>20. ASSUME NEW t \in Threads, DeqRead(t), UNCHANGED added PROVE TypeNodes'
    BY <1>20 DEF DeqRead
  <1>21. ASSUME NEW t \in Threads, DeqScan(t), UNCHANGED added PROVE TypeNodes'
    BY <1>21 DEF DeqScan, Firsts, Bucket
  <1>22. ASSUME NEW t \in Threads, DeqMark(t), UNCHANGED added PROVE TypeNodes'
    BY <1>22 DEF DeqMark
  <1>23. ASSUME NEW t \in Threads, DeqMarkFails(t), UNCHANGED added PROVE TypeNodes'
    BY <1>23 DEF DeqMarkFails
  <1>24. ASSUME NEW t \in Threads, DeqNextBucket(t), UNCHANGED added PROVE TypeNodes'
    BY <1>24 DEF DeqNextBucket
  <1>25. ASSUME NEW t \in Threads, DeqAdvance(t), UNCHANGED added PROVE TypeNodes'
    BY <1>25 DEF DeqAdvance, DrawMark
  <1>26. ASSUME NEW t \in Threads, DequeueReturn(t), UNCHANGED added PROVE TypeNodes'
    BY <1>26 DEF DequeueReturn
  <1>27. ASSUME NEW t \in Threads, DeqTableEnd(t) PROVE TypeNodes'
    BY <1>27 DEF DeqTableEnd
  <1>28. ASSUME NEW t \in Threads, DeqFutureHead(t) PROVE TypeNodes'
    BY <1>28 DEF DeqFutureHead
  <1>29. ASSUME NEW t \in Threads, DeqFutureNext(t) PROVE TypeNodes'
    BY <1>29 DEF DeqFutureNext
  <1>30. ASSUME NEW t \in Threads, ExpandCheck(t) PROVE TypeNodes'
    BY <1>30 DEF ExpandCheck
  <1>31. ASSUME NEW t \in Threads, ExpandFuture(t) PROVE TypeNodes'
    BY <1>31 DEF ExpandFuture
  <1>32. ASSUME NEW t \in Threads, ExpandAlloc(t) PROVE TypeNodes'
    BY <1>32 DEF ExpandAlloc
  <1>33. ASSUME NEW t \in Threads, ExpandTodo(t) PROVE TypeNodes'
    BY <1>33 DEF ExpandTodo
  <1>34. ASSUME NEW t \in Threads, ExpandTodoCas(t) PROVE TypeNodes'
    BY <1>34 DEF ExpandTodoCas
  <1>35. ASSUME NEW t \in Threads, ExpandNewFuture(t) PROVE TypeNodes'
    BY <1>35 DEF ExpandNewFuture
  <1>36. ASSUME NEW t \in Threads, ExpandMarkHead(t) PROVE TypeNodes'
    BY <1>36 DEF ExpandMarkHead
  <1>37. ASSUME NEW t \in Threads, ExpandMarkNext(t) PROVE TypeNodes'
    BY <1>37 DEF ExpandMarkNext
  <1>38. ASSUME NEW t \in Threads, ExpandMarkCas(t) PROVE TypeNodes'
    BY <1>38 DEF ExpandMarkCas
  <1>39. ASSUME NEW t \in Threads, ExpandSize(t) PROVE TypeNodes'
    BY <1>39 DEF ExpandSize
  <1>40. CASE UNCHANGED allVars
    BY <1>40 DEF allVars, vars
  <1> QED
    BY <1>1, <1>2, <1>3, <1>4, <1>5, <1>6, <1>7, <1>8, <1>9, <1>10, <1>11, <1>12, <1>13, <1>14,
       <1>15, <1>16, <1>17, <1>18, <1>19, <1>20, <1>21, <1>22, <1>23, <1>24, <1>25, <1>26, <1>27, <1>28,
       <1>29, <1>30, <1>31, <1>32, <1>33, <1>34, <1>35, <1>36, <1>37, <1>38, <1>39, <1>40
       DEF NBNext, NBCall, NBStep, NBEnqueueStep, InsertStep, TodoStep,
           NBDequeueStep, ExpandStep, Unchanged

\* The step leaves the fields of queue and the lists alone.
TableQuiet == UNCHANGED <<dequeue_size, heads, table_size>>

\* The steps that write the fields of queue, or a list.
LEMMA TableWriters ==
  ASSUME [NBNext]_allVars
  PROVE  \/ TableQuiet
         \/ \E t \in Threads : InsPush(t) \/ PopCas(t) \/ ExpandAlloc(t) \/ ExpandTodoCas(t)
              \/ ExpandNewFuture(t) \/ ExpandMarkCas(t) \/ ExpandSize(t)
  <1> USE DEF TableQuiet, shared, added, heads
  <1>1. ASSUME NEW t \in Threads, NEW n \in Nodes, NEW ts \in Timestamps, NBEnqueueCall(t, n, ts)
        PROVE TableQuiet
    BY <1>1 DEF NBEnqueueCall, AllocateNode
  <1>2. ASSUME NEW t \in Threads, InsHead(t) PROVE TableQuiet
    BY <1>2 DEF InsHead
  <1>3. ASSUME NEW t \in Threads, InsNext(t) PROVE TableQuiet
    BY <1>3 DEF InsNext
  <1>4. ASSUME NEW t \in Threads, MoveUnlink(t), UNCHANGED added PROVE TableQuiet
    BY <1>4 DEF MoveUnlink, UnlinkIn
  <1>5. ASSUME NEW t \in Threads, Move(t) PROVE TableQuiet
    BY <1>5 DEF Move
  <1>6. ASSUME NEW t \in Threads, LoopHead(t) PROVE TableQuiet
    BY <1>6 DEF LoopHead
  <1>7. ASSUME NEW t \in Threads, LoopNext(t) PROVE TableQuiet
    BY <1>7 DEF LoopNext
  <1>8. ASSUME NEW t \in Threads, LoopEnd(t) PROVE TableQuiet
    BY <1>8 DEF LoopEnd
  <1>9. ASSUME NEW t \in Threads, CollaborativeReturn(t) PROVE TableQuiet
    BY <1>9 DEF CollaborativeReturn
  <1>10. ASSUME NEW t \in Threads, PopHead(t) PROVE TableQuiet
    BY <1>10 DEF PopHead
  <1>11. ASSUME NEW t \in Threads, PopNext(t) PROVE TableQuiet
    BY <1>11 DEF PopNext
  <1>12. ASSUME NEW t \in Threads, Unlink(t), UNCHANGED added PROVE TableQuiet
    BY <1>12 DEF Unlink, UnlinkIn
  <1>13. ASSUME NEW t \in Threads, Insert(t), UNCHANGED added PROVE TableQuiet
    BY <1>13 DEF Insert, DrawMark
  <1>14. ASSUME NEW t \in Threads, FlushRead(t), UNCHANGED added PROVE TableQuiet
    BY <1>14 DEF FlushRead
  <1>15. ASSUME NEW t \in Threads, FlushCas(t), UNCHANGED added PROVE TableQuiet
    BY <1>15 DEF FlushCas
  <1>16. ASSUME NEW t \in Threads, EnqueueReturn(t), UNCHANGED added PROVE TableQuiet
    BY <1>16 DEF EnqueueReturn
  <1>17. ASSUME NEW t \in Threads, NBDequeueCall(t) PROVE TableQuiet
    BY <1>17 DEF NBDequeueCall, DequeueCall, Queued
  <1>18. ASSUME NEW t \in Threads, DeqRead(t), UNCHANGED added PROVE TableQuiet
    BY <1>18 DEF DeqRead
  <1>19. ASSUME NEW t \in Threads, DeqScan(t), UNCHANGED added PROVE TableQuiet
    BY <1>19 DEF DeqScan, Firsts, Bucket
  <1>20. ASSUME NEW t \in Threads, DeqMark(t), UNCHANGED added PROVE TableQuiet
    BY <1>20 DEF DeqMark
  <1>21. ASSUME NEW t \in Threads, DeqMarkFails(t), UNCHANGED added PROVE TableQuiet
    BY <1>21 DEF DeqMarkFails
  <1>22. ASSUME NEW t \in Threads, DeqNextBucket(t), UNCHANGED added PROVE TableQuiet
    BY <1>22 DEF DeqNextBucket
  <1>23. ASSUME NEW t \in Threads, DeqAdvance(t), UNCHANGED added PROVE TableQuiet
    BY <1>23 DEF DeqAdvance, DrawMark
  <1>24. ASSUME NEW t \in Threads, DequeueReturn(t), UNCHANGED added PROVE TableQuiet
    BY <1>24 DEF DequeueReturn
  <1>25. ASSUME NEW t \in Threads, DeqTableEnd(t) PROVE TableQuiet
    BY <1>25 DEF DeqTableEnd
  <1>26. ASSUME NEW t \in Threads, DeqFutureHead(t) PROVE TableQuiet
    BY <1>26 DEF DeqFutureHead
  <1>27. ASSUME NEW t \in Threads, DeqFutureNext(t) PROVE TableQuiet
    BY <1>27 DEF DeqFutureNext
  <1>28. ASSUME NEW t \in Threads, ExpandCheck(t) PROVE TableQuiet
    BY <1>28 DEF ExpandCheck
  <1>29. ASSUME NEW t \in Threads, ExpandFuture(t) PROVE TableQuiet
    BY <1>29 DEF ExpandFuture
  <1>30. ASSUME NEW t \in Threads, ExpandTodo(t) PROVE TableQuiet
    BY <1>30 DEF ExpandTodo
  <1>31. ASSUME NEW t \in Threads, ExpandMarkHead(t) PROVE TableQuiet
    BY <1>31 DEF ExpandMarkHead
  <1>32. ASSUME NEW t \in Threads, ExpandMarkNext(t) PROVE TableQuiet
    BY <1>32 DEF ExpandMarkNext
  <1>33. ASSUME UNCHANGED allVars PROVE TableQuiet
    BY <1>33 DEF allVars, vars
  <1> HIDE DEF TableQuiet
  <1> QED
    BY <1>1, <1>2, <1>3, <1>4, <1>5, <1>6, <1>7, <1>8, <1>9, <1>10, <1>11, <1>12, <1>13,
       <1>14, <1>15, <1>16, <1>17, <1>18, <1>19, <1>20, <1>21, <1>22, <1>23, <1>24, <1>25,
       <1>26, <1>27, <1>28, <1>29, <1>30, <1>31, <1>32, <1>33
       DEF NBNext, NBCall, NBStep, NBEnqueueStep, InsertStep, TodoStep, NBDequeueStep,
              ExpandStep, Unchanged

\* What the seven steps that write the table need to know of their thread.
LEMMA WriterKnows ==
  ASSUME GrowInv, NEW t \in Threads
  PROVE  /\ InsPush(t) => NodeInHand(t) \in Nodes
         /\ PopCas(t) => first[t] \in Nodes
         /\ ExpandAlloc(t) \/ ExpandTodoCas(t) \/ ExpandNewFuture(t) \/ ExpandSize(t) =>
              old_size[t] \in Sizes /\ old_size[t] # 0 /\ Grows(old_size[t])
  <1>1. carried \in [Threads -> SomeNode]
    BY TypeParts DEF GrowInv, TypeLocals
  <1>2. pc[t] = "ins_push" => NodeInHand(t) \in Nodes
    BY <1>1 DEF GrowInv, HandsOk, NewOk, CarryOk, Inserting, InsertLabels, NodeInHand, SomeNode
  <1>3. pc[t] \in {"ex_alloc", "ex_todo_cas", "ex_new", "ex_size"} => old_size[t] \in Sizes
    <2>1. SizeRead(t)
      BY DEF GrowInv, ExpandersKnow
    <2> QED
      BY <2>1 DEF SizeRead, OpenLabels
  <1>4. old_size[t] \in Sizes => old_size[t] # 0
    BY SizesAbove
  <1>5. pc[t] \in {"ex_alloc", "ex_todo_cas", "ex_new", "ex_size"} => Grows(old_size[t])
    BY <1>3, <1>4 DEF GrowInv, ExpandersKnow, Expander
  <1> QED
    BY <1>2, <1>3, <1>4, <1>5
       DEF InsPush, PopCas, ExpandAlloc, ExpandTodoCas, ExpandNewFuture, ExpandSize,
           GrowInv, HandsOk, ReadOk

\* What flush_current() and dequeue() write in current is a cursor.
LEMMA CurrentStep == GrowInv /\ [NBNext]_allVars => current' \in Cursors
  <1> SUFFICES ASSUME GrowInv, [NBNext]_allVars PROVE current' \in Cursors
    OBVIOUS
  <1>1. TypeTable /\ TypeLocals
    BY TypeParts DEF GrowInv
  <1> USE <1>1 DEF TypeTable, shared, added
  <1>2. ASSUME NEW t \in Threads, NEW n \in Nodes, NEW ts \in Timestamps, NBEnqueueCall(t, n, ts)
        PROVE current' \in Cursors
    BY <1>2 DEF NBEnqueueCall, AllocateNode
  <1>3. ASSUME NEW t \in Threads, InsHead(t) PROVE current' \in Cursors
    BY <1>3 DEF InsHead
  <1>4. ASSUME NEW t \in Threads, InsNext(t) PROVE current' \in Cursors
    BY <1>4 DEF InsNext
  <1>5. ASSUME NEW t \in Threads, InsPush(t) PROVE current' \in Cursors
    BY <1>5 DEF InsPush
  <1>6. ASSUME NEW t \in Threads, MoveUnlink(t), UNCHANGED added PROVE current' \in Cursors
    BY <1>6 DEF MoveUnlink, UnlinkIn
  <1>7. ASSUME NEW t \in Threads, Move(t) PROVE current' \in Cursors
    BY <1>7 DEF Move
  <1>8. ASSUME NEW t \in Threads, LoopHead(t) PROVE current' \in Cursors
    BY <1>8 DEF LoopHead
  <1>9. ASSUME NEW t \in Threads, LoopNext(t) PROVE current' \in Cursors
    BY <1>9 DEF LoopNext
  <1>10. ASSUME NEW t \in Threads, LoopEnd(t) PROVE current' \in Cursors
    BY <1>10 DEF LoopEnd
  <1>11. ASSUME NEW t \in Threads, CollaborativeReturn(t) PROVE current' \in Cursors
    BY <1>11 DEF CollaborativeReturn
  <1>12. ASSUME NEW t \in Threads, PopHead(t) PROVE current' \in Cursors
    BY <1>12 DEF PopHead
  <1>13. ASSUME NEW t \in Threads, PopNext(t) PROVE current' \in Cursors
    BY <1>13 DEF PopNext
  <1>14. ASSUME NEW t \in Threads, PopCas(t) PROVE current' \in Cursors
    BY <1>14 DEF PopCas
  <1>15. ASSUME NEW t \in Threads, Unlink(t), UNCHANGED added PROVE current' \in Cursors
    BY <1>15 DEF Unlink, UnlinkIn
  <1>16. ASSUME NEW t \in Threads, Insert(t), UNCHANGED added PROVE current' \in Cursors
    BY <1>16 DEF Insert, DrawMark
  <1>17. ASSUME NEW t \in Threads, FlushRead(t), UNCHANGED added PROVE current' \in Cursors
    BY <1>17 DEF FlushRead
  <1>18. ASSUME NEW t \in Threads, FlushCas(t), UNCHANGED added PROVE current' \in Cursors
    BY <1>18 DEF FlushCas, TypeLocals
  <1>19. ASSUME NEW t \in Threads, EnqueueReturn(t), UNCHANGED added PROVE current' \in Cursors
    BY <1>19 DEF EnqueueReturn
  <1>20. ASSUME NEW t \in Threads, NBDequeueCall(t) PROVE current' \in Cursors
    BY <1>20 DEF NBDequeueCall, DequeueCall, Queued
  <1>21. ASSUME NEW t \in Threads, DeqRead(t), UNCHANGED added PROVE current' \in Cursors
    BY <1>21 DEF DeqRead
  <1>22. ASSUME NEW t \in Threads, DeqScan(t), UNCHANGED added PROVE current' \in Cursors
    BY <1>22 DEF DeqScan, Firsts, Bucket
  <1>23. ASSUME NEW t \in Threads, DeqMark(t), UNCHANGED added PROVE current' \in Cursors
    BY <1>23 DEF DeqMark
  <1>24. ASSUME NEW t \in Threads, DeqMarkFails(t), UNCHANGED added PROVE current' \in Cursors
    BY <1>24 DEF DeqMarkFails
  <1>25. ASSUME NEW t \in Threads, DeqNextBucket(t), UNCHANGED added PROVE current' \in Cursors
    BY <1>25 DEF DeqNextBucket
  <1>26. ASSUME NEW t \in Threads, DeqAdvance(t), UNCHANGED added PROVE current' \in Cursors
    <2>1. oldCur[t].index \in Nat
      BY <1>1, CursorFields DEF TypeLocals
    <2>2. [index |-> oldCur[t].index + 1, mark |-> NextMark(t)] \in Cursors
      BY <1>1, <2>1, NextMarkNat, CursorMake
    <2> QED
      BY <1>26, <2>2 DEF DeqAdvance
  <1>27. ASSUME NEW t \in Threads, DequeueReturn(t), UNCHANGED added PROVE current' \in Cursors
    BY <1>27 DEF DequeueReturn
  <1>28. ASSUME NEW t \in Threads, DeqTableEnd(t) PROVE current' \in Cursors
    BY <1>28 DEF DeqTableEnd
  <1>29. ASSUME NEW t \in Threads, DeqFutureHead(t) PROVE current' \in Cursors
    BY <1>29 DEF DeqFutureHead
  <1>30. ASSUME NEW t \in Threads, DeqFutureNext(t) PROVE current' \in Cursors
    BY <1>30 DEF DeqFutureNext
  <1>31. ASSUME NEW t \in Threads, ExpandCheck(t) PROVE current' \in Cursors
    BY <1>31 DEF ExpandCheck
  <1>32. ASSUME NEW t \in Threads, ExpandFuture(t) PROVE current' \in Cursors
    BY <1>32 DEF ExpandFuture
  <1>33. ASSUME NEW t \in Threads, ExpandAlloc(t) PROVE current' \in Cursors
    BY <1>33 DEF ExpandAlloc
  <1>34. ASSUME NEW t \in Threads, ExpandTodo(t) PROVE current' \in Cursors
    BY <1>34 DEF ExpandTodo
  <1>35. ASSUME NEW t \in Threads, ExpandTodoCas(t) PROVE current' \in Cursors
    BY <1>35 DEF ExpandTodoCas
  <1>36. ASSUME NEW t \in Threads, ExpandNewFuture(t) PROVE current' \in Cursors
    BY <1>36 DEF ExpandNewFuture
  <1>37. ASSUME NEW t \in Threads, ExpandMarkHead(t) PROVE current' \in Cursors
    BY <1>37 DEF ExpandMarkHead
  <1>38. ASSUME NEW t \in Threads, ExpandMarkNext(t) PROVE current' \in Cursors
    BY <1>38 DEF ExpandMarkNext
  <1>39. ASSUME NEW t \in Threads, ExpandMarkCas(t) PROVE current' \in Cursors
    BY <1>39 DEF ExpandMarkCas
  <1>40. ASSUME NEW t \in Threads, ExpandSize(t) PROVE current' \in Cursors
    BY <1>40 DEF ExpandSize
  <1>41. CASE UNCHANGED allVars
    BY <1>41 DEF allVars, vars
  <1> QED
    BY <1>2, <1>3, <1>4, <1>5, <1>6, <1>7, <1>8, <1>9, <1>10, <1>11, <1>12, <1>13, <1>14, <1>15,
       <1>16, <1>17, <1>18, <1>19, <1>20, <1>21, <1>22, <1>23, <1>24, <1>25, <1>26, <1>27, <1>28, <1>29,
       <1>30, <1>31, <1>32, <1>33, <1>34, <1>35, <1>36, <1>37, <1>38, <1>39, <1>40, <1>41
       DEF NBNext, NBCall, NBStep, NBEnqueueStep, InsertStep, TodoStep,
           NBDequeueStep, ExpandStep, Unchanged

\* Every step keeps the types of the shared fields: the sizes stay table sizes.
LEMMA TypeTableStep == GrowInv /\ [NBNext]_allVars => TypeTable'
  <1> SUFFICES ASSUME GrowInv, [NBNext]_allVars PROVE TypeTable'
    OBVIOUS
  <1>1. TypeTable /\ TypeLocals
    BY TypeParts DEF GrowInv
  <1>2. current' \in Cursors
    BY CurrentStep
  <1> USE <1>1, <1>2, HeadsAre DEF TypeTable, TypeLocals, shared, heads
  <1>3. CASE TableQuiet
    BY <1>3 DEF TableQuiet
  <1>4. ASSUME NEW t \in Threads, InsPush(t) PROVE TypeTable'
    <2>1. NodeInHand(t) \in Nodes
      BY <1>4, WriterKnows
    <2>2. \A h \in Heads : <<NodeInHand(t)>> \o list[h] \in Seq(Nodes)
      BY <2>1, PushElements
    <2>3. list' \in [Heads -> Seq(Nodes)]
      <3>1. CASE future[t] \notin closed /\ First(future[t]) = first[t]
        <4>1. list' = [list EXCEPT ![future[t]] = <<NodeInHand(t)>> \o list[future[t]]]
          BY <1>4, <3>1 DEF InsPush
        <4>2. PICK s \in Seq(Nodes) : s = <<NodeInHand(t)>> \o list[future[t]]
          BY <2>2
        <4>3. list' = [list EXCEPT ![future[t]] = s]
          BY <4>1, <4>2, Zenon
        <4> QED
          BY <4>3
      <3>2. CASE ~(future[t] \notin closed /\ First(future[t]) = first[t])
        BY <1>4, <3>2 DEF InsPush
      <3> QED
        BY <3>1, <3>2
    <2>4. UNCHANGED <<dequeue_size, table_size, future_list, todo_list, closed>>
      BY <1>4 DEF InsPush
    <2> QED
      BY <2>3, <2>4
  <1>5. ASSUME NEW t \in Threads, PopCas(t) PROVE TypeTable'
    <2>1. first[t] \in Nodes
      BY <1>5, WriterKnows
    <2>2. CASE todo[t] \in closed /\ First(todo[t]) = first[t]
      <3>1. list[todo[t]] # <<>>
        BY <2>1, <2>2, CalendarAssumption DEF First
      <3>2. Tail(list[todo[t]]) \in Seq(Nodes)
        BY <3>1, PopElements
      <3> QED
        BY <1>5, <2>2, <3>2 DEF PopCas
    <2>3. CASE ~(todo[t] \in closed /\ First(todo[t]) = first[t])
      BY <1>5, <2>3 DEF PopCas
    <2> QED
      BY <2>2, <2>3
  <1>6. ASSUME NEW t \in Threads, ExpandAlloc(t) PROVE TypeTable'
    BY <1>6, WriterKnows DEF ExpandAlloc, Grows
  <1>7. ASSUME NEW t \in Threads, ExpandTodoCas(t) PROVE TypeTable'
    BY <1>7 DEF ExpandTodoCas
  <1>8. ASSUME NEW t \in Threads, ExpandNewFuture(t) PROVE TypeTable'
    BY <1>8, WriterKnows DEF ExpandNewFuture, Grows
  <1>9. ASSUME NEW t \in Threads, ExpandMarkCas(t) PROVE TypeTable'
    <2>1. closed' = closed \cup {todo[t]} \/ closed' = closed
      BY <1>9 DEF ExpandMarkCas
    <2>2. UNCHANGED <<dequeue_size, table_size, future_list, todo_list, list>>
      BY <1>9 DEF ExpandMarkCas
    <2> QED
      BY <2>1, <2>2
  <1>10. ASSUME NEW t \in Threads, ExpandSize(t) PROVE TypeTable'
    BY <1>10, WriterKnows DEF ExpandSize, Grows
  <1> QED
    BY <1>3, <1>4, <1>5, <1>6, <1>7, <1>8, <1>9, <1>10, TableWriters

\* Every step keeps the types.
LEMMA NBTypeStep == GrowInv /\ [NBNext]_allVars => NBTypeOK'
  BY TypeParts, TypePartsNext, TypePcStep, TypeTableStep, TypeNodesStep, TypeLocalsStep
     DEF GrowInv

\* Node n is put in front of the nodes after head h, which is not closed.
Pushed(h, n) ==
  /\ h \in Heads \ closed
  /\ \A g \in Heads \ {h} : list'[g] = list[g]
  /\ DOMAIN list'[h] = 1 .. (Len(list[h]) + 1)
  /\ list'[h][1] = n
  /\ \A i \in DOMAIN list[h] : list'[h][i + 1] = list[h][i]

\* Node n is removed from the front of the nodes after head h, which is closed.
Popped(h, n) ==
  /\ h \in closed
  /\ \A g \in Heads \ {h} : list'[g] = list[g]
  /\ 1 \in DOMAIN list[h] /\ list[h][1] = n
  /\ DOMAIN list'[h] = 1 .. (Len(list[h]) - 1)
  /\ \A i \in DOMAIN list'[h] : list'[h][i] = list[h][i + 1]

\* A CAS on a head either pushes the node in hand or changes nothing.
LEMMA PushDoes ==
  ASSUME GrowInv, NEW t \in Threads, InsPush(t)
  PROVE  /\ UNCHANGED <<future_list, todo_list, closed, table_size, dequeue_size>>
         /\ \/ Pushed(future[t], NodeInHand(t)) /\ place' = [place EXCEPT ![NodeInHand(t)] = "future"]
               /\ carried' = [carried EXCEPT ![t] = NoNode]
               /\ pc' = [pc EXCEPT ![t] = IF old_size[t] # 0 THEN "todo_head" ELSE "enqueued"]
            \/ UNCHANGED <<list, place, carried>> /\ pc' = [pc EXCEPT ![t] = "ins_head"]
  <1>1. TypeTable /\ TypeLocals
    BY TypeParts DEF GrowInv
  <1>2. NodeInHand(t) \in Nodes /\ future[t] \in Heads
    BY <1>1, WriterKnows DEF TypeLocals
  <1>3. list[future[t]] \in Seq(Nodes)
    BY <1>1, <1>2 DEF TypeTable
  <1>4. UNCHANGED <<future_list, todo_list, closed, table_size, dequeue_size>>
    BY DEF InsPush, shared
  <1>5. CASE future[t] \notin closed /\ First(future[t]) = first[t]
    <2>1. list' = [list EXCEPT ![future[t]] = <<NodeInHand(t)>> \o list[future[t]]]
      BY <1>5 DEF InsPush
    <2>2. PICK s : s = <<NodeInHand(t)>> \o list[future[t]]
      OBVIOUS
    <2>3. /\ DOMAIN s = 1 .. (Len(list[future[t]]) + 1)
          /\ s[1] = NodeInHand(t)
          /\ \A i \in DOMAIN list[future[t]] : s[i + 1] = list[future[t]][i]
      BY <1>2, <1>3, <2>2, PushElements
    <2>4. list' = [list EXCEPT ![future[t]] = s]
      BY <2>1, <2>2, Zenon
    <2>5. list'[future[t]] = s /\ \A g \in Heads \ {future[t]} : list'[g] = list[g]
      BY <1>1, <1>2, <2>4 DEF TypeTable
    <2>6. Pushed(future[t], NodeInHand(t))
      BY <1>2, <1>5, <2>3, <2>5 DEF Pushed
    <2>7. /\ place' = [place EXCEPT ![NodeInHand(t)] = "future"]
          /\ carried' = [carried EXCEPT ![t] = NoNode]
          /\ pc' = [pc EXCEPT ![t] = IF old_size[t] # 0 THEN "todo_head" ELSE "enqueued"]
      BY <1>5 DEF InsPush, Set, Goto
    <2> QED
      BY <1>4, <2>6, <2>7
  <1>6. CASE ~(future[t] \notin closed /\ First(future[t]) = first[t])
    BY <1>4, <1>6 DEF InsPush, Set, Goto
  <1> QED
    BY <1>5, <1>6

\* The CAS of empty_todo_list() takes the first node of a closed list, or fails.
LEMMA PopDoes ==
  ASSUME GrowInv, NEW t \in Threads, PopCas(t)
  PROVE  /\ UNCHANGED <<future_list, todo_list, closed, table_size, dequeue_size>>
         /\ \/ Popped(todo[t], first[t]) /\ place' = [place EXCEPT ![first[t]] = "carried"]
               /\ carried' = [carried EXCEPT ![t] = first[t]]
               /\ pc' = [pc EXCEPT ![t] = "ins_head"]
            \/ UNCHANGED <<list, place, carried>> /\ pc' = [pc EXCEPT ![t] = "pop_next"]
  <1>1. TypeTable /\ TypeLocals
    BY TypeParts DEF GrowInv
  <1>2. first[t] \in Nodes /\ todo[t] \in Heads
    BY <1>1, WriterKnows DEF TypeLocals
  <1>3. list[todo[t]] \in Seq(Nodes)
    BY <1>1, <1>2 DEF TypeTable
  <1>4. UNCHANGED <<future_list, todo_list, closed, table_size, dequeue_size>>
    BY DEF PopCas, shared
  <1>5. CASE todo[t] \in closed /\ First(todo[t]) = first[t]
    <2>1. list[todo[t]] # <<>> /\ list[todo[t]][1] = first[t]
      BY <1>2, <1>5, CalendarAssumption DEF First
    <2>2. list' = [list EXCEPT ![todo[t]] = Tail(list[todo[t]])]
      BY <1>5 DEF PopCas
    <2>3. PICK s : s = Tail(list[todo[t]])
      OBVIOUS
    <2>4. /\ DOMAIN s = 1 .. (Len(list[todo[t]]) - 1)
          /\ \A i \in DOMAIN s : s[i] = list[todo[t]][i + 1]
      BY <1>3, <2>1, <2>3, PopElements
    <2>5. list' = [list EXCEPT ![todo[t]] = s]
      BY <2>2, <2>3, Zenon
    <2>6. list'[todo[t]] = s /\ \A g \in Heads \ {todo[t]} : list'[g] = list[g]
      BY <1>1, <1>2, <2>5 DEF TypeTable
    <2>7. 1 \in DOMAIN list[todo[t]]
      BY <1>3, <2>1
    <2>8. Popped(todo[t], first[t])
      BY <1>5, <2>1, <2>4, <2>6, <2>7 DEF Popped
    <2>9. /\ place' = [place EXCEPT ![first[t]] = "carried"]
          /\ carried' = [carried EXCEPT ![t] = first[t]]
          /\ pc' = [pc EXCEPT ![t] = "ins_head"]
      BY <1>5 DEF PopCas, Set, Goto
    <2> QED
      BY <1>4, <2>8, <2>9
  <1>6. CASE ~(todo[t] \in closed /\ First(todo[t]) = first[t])
    BY <1>4, <1>6 DEF PopCas, Set, Goto
  <1> QED
    BY <1>5, <1>6

\* A head that is out of use stays so.
LEMMA RetiredStays ==
  ASSUME GrowInv, [NBNext]_allVars, NEW h \in Heads, Retired(h)
  PROVE  Retired(h)'
  <1>1. TypeTable
    BY TypeParts DEF GrowInv
  <1>2. h \in closed /\ list[h] = <<>> /\ 1 \notin DOMAIN list[h]
    BY DEF Retired
  <1>3. CASE TableQuiet
    BY <1>3 DEF TableQuiet, heads, Retired
  <1>4. ASSUME NEW t \in Threads, InsPush(t) PROVE Retired(h)'
    BY <1>2, <1>4, PushDoes DEF Pushed, Retired
  <1>5. ASSUME NEW t \in Threads, PopCas(t) PROVE Retired(h)'
    BY <1>2, <1>5, PopDoes DEF Popped, Retired
  <1>6. ASSUME NEW t \in Threads,
               ExpandAlloc(t) \/ ExpandTodoCas(t) \/ ExpandNewFuture(t) \/ ExpandMarkCas(t) \/ ExpandSize(t)
        PROVE Retired(h)'
    BY <1>2, <1>6 DEF ExpandAlloc, ExpandTodoCas, ExpandNewFuture, ExpandMarkCas,
           ExpandSize, heads, Retired
  <1> QED
    BY <1>3, <1>4, <1>5, <1>6, TableWriters

\* What the steps on the table know of the sizes.
LEMMA SizesKnown ==
  GrowInv => dequeue_size \in Nat /\ 0 < dequeue_size /\ InitSize <= dequeue_size
             /\ future_list \in Nat /\ todo_list \in Nat /\ table_size \in Nat
             /\ InitSize \in Nat \ {0} /\ dequeue_size \in Sizes
  BY TypeParts, SizesAbove, HeadsAre, CalendarAssumption DEF GrowInv, TypeTable

\* The size that dequeue() read is a size of the table, the present one or one
\* outgrown.
LEMMA OldSizeKnown ==
  ASSUME GrowInv, NEW t \in Threads, old_size[t] # 0
  PROVE  /\ old_size[t] \in Sizes /\ old_size[t] \in Nat /\ InitSize <= old_size[t] /\ 0 < old_size[t]
         /\ old_size[t] = dequeue_size \/ 2 * old_size[t] <= dequeue_size
  <1>1. old_size[t] \in Heads
    BY TypeParts DEF GrowInv, TypeLocals
  <1>2. old_size[t] \in Sizes
    BY <1>1 DEF Heads
  <1> QED
    BY <1>2, SizesAbove DEF GrowInv, ExpandersKnow, Expander

\* Every step keeps the sizes together: a segment first, then the to-do list, the
\* future list and, once the to-do list is empty, dequeue_size.
LEMMA TableOkStep == GrowInv /\ [NBNext]_allVars => TableOk'
  <1> SUFFICES ASSUME GrowInv, [NBNext]_allVars PROVE TableOk'
    OBVIOUS
  <1>1. TableOk /\ TypeTable
    BY TypeParts DEF GrowInv
  <1>3. CASE TableQuiet
    BY <1>1, <1>3 DEF TableQuiet, heads, TableOk, Retired, Grows
  <1>4. ASSUME NEW t \in Threads, InsPush(t) PROVE TableOk'
    <2>1. UNCHANGED <<future_list, todo_list, table_size, dequeue_size>>
      BY <1>4, PushDoes
    <2>2. Retired(todo_list) => Retired(todo_list)'
      BY <1>1, <2>1, RetiredStays DEF TypeTable, Retired
    <2> QED
      BY <1>1, <2>1, <2>2 DEF TableOk, Grows
  <1>5. ASSUME NEW t \in Threads, PopCas(t) PROVE TableOk'
    <2>1. UNCHANGED <<future_list, todo_list, table_size, dequeue_size>>
      BY <1>5, PopDoes
    <2>2. Retired(todo_list) => Retired(todo_list)'
      BY <1>1, RetiredStays, <2>1 DEF TypeTable, Retired
    <2> QED
      BY <1>1, <2>1, <2>2 DEF TableOk, Grows
  <1>6. ASSUME NEW t \in Threads, ExpandAlloc(t) PROVE TableOk'
    <2>1. old_size[t] # 0
      BY <1>6, WriterKnows
    <2>2. UNCHANGED <<dequeue_size, heads>>
      BY <1>6 DEF ExpandAlloc, shared
    <2>3. table_size' \in {dequeue_size, 2 * dequeue_size} /\ table_size <= table_size'
      BY <1>1, <1>6, <2>1, OldSizeKnown, SizesKnown DEF ExpandAlloc, TableOk
    <2> QED
      BY <1>1, <2>2, <2>3, SizesKnown DEF TableOk, Grows, Retired, heads
  <1>7. ASSUME NEW t \in Threads, ExpandTodoCas(t) PROVE TableOk'
    <2>1. old_size[t] # 0 /\ Grows(old_size[t]) /\ todo[t] < old_size[t] /\ future[t] = old_size[t]
      BY <1>7, WriterKnows DEF ExpandTodoCas, GrowInv, ExpandersKnow, Expander
    <2>2. UNCHANGED <<dequeue_size, future_list, list, closed, table_size>>
      BY <1>7 DEF ExpandTodoCas, shared
    <2>3. CASE todo_list = todo[t]
      <3>1. todo_list' = old_size[t]
        BY <1>7, <2>1, <2>3 DEF ExpandTodoCas
      <3>2. old_size[t] = dequeue_size
        BY <1>1, <2>1, <2>3, OldSizeKnown, SizesKnown DEF TableOk
      <3> QED
        BY <1>1, <2>1, <2>2, <3>1, <3>2, SizesKnown DEF TableOk, Grows
    <2>4. CASE todo_list # todo[t]
      BY <1>1, <1>7, <2>2, <2>4 DEF ExpandTodoCas, TableOk, Grows, Retired
    <2> QED
      BY <2>3, <2>4
  <1>8. ASSUME NEW t \in Threads, ExpandNewFuture(t) PROVE TableOk'
    <2>1. old_size[t] # 0 /\ future[t] = old_size[t]
      BY <1>8, WriterKnows DEF ExpandNewFuture, GrowInv, ExpandersKnow, Expander
    <2>2. UNCHANGED <<dequeue_size, todo_list, list, closed, table_size>>
      BY <1>8 DEF ExpandNewFuture, shared
    <2>3. CASE future_list = future[t]
      <3>1. old_size[t] = dequeue_size
        BY <1>1, <2>1, <2>3, OldSizeKnown, SizesKnown DEF TableOk
      <3>2. table_size = 2 * dequeue_size /\ todo_list = dequeue_size
        BY <1>8, <2>1, <3>1 DEF ExpandNewFuture, GrowInv, ExpandersKnow, Expander
      <3>3. future_list' = 2 * dequeue_size
        BY <1>8, <2>3, <3>1 DEF ExpandNewFuture
      <3> QED
        BY <1>1, <2>2, <3>2, <3>3, SizesKnown DEF TableOk, Grows
    <2>4. CASE future_list # future[t]
      BY <1>1, <1>8, <2>2, <2>4 DEF ExpandNewFuture, TableOk, Grows, Retired
    <2> QED
      BY <2>3, <2>4
  <1>9. ASSUME NEW t \in Threads, ExpandMarkCas(t) PROVE TableOk'
    <2>1. UNCHANGED <<dequeue_size, future_list, todo_list, list, table_size>> /\ closed \subseteq closed'
      BY <1>9 DEF ExpandMarkCas, shared
    <2> QED
      BY <1>1, <2>1 DEF TableOk, Grows, Retired
  <1>10. ASSUME NEW t \in Threads, ExpandSize(t) PROVE TableOk'
    <2>1. old_size[t] # 0
      BY <1>10, WriterKnows
    <2>2. UNCHANGED <<future_list, todo_list, list, closed, table_size>>
      BY <1>10 DEF ExpandSize, heads
    <2>3. CASE dequeue_size = old_size[t]
      <3>1. dequeue_size' = 2 * dequeue_size
        BY <1>10, <2>3 DEF ExpandSize
      <3>2. future_list = 2 * dequeue_size /\ Retired(dequeue_size)
        BY <1>10, <2>1, <2>3
           DEF ExpandSize, GrowInv, ExpandersKnow, Expander, OpenLabels, Retired
      <3>3. todo_list = dequeue_size /\ table_size = 2 * dequeue_size
        BY <1>1, <3>2, SizesKnown DEF TableOk
      <3> QED
        BY <1>1, <2>2, <3>1, <3>2, <3>3, SizesKnown DEF TableOk, Grows, Retired
    <2>4. CASE dequeue_size # old_size[t]
      BY <1>1, <1>10, <2>2, <2>4 DEF ExpandSize, TableOk, Grows, Retired
    <2> QED
      BY <2>3, <2>4
  <1> QED
    BY <1>3, <1>4, <1>5, <1>6, <1>7, <1>8, <1>9, <1>10, TableWriters

\* Apart from a push and a pop, a step moves no node into or out of the lists,
\* and no step changes the timestamp of a node in use.
FutureKept ==
  \A n \in Nodes :
    /\ place'[n] = "future" <=> place[n] = "future"
    /\ place[n] # "unused" => timestamp'[n] = timestamp[n] /\ place'[n] # "unused"

\* Two CASes put nodes in a list or take them out; no other step does, and a
\* node in use keeps its timestamp.
LEMMA PlaceWriters ==
  ASSUME GrowInv, [NBNext]_allVars
  PROVE  FutureKept \/ \E t \in Threads : InsPush(t) \/ PopCas(t)
  <1>1. TypeNodes /\ HandsOk
    BY TypeParts DEF GrowInv
  <1> USE <1>1
      DEF FutureKept, TypeNodes, nodes
  <1>2. ASSUME NEW t \in Threads, NEW n \in Nodes, NEW ts \in Timestamps, NBEnqueueCall(t, n, ts)
        PROVE FutureKept
    BY <1>2 DEF NBEnqueueCall, AllocateNode
  <1>3. ASSUME NEW t \in Threads, InsHead(t) PROVE FutureKept
    BY <1>3 DEF InsHead
  <1>4. ASSUME NEW t \in Threads, InsNext(t) PROVE FutureKept
    BY <1>4 DEF InsNext
  <1>5. ASSUME NEW t \in Threads, MoveUnlink(t), UNCHANGED added PROVE FutureKept
    BY <1>5 DEF MoveUnlink, UnlinkIn
  <1>6. ASSUME NEW t \in Threads, Move(t) PROVE FutureKept
    BY <1>6 DEF Move, HandsOk, CarryOk, Set
  <1>7. ASSUME NEW t \in Threads, LoopHead(t) PROVE FutureKept
    BY <1>7 DEF LoopHead
  <1>8. ASSUME NEW t \in Threads, LoopNext(t) PROVE FutureKept
    BY <1>8 DEF LoopNext
  <1>9. ASSUME NEW t \in Threads, LoopEnd(t) PROVE FutureKept
    BY <1>9 DEF LoopEnd
  <1>10. ASSUME NEW t \in Threads, CollaborativeReturn(t) PROVE FutureKept
    BY <1>10 DEF CollaborativeReturn
  <1>11. ASSUME NEW t \in Threads, PopHead(t) PROVE FutureKept
    BY <1>11 DEF PopHead
  <1>12. ASSUME NEW t \in Threads, PopNext(t) PROVE FutureKept
    BY <1>12 DEF PopNext
  <1>13. ASSUME NEW t \in Threads, Unlink(t), UNCHANGED added PROVE FutureKept
    BY <1>13 DEF Unlink, UnlinkIn
  <1>14. ASSUME NEW t \in Threads, Insert(t), UNCHANGED added PROVE FutureKept
    BY <1>14 DEF Insert, DrawMark, HandsOk, NewOk, CarryOk, Inserting
  <1>15. ASSUME NEW t \in Threads, FlushRead(t), UNCHANGED added PROVE FutureKept
    BY <1>15 DEF FlushRead
  <1>16. ASSUME NEW t \in Threads, FlushCas(t), UNCHANGED added PROVE FutureKept
    BY <1>16 DEF FlushCas
  <1>17. ASSUME NEW t \in Threads, EnqueueReturn(t), UNCHANGED added PROVE FutureKept
    BY <1>17 DEF EnqueueReturn
  <1>18. ASSUME NEW t \in Threads, NBDequeueCall(t) PROVE FutureKept
    BY <1>18 DEF NBDequeueCall, DequeueCall, Queued
  <1>19. ASSUME NEW t \in Threads, DeqRead(t), UNCHANGED added PROVE FutureKept
    BY <1>19 DEF DeqRead
  <1>20. ASSUME NEW t \in Threads, DeqScan(t), UNCHANGED added PROVE FutureKept
    BY <1>20 DEF DeqScan, Firsts, Bucket
  <1>21. ASSUME NEW t \in Threads, DeqMark(t), UNCHANGED added PROVE FutureKept
    BY <1>21 DEF DeqMark
  <1>22. ASSUME NEW t \in Threads, DeqMarkFails(t), UNCHANGED added PROVE FutureKept
    BY <1>22 DEF DeqMarkFails
  <1>23. ASSUME NEW t \in Threads, DeqNextBucket(t), UNCHANGED added PROVE FutureKept
    BY <1>23 DEF DeqNextBucket
  <1>24. ASSUME NEW t \in Threads, DeqAdvance(t), UNCHANGED added PROVE FutureKept
    BY <1>24 DEF DeqAdvance, DrawMark
  <1>25. ASSUME NEW t \in Threads, DequeueReturn(t), UNCHANGED added PROVE FutureKept
    BY <1>25 DEF DequeueReturn
  <1>26. ASSUME NEW t \in Threads, DeqTableEnd(t) PROVE FutureKept
    BY <1>26 DEF DeqTableEnd
  <1>27. ASSUME NEW t \in Threads, DeqFutureHead(t) PROVE FutureKept
    BY <1>27 DEF DeqFutureHead
  <1>28. ASSUME NEW t \in Threads, DeqFutureNext(t) PROVE FutureKept
    BY <1>28 DEF DeqFutureNext
  <1>29. ASSUME NEW t \in Threads, ExpandCheck(t) PROVE FutureKept
    BY <1>29 DEF ExpandCheck
  <1>30. ASSUME NEW t \in Threads, ExpandFuture(t) PROVE FutureKept
    BY <1>30 DEF ExpandFuture
  <1>31. ASSUME NEW t \in Threads, ExpandAlloc(t) PROVE FutureKept
    BY <1>31 DEF ExpandAlloc
  <1>32. ASSUME NEW t \in Threads, ExpandTodo(t) PROVE FutureKept
    BY <1>32 DEF ExpandTodo
  <1>33. ASSUME NEW t \in Threads, ExpandTodoCas(t) PROVE FutureKept
    BY <1>33 DEF ExpandTodoCas
  <1>34. ASSUME NEW t \in Threads, ExpandNewFuture(t) PROVE FutureKept
    BY <1>34 DEF ExpandNewFuture
  <1>35. ASSUME NEW t \in Threads, ExpandMarkHead(t) PROVE FutureKept
    BY <1>35 DEF ExpandMarkHead
  <1>36. ASSUME NEW t \in Threads, ExpandMarkNext(t) PROVE FutureKept
    BY <1>36 DEF ExpandMarkNext
  <1>37. ASSUME NEW t \in Threads, ExpandMarkCas(t) PROVE FutureKept
    BY <1>37 DEF ExpandMarkCas
  <1>38. ASSUME NEW t \in Threads, ExpandSize(t) PROVE FutureKept
    BY <1>38 DEF ExpandSize
  <1>39. CASE UNCHANGED allVars
    BY <1>39 DEF allVars, vars
  <1> HIDE DEF FutureKept
  <1> QED
    BY <1>2, <1>3, <1>4, <1>5, <1>6, <1>7, <1>8, <1>9, <1>10, <1>11, <1>12, <1>13, <1>14, <1>15,
       <1>16, <1>17, <1>18, <1>19, <1>20, <1>21, <1>22, <1>23, <1>24, <1>25, <1>26, <1>27, <1>28, <1>29,
       <1>30, <1>31, <1>32, <1>33, <1>34, <1>35, <1>36, <1>37, <1>38, <1>39
       DEF NBNext, NBCall, NBStep, NBEnqueueStep, InsertStep, TodoStep,
           NBDequeueStep, ExpandStep, Unchanged

\* What a thread about to push or close knows of its list.
LEMMA ListInUse ==
  ASSUME GrowInv, NEW t \in Threads
  PROVE  /\ pc[t] = "ins_push" /\ future[t] \notin closed => future[t] \in {future_list, todo_list}
         /\ pc[t] = "ex_mark_cas" /\ todo[t] \notin closed =>
              todo[t] = todo_list /\ todo_list = dequeue_size
  BY SizesKnown DEF GrowInv, HeadsKnown, HeadsOf, Retired, TableOk, MarkLabels

\* Every step keeps the lists that are out of use closed and empty.
LEMMA ClosedOkStep == GrowInv /\ [NBNext]_allVars => ClosedOk'
  <1> SUFFICES ASSUME GrowInv, [NBNext]_allVars PROVE ClosedOk'
    OBVIOUS
  <1>1. TableOk /\ ClosedOk /\ TypeTable /\ dequeue_size \in Nat /\ 0 < dequeue_size
    BY TypeParts, SizesKnown DEF GrowInv
  <1>3. CASE TableQuiet
    BY <1>1, <1>3 DEF TableQuiet, heads, ClosedOk, Grows
  <1>4. ASSUME NEW t \in Threads, InsPush(t) PROVE ClosedOk'
    <2>1. pc[t] = "ins_push" /\ UNCHANGED <<future_list, todo_list, closed, dequeue_size>>
      BY <1>4, PushDoes DEF InsPush
    <2>2. \A h \in Heads : h \notin {future_list, todo_list} => list'[h] = list[h]
      BY <1>4, <2>1, PushDoes, ListInUse DEF Pushed
    <2> QED
      BY <1>1, <2>1, <2>2 DEF ClosedOk, Grows
  <1>5. ASSUME NEW t \in Threads, PopCas(t) PROVE ClosedOk'
    <2>1. UNCHANGED <<future_list, todo_list, closed, dequeue_size>>
      BY <1>5, PopDoes
    <2>2. \A h \in Heads : list[h] = <<>> => list'[h] = list[h]
      BY <1>5, PopDoes DEF Popped
    <2> QED
      BY <1>1, <2>1, <2>2 DEF ClosedOk, Grows
  <1>6. ASSUME NEW t \in Threads, ExpandAlloc(t) PROVE ClosedOk'
    BY <1>1, <1>6 DEF ExpandAlloc, shared, heads, ClosedOk, Grows
  <1>7. ASSUME NEW t \in Threads, ExpandTodoCas(t) PROVE ClosedOk'
    <2>1. UNCHANGED <<dequeue_size, future_list, list, closed, table_size>>
      BY <1>7 DEF ExpandTodoCas, shared
    <2>2. CASE todo_list' = todo_list
      BY <1>1, <2>1, <2>2 DEF ClosedOk, Grows
    <2>3. CASE todo_list' # todo_list
      <3>1. old_size[t] # 0 /\ todo_list < old_size[t]
        BY <1>7, <2>3, WriterKnows DEF ExpandTodoCas, GrowInv, ExpandersKnow, Expander
      <3>2. todo_list # dequeue_size
        BY <1>1, <3>1, OldSizeKnown
      <3>3. Retired(todo_list) /\ todo_list < dequeue_size /\ future_list = dequeue_size
        BY <1>1, <3>2 DEF TableOk
      <3> QED
        BY <1>1, <2>1, <3>3 DEF ClosedOk, Grows, Retired
    <2> QED
      BY <2>2, <2>3
  <1>8. ASSUME NEW t \in Threads, ExpandNewFuture(t) PROVE ClosedOk'
    <2>1. old_size[t] # 0 /\ future[t] = old_size[t]
      BY <1>8, WriterKnows DEF ExpandNewFuture, GrowInv, ExpandersKnow, Expander
    <2>2. UNCHANGED <<dequeue_size, todo_list, list, closed>>
      BY <1>8 DEF ExpandNewFuture, shared
    <2>3. CASE future_list = future[t]
      <3>1. old_size[t] = dequeue_size
        BY <1>1, <2>1, <2>3, OldSizeKnown DEF TableOk
      <3>2. todo_list = dequeue_size /\ future_list = dequeue_size
        BY <1>8, <2>1, <2>3, <3>1 DEF ExpandNewFuture, GrowInv, ExpandersKnow, Expander
      <3>3. future_list' = 2 * dequeue_size
        BY <1>8, <2>3, <3>1 DEF ExpandNewFuture
      <3>4. 2 * dequeue_size \notin closed
        BY <1>1 DEF ClosedOk
      <3> QED
        BY <1>1, <2>2, <3>2, <3>3, <3>4 DEF ClosedOk, Grows
    <2>4. CASE future_list # future[t]
      BY <1>1, <1>8, <2>2, <2>4 DEF ExpandNewFuture, ClosedOk, Grows
    <2> QED
      BY <2>3, <2>4
  <1>9. ASSUME NEW t \in Threads, ExpandMarkCas(t) PROVE ClosedOk'
    <2>1. UNCHANGED <<dequeue_size, future_list, todo_list, list>>
      BY <1>9 DEF ExpandMarkCas, shared
    <2>2. closed' = closed \/ (todo[t] \notin closed /\ closed' = closed \cup {todo[t]})
      BY <1>9 DEF ExpandMarkCas
    <2>3. closed' = closed \/ (closed' = closed \cup {todo_list} /\ todo_list = dequeue_size)
      BY <1>9, <2>2, ListInUse DEF ExpandMarkCas
    <2> QED
      BY <1>1, <2>1, <2>3 DEF ClosedOk, Grows, TableOk
  <1>10. ASSUME NEW t \in Threads, ExpandSize(t) PROVE ClosedOk'
    <2>1. old_size[t] # 0 /\ UNCHANGED <<future_list, todo_list, list, closed>>
      BY <1>10, WriterKnows DEF ExpandSize, heads
    <2>2. dequeue_size' \in Nat /\ dequeue_size <= dequeue_size'
      BY <1>1, <1>10, <2>1, OldSizeKnown DEF ExpandSize
    <2>3. \A h \in closed : h \in Nat
      BY <1>1, HeadsAre DEF TypeTable
    <2> QED
      BY <1>1, <2>1, <2>2, <2>3 DEF ClosedOk, Grows
  <1> QED
    BY <1>3, <1>4, <1>5, <1>6, <1>7, <1>8, <1>9, <1>10, TableWriters

\* Nodes keep their links whatever the other fields do.
LEMMA LinksOkStep == GrowInv /\ [NBNext]_allVars => LinksOk'
  <1> SUFFICES ASSUME GrowInv, [NBNext]_allVars PROVE LinksOk'
    OBVIOUS
  <1>1. LinksOk /\ TypeTable /\ TypeNodes /\ TypeLocals
    BY TypeParts DEF GrowInv
  <1>2. \A h \in Heads : \A i \in DOMAIN list[h] : list[h][i] \in Nodes /\ i \in Nat /\ i # 0
    BY <1>1 DEF TypeTable
  <1>3. ASSUME FutureKept, UNCHANGED list PROVE LinksOk'
    BY <1>1, <1>2, <1>3 DEF LinksOk, FutureKept
  <1>4. ASSUME NEW t \in Threads, InsPush(t) PROVE LinksOk'
    <2>1. CASE UNCHANGED <<list, place, timestamp>>
      BY <1>1, <2>1 DEF LinksOk
    <2>2. CASE ~UNCHANGED <<list, place, timestamp>>
      <3>1. PICK h, n : h = future[t] /\ n = NodeInHand(t)
        OBVIOUS
      <3>2. UNCHANGED timestamp /\ Pushed(h, n) /\ place' = [place EXCEPT ![n] = "future"]
        BY <1>4, <2>2, <3>1, PushDoes DEF InsPush
      <3>3. n \in Nodes /\ h \in Heads /\ h <= BucketOf(timestamp[n]) /\ place[n] # "future"
        BY <1>1, <1>4, <3>1, WriterKnows
           DEF InsPush, GrowInv, HandsOk, NewOk, CarryOk, HeadsKnown, HeadsOf, NodeInHand,
                  IndexInHand, TypeLocals,
               Inserting, InsertLabels
      <3>4. list[h] \in Seq(Nodes)
        BY <1>1, <3>3 DEF TypeTable
      <3>5. \A i \in DOMAIN list'[h] : i = 1 \/ (i - 1 \in DOMAIN list[h] /\ list'[h][i] = list[h][i - 1])
        BY <3>2, <3>4 DEF Pushed
      <3>6. \A g \in Heads : \A i \in DOMAIN list[g] : list[g][i] # n
        BY <1>1, <3>3 DEF LinksOk
      <3>7. \A g \in Heads : \A i \in DOMAIN list'[g] :
              \/ g = h /\ i = 1 /\ list'[g][i] = n
              \/ g = h /\ i - 1 \in DOMAIN list[g] /\ list'[g][i] = list[g][i - 1]
              \/ g # h /\ i \in DOMAIN list[g] /\ list'[g][i] = list[g][i]
        BY <3>2, <3>5 DEF Pushed
      <3>8. \A g \in Heads : \A i \in DOMAIN list'[g] :
              place'[list'[g][i]] = "future" /\ g <= BucketOf(timestamp'[list'[g][i]])
        BY <1>1, <1>2, <3>2, <3>3, <3>7 DEF LinksOk, TypeNodes
      <3>9. \A f, g \in Heads : \A i \in DOMAIN list'[f] : \A j \in DOMAIN list'[g] :
              list'[f][i] = list'[g][j] => f = g /\ i = j
        <4>1. \A g \in Heads : \A i \in DOMAIN list'[g] : i \in Nat
          <5>1. \A i \in DOMAIN list'[h] : i \in Nat
            BY <3>2, <3>4 DEF Pushed
          <5> QED
            BY <1>2, <3>2, <5>1 DEF Pushed
        <4> SUFFICES ASSUME NEW f \in Heads, NEW g \in Heads,
                            NEW i \in DOMAIN list'[f], NEW j \in DOMAIN list'[g],
                            list'[f][i] = list'[g][j]
                     PROVE  f = g /\ i = j
          OBVIOUS
        <4>2. CASE list'[f][i] = n
          <5>1. ASSUME NEW e \in Heads, NEW k \in DOMAIN list'[e], list'[e][k] = n
                PROVE  e = h /\ k = 1
            BY <3>3, <3>6, <3>7, <5>1
          <5> QED
            BY <4>2, <5>1
        <4>3. CASE list'[f][i] # n
          BY <1>1, <3>7, <4>1, <4>3 DEF LinksOk
        <4> QED
          BY <4>2, <4>3
      <3>10. ASSUME NEW m \in Nodes, place'[m] = "future"
             PROVE  \E g \in Heads : \E i \in DOMAIN list'[g] : list'[g][i] = m
        <4>1. CASE m = n
          BY <3>2, <3>3, <3>4, <4>1 DEF Pushed
        <4>2. CASE m # n
          <5>0. PICK g \in Heads : \E i \in DOMAIN list[g] : list[g][i] = m
            BY <1>1, <3>2, <3>10, <4>2 DEF LinksOk, TypeNodes
          <5>1. PICK i \in DOMAIN list[g] : list[g][i] = m
            BY <5>0
          <5>2. g # h => list'[g] = list[g]
            BY <3>2 DEF Pushed
          <5>3. g = h => i + 1 \in DOMAIN list'[h] /\ list'[h][i + 1] = m
            BY <3>2, <3>4, <5>1 DEF Pushed
          <5> QED
            BY <5>1, <5>2, <5>3
        <4> QED
          BY <4>1, <4>2
      <3> QED
        BY <3>8, <3>9, <3>10 DEF LinksOk
    <2> QED
      BY <2>1, <2>2
  <1>5. ASSUME NEW t \in Threads, PopCas(t) PROVE LinksOk'
    <2>1. CASE UNCHANGED <<list, place, timestamp>>
      BY <1>1, <2>1 DEF LinksOk
    <2>2. CASE ~UNCHANGED <<list, place, timestamp>>
      <3>1. PICK h, n : h = todo[t] /\ n = first[t]
        OBVIOUS
      <3>2. UNCHANGED timestamp /\ Popped(h, n) /\ place' = [place EXCEPT ![n] = "carried"]
        BY <1>5, <2>2, <3>1, PopDoes DEF PopCas
      <3>3. n \in Nodes /\ h \in Heads
        BY <1>1, <1>5, <3>1, WriterKnows DEF TypeLocals
      <3>4. list[h] \in Seq(Nodes)
        BY <1>1, <3>3 DEF TypeTable
      <3>5. \A i \in DOMAIN list'[h] : i + 1 \in DOMAIN list[h] /\ list'[h][i] = list[h][i + 1] /\ i + 1 # 1
        BY <3>2, <3>4 DEF Popped
      <3>6. \A g \in Heads : \A i \in DOMAIN list[g] : list[g][i] = n => g = h /\ i = 1
        BY <1>1, <3>2, <3>3 DEF LinksOk, Popped
      <3>7. \A g \in Heads : \A i \in DOMAIN list'[g] :
              \/ g = h /\ i + 1 \in DOMAIN list[g] /\ i + 1 # 1 /\ list'[g][i] = list[g][i + 1]
              \/ g # h /\ i \in DOMAIN list[g] /\ list'[g][i] = list[g][i]
        BY <3>2, <3>5 DEF Popped
      <3>8. \A g \in Heads : \A i \in DOMAIN list'[g] :
              place'[list'[g][i]] = "future" /\ g <= BucketOf(timestamp'[list'[g][i]])
        BY <1>1, <1>2, <3>2, <3>6, <3>7 DEF LinksOk, TypeNodes
      <3>9. \A f, g \in Heads : \A i \in DOMAIN list'[f] : \A j \in DOMAIN list'[g] :
              list'[f][i] = list'[g][j] => f = g /\ i = j
        <4>1. \A g \in Heads : \A i \in DOMAIN list'[g] : i \in Nat
          BY <1>1, <3>2, <3>4, <1>2 DEF Popped
        <4> QED
          BY <1>1, <3>7, <4>1 DEF LinksOk
      <3>10. ASSUME NEW m \in Nodes, place'[m] = "future"
             PROVE  \E g \in Heads : \E i \in DOMAIN list'[g] : list'[g][i] = m
        <4>1. m # n /\ place[m] = "future"
          BY <1>1, <3>2, <3>3, <3>10 DEF TypeNodes
        <4>0. PICK g \in Heads : \E i \in DOMAIN list[g] : list[g][i] = m
          BY <1>1, <4>1 DEF LinksOk
        <4>2. PICK i \in DOMAIN list[g] : list[g][i] = m
          BY <4>0
        <4>3. g # h => list'[g] = list[g]
          BY <3>2 DEF Popped
        <4>4. g = h => i - 1 \in DOMAIN list'[h] /\ list'[h][i - 1] = m
          <5>1. g = h => i # 1
            BY <3>2, <4>1, <4>2 DEF Popped
          <5>2. g = h => i \in 1 .. Len(list[h]) /\ i - 1 \in 1 .. (Len(list[h]) - 1)
            BY <3>4, <4>2, <5>1
          <5> QED
            BY <3>2, <4>2, <5>2 DEF Popped
        <4> QED
          BY <4>2, <4>3, <4>4
      <3> QED
        BY <3>8, <3>9, <3>10 DEF LinksOk
    <2> QED
      BY <2>1, <2>2
  <1>6. UNCHANGED list \/ \E t \in Threads : InsPush(t) \/ PopCas(t)
    BY TableWriters
       DEF TableQuiet, heads, ExpandAlloc, ExpandTodoCas, ExpandNewFuture, ExpandMarkCas,
              ExpandSize
  <1> QED
    BY <1>3, <1>4, <1>5, <1>6, PlaceWriters

\* Outside the calls that hold them, a thread has no popped node and no size.
LEMMA IdleKnows ==
  ASSUME GrowInv, NEW t \in Threads, pc[t] = "idle"
  PROVE  carried[t] = NoNode /\ old_size[t] = 0
  BY DEF GrowInv, HandsOk, CarryOk, ExpandersKnow, Expander, InsertLabels, TodoLabels,
         OpenLabels, MarkLabels

\* A thread inside expand_array(), or on its way there, holds a size.
LEMMA ExpanderOld ==
  ASSUME GrowInv, NEW t \in Threads,
         pc[t] \in OpenLabels \cup MarkLabels \cup {"fut_head", "fut_next", "ex_check", "ex_size"}
  PROVE  old_size[t] # 0
  BY SizesAbove DEF GrowInv, ExpandersKnow, SizeRead

\* A list that is not empty starts with a node.
LEMMA FirstIsNode == TypeTable => \A h \in Heads : list[h] # <<>> => First(h) \in Nodes
  <1> SUFFICES ASSUME TypeTable, NEW h \in Heads, list[h] # <<>> PROVE First(h) \in Nodes
    OBVIOUS
  <1>1. list[h] \in Seq(Nodes)
    BY DEF TypeTable
  <1>2. list[h][1] \in Nodes
    BY <1>1, PopElements
  <1> QED
    BY <1>2 DEF First

\* What the two CASes on a head do to the thread.
LEMMA PushFrame ==
  ASSUME NEW t \in Threads, InsPush(t)
  PROVE  /\ pc[t] = "ins_push"
         /\ first' = [first EXCEPT ![t] = NoNode] /\ future' = [future EXCEPT ![t] = 0]
         /\ UNCHANGED <<node, timestamp, old_size, todo, late, current, settled, before, oldCur, newCur, marks, seen>>
  BY DEF InsPush, shared, locals, history, Set

\* What the CAS of empty_todo_list() does to the thread.
LEMMA PopFrame ==
  ASSUME NEW t \in Threads, PopCas(t)
  PROVE  /\ pc[t] = "pop_cas"
         /\ first' = [first EXCEPT ![t] = NoNode]
         /\ todo' = [todo EXCEPT ![t] = 0] \/ todo' = todo
         /\ UNCHANGED <<node, timestamp, old_size, future, late, current, settled, before, oldCur, newCur, marks, seen>>
  BY DEF PopCas, shared, locals, history, Set

\* The node in hand is in no bucket and in no list.
LEMMA InHand ==
  ASSUME GrowInv, NEW t \in Threads
  PROVE  /\ pc[t] = "insert" => node[t] \in Nodes /\ place[node[t]] = "held"
         /\ pc[t] = "move" => carried[t] \in Nodes /\ place[carried[t]] = "carried"
         /\ pc[t] = "ins_push" => NodeInHand(t) \in Nodes /\
              \/ carried[t] = NoNode /\ NodeInHand(t) = node[t] /\ place[node[t]] = "held"
              \/ carried[t] # NoNode /\ NodeInHand(t) = carried[t] /\ place[carried[t]] = "carried"
         /\ pc[t] = "pop_cas" => first[t] \in Nodes /\ (First(todo[t]) = first[t] => place[first[t]] = "future")
  <1>1. carried[t] \in SomeNode /\ todo[t] \in Heads /\ TypeTable
    BY TypeParts DEF GrowInv, TypeLocals
  <1>2. pc[t] = "pop_cas" /\ First(todo[t]) = first[t] => list[todo[t]] # <<>>
    BY <1>1, CalendarAssumption DEF First, GrowInv, HandsOk, ReadOk
  <1>3. list[todo[t]] # <<>> => 1 \in DOMAIN list[todo[t]]
    BY <1>1 DEF TypeTable
  <1>4. pc[t] = "pop_cas" /\ First(todo[t]) = first[t] => place[first[t]] = "future"
    BY <1>1, <1>2, <1>3 DEF First, GrowInv, LinksOk
  <1> QED
    BY <1>1, <1>4 DEF GrowInv, HandsOk, NewOk, CarryOk, ReadOk, Inserting, InEnqueue,
           Enqueuing, InsertLabels,
           NodeInHand, SomeNode

\* Every step keeps candidates, first nodes and timestamps.
LEMMA ReadOkStep == GrowInv /\ [NBNext]_allVars => ReadOk'
  <1> SUFFICES ASSUME GrowInv, [NBNext]_allVars PROVE ReadOk'
    OBVIOUS
  <1>1. ReadOk
    BY DEF GrowInv, HandsOk
  <1>2. TypePc /\ TypeNodes /\ TypeLocals /\ TypeTable
    BY TypeParts DEF GrowInv
  <1> USE <1>1, <1>2, CalendarAssumption
      DEF ReadOk, shared, nodes, locals, history, heads, locals2, added, Goto, Set, TypePc,
             TypeNodes, TypeLocals
  <1>3. ASSUME NEW t \in Threads, NEW n \in Nodes, NEW ts \in Timestamps, NBEnqueueCall(t, n, ts)
        PROVE ReadOk'
    BY <1>3 DEF NBEnqueueCall, AllocateNode
  <1>4. ASSUME NEW t \in Threads, InsHead(t) PROVE ReadOk'
    BY <1>4 DEF InsHead
  <1>5. ASSUME NEW t \in Threads, InsNext(t) PROVE ReadOk'
    BY <1>5 DEF InsNext
  <1>6. ASSUME NEW t \in Threads, InsPush(t) PROVE ReadOk'
    <2>1. /\ UNCHANGED <<node, timestamp>> /\ pc[t] = "ins_push"
          /\ first' = [first EXCEPT ![t] = NoNode]
      BY <1>6, PushFrame
    <2>2. \A n \in Nodes : place'[n] # "unused" => place[n] # "unused"
      BY <1>6, <2>1, InHand, PushDoes
    <2>3. \A u \in Threads : pc'[u] # pc[u] => pc'[u] \notin {"mark", "pop_cas"} /\ u = t
      BY <1>6, PushDoes
    <2> QED
      BY <2>1, <2>2, <2>3
  <1>7. ASSUME NEW t \in Threads, MoveUnlink(t), UNCHANGED added PROVE ReadOk'
    BY <1>7 DEF MoveUnlink, UnlinkIn
  <1>8. ASSUME NEW t \in Threads, Move(t) PROVE ReadOk'
    BY <1>8, InHand DEF Move
  <1>9. ASSUME NEW t \in Threads, LoopHead(t) PROVE ReadOk'
    BY <1>9 DEF LoopHead
  <1>10. ASSUME NEW t \in Threads, LoopNext(t) PROVE ReadOk'
    BY <1>10 DEF LoopNext
  <1>11. ASSUME NEW t \in Threads, LoopEnd(t) PROVE ReadOk'
    BY <1>11 DEF LoopEnd
  <1>12. ASSUME NEW t \in Threads, CollaborativeReturn(t) PROVE ReadOk'
    BY <1>12 DEF CollaborativeReturn
  <1>13. ASSUME NEW t \in Threads, PopHead(t) PROVE ReadOk'
    BY <1>13 DEF PopHead
  <1>14. ASSUME NEW t \in Threads, PopNext(t) PROVE ReadOk'
    <2>1. list[todo[t]] # <<>> => First(todo[t]) \in Nodes
      BY FirstIsNode
    <2>2. pc'[t] = "pop_cas" => first'[t] \in Nodes
      BY <1>14, <2>1 DEF PopNext
    <2>3. \A u \in Threads \ {t} : pc'[u] = pc[u] /\ first'[u] = first[u]
      BY <1>14 DEF PopNext
    <2>4. pc'[t] # "mark" /\ UNCHANGED <<node, nodes>>
      BY <1>14 DEF PopNext
    <2> QED
      BY <2>2, <2>3, <2>4
  <1>15. ASSUME NEW t \in Threads, PopCas(t) PROVE ReadOk'
    <2>1. /\ UNCHANGED <<node, timestamp>> /\ pc[t] = "pop_cas"
          /\ first' = [first EXCEPT ![t] = NoNode]
      BY <1>15, PopFrame
    <2>2. \A n \in Nodes : place'[n] # "unused" => place[n] # "unused"
      <3>1. CASE UNCHANGED place
        BY <3>1
      <3>2. CASE Popped(todo[t], first[t]) /\ place' = [place EXCEPT ![first[t]] = "carried"]
        <4>1. First(todo[t]) = first[t]
          BY <3>2 DEF Popped, First
        <4> QED
          BY <2>1, <3>2, <4>1, InHand
      <3> QED
        BY <1>15, <3>1, <3>2, PopDoes
    <2>3. pc'[t] \notin {"mark", "pop_cas"} /\ \A u \in Threads \ {t} : pc'[u] = pc[u]
      BY <1>15, PopDoes
    <2> QED
      BY <2>1, <2>2, <2>3
  <1>16. ASSUME NEW t \in Threads, Unlink(t), UNCHANGED added PROVE ReadOk'
    BY <1>16 DEF Unlink, UnlinkIn
  <1>17. ASSUME NEW t \in Threads, Insert(t), UNCHANGED added PROVE ReadOk'
    BY <1>17, InHand DEF Insert, DrawMark
  <1>18. ASSUME NEW t \in Threads, FlushRead(t), UNCHANGED added PROVE ReadOk'
    BY <1>18 DEF FlushRead
  <1>19. ASSUME NEW t \in Threads, FlushCas(t), UNCHANGED added PROVE ReadOk'
    BY <1>19 DEF FlushCas
  <1>20. ASSUME NEW t \in Threads, EnqueueReturn(t), UNCHANGED added PROVE ReadOk'
    BY <1>20 DEF EnqueueReturn
  <1>21. ASSUME NEW t \in Threads, NBDequeueCall(t) PROVE ReadOk'
    BY <1>21 DEF NBDequeueCall, DequeueCall, Queued
  <1>22. ASSUME NEW t \in Threads, DeqRead(t), UNCHANGED added PROVE ReadOk'
    BY <1>22 DEF DeqRead
  <1>23. ASSUME NEW t \in Threads, DeqScan(t), UNCHANGED added PROVE ReadOk'
    BY <1>23 DEF DeqScan, Firsts, Bucket
  <1>24. ASSUME NEW t \in Threads, DeqMark(t), UNCHANGED added PROVE ReadOk'
    BY <1>24 DEF DeqMark
  <1>25. ASSUME NEW t \in Threads, DeqMarkFails(t), UNCHANGED added PROVE ReadOk'
    BY <1>25 DEF DeqMarkFails
  <1>26. ASSUME NEW t \in Threads, DeqNextBucket(t), UNCHANGED added PROVE ReadOk'
    BY <1>26 DEF DeqNextBucket
  <1>27. ASSUME NEW t \in Threads, DeqAdvance(t), UNCHANGED added PROVE ReadOk'
    BY <1>27 DEF DeqAdvance, DrawMark
  <1>28. ASSUME NEW t \in Threads, DequeueReturn(t), UNCHANGED added PROVE ReadOk'
    BY <1>28 DEF DequeueReturn
  <1>29. ASSUME NEW t \in Threads, DeqTableEnd(t) PROVE ReadOk'
    BY <1>29 DEF DeqTableEnd
  <1>30. ASSUME NEW t \in Threads, DeqFutureHead(t) PROVE ReadOk'
    BY <1>30 DEF DeqFutureHead
  <1>31. ASSUME NEW t \in Threads, DeqFutureNext(t) PROVE ReadOk'
    BY <1>31 DEF DeqFutureNext
  <1>32. ASSUME NEW t \in Threads, ExpandCheck(t) PROVE ReadOk'
    BY <1>32 DEF ExpandCheck
  <1>33. ASSUME NEW t \in Threads, ExpandFuture(t) PROVE ReadOk'
    BY <1>33 DEF ExpandFuture
  <1>34. ASSUME NEW t \in Threads, ExpandAlloc(t) PROVE ReadOk'
    BY <1>34 DEF ExpandAlloc
  <1>35. ASSUME NEW t \in Threads, ExpandTodo(t) PROVE ReadOk'
    BY <1>35 DEF ExpandTodo
  <1>36. ASSUME NEW t \in Threads, ExpandTodoCas(t) PROVE ReadOk'
    BY <1>36 DEF ExpandTodoCas
  <1>37. ASSUME NEW t \in Threads, ExpandNewFuture(t) PROVE ReadOk'
    BY <1>37 DEF ExpandNewFuture
  <1>38. ASSUME NEW t \in Threads, ExpandMarkHead(t) PROVE ReadOk'
    BY <1>38 DEF ExpandMarkHead
  <1>39. ASSUME NEW t \in Threads, ExpandMarkNext(t) PROVE ReadOk'
    BY <1>39 DEF ExpandMarkNext
  <1>40. ASSUME NEW t \in Threads, ExpandMarkCas(t) PROVE ReadOk'
    BY <1>40 DEF ExpandMarkCas
  <1>41. ASSUME NEW t \in Threads, ExpandSize(t) PROVE ReadOk'
    BY <1>41 DEF ExpandSize
  <1>42. CASE UNCHANGED allVars
    BY <1>42 DEF allVars, vars
  <1> QED
    BY <1>3, <1>4, <1>5, <1>6, <1>7, <1>8, <1>9, <1>10, <1>11, <1>12, <1>13, <1>14, <1>15,
       <1>16,
       <1>17, <1>18, <1>19, <1>20, <1>21, <1>22, <1>23, <1>24, <1>25, <1>26, <1>27, <1>28, <1>29, <1>30,
       <1>31, <1>32, <1>33, <1>34, <1>35, <1>36, <1>37, <1>38, <1>39, <1>40, <1>41, <1>42
       DEF NBNext, NBCall, NBStep, NBEnqueueStep, InsertStep, TodoStep,
           NBDequeueStep, ExpandStep, Unchanged

\* Every step keeps new nodes with the thread that allocated them.
LEMMA NewOkStep == GrowInv /\ [NBNext]_allVars => NewOk'
  <1> SUFFICES ASSUME GrowInv, [NBNext]_allVars PROVE NewOk'
    OBVIOUS
  <1>1. NewOk /\ CarryOk
    BY DEF GrowInv, HandsOk
  <1>2. TypePc /\ TypeNodes /\ TypeLocals /\ TypeTable
    BY TypeParts DEF GrowInv
  <1> USE <1>1, <1>2, CalendarAssumption
      DEF NewOk, CarryOk, InEnqueue, Inserting, Enqueuing, InsertLabels, TodoLabels,
             shared, nodes, locals, history, heads, locals2, added, Goto, Set, TypePc,
             TypeNodes, TypeLocals
  <1>3. ASSUME NEW t \in Threads, NEW n \in Nodes, NEW ts \in Timestamps, NBEnqueueCall(t, n, ts)
        PROVE NewOk'
    <2>1. /\ pc[t] = "idle" /\ pc' = [pc EXCEPT ![t] = "ins_head"] /\ UNCHANGED <<carried, old_size>>
          /\ node' = [node EXCEPT ![t] = n] /\ place' = [place EXCEPT ![n] = "held"] /\ place[n] = "unused"
      BY <1>3 DEF NBEnqueueCall, AllocateNode
    <2>2. carried[t] = NoNode /\ old_size[t] = 0
      BY <2>1, IdleKnows
    <2>3. \A u \in Threads : Inserting(u)' <=> Inserting(u) \/ u = t
      BY <2>1, <2>2
    <2>4. \A u \in Threads : InEnqueue(u)' <=> InEnqueue(u) \/ u = t
      BY <2>1, <2>2
    <2> HIDE DEF InEnqueue, Inserting
    <2> QED
      BY <2>1, <2>3, <2>4
  <1>4. ASSUME NEW t \in Threads, InsHead(t) PROVE NewOk'
    BY <1>4 DEF InsHead
  <1>5. ASSUME NEW t \in Threads, InsNext(t) PROVE NewOk'
    BY <1>5 DEF InsNext
  <1>6. ASSUME NEW t \in Threads, InsPush(t) PROVE NewOk'
    <2>1. UNCHANGED <<node, old_size>> /\ pc[t] = "ins_push"
      BY <1>6, PushFrame
    <2>2. \A u \in Threads \ {t} : pc'[u] = pc[u] /\ carried'[u] = carried[u]
      BY <1>6, PushDoes
    <2>3. \/ UNCHANGED <<place, carried>> /\ pc'[t] = "ins_head"
          \/ /\ place' = [place EXCEPT ![NodeInHand(t)] = "future"]
             /\ pc'[t] = IF old_size[t] # 0 THEN "todo_head" ELSE "enqueued"
      BY <1>6, PushDoes
    <2>4. \A u \in Threads \ {t} : Inserting(u) => node[u] # NodeInHand(t)
      BY <2>1, InHand
    <2>5. \A u \in Threads : (Inserting(u)' => Inserting(u)) /\ (InEnqueue(u)' <=> InEnqueue(u))
      BY <2>1, <2>2, <2>3
    <2>6. \A u \in Threads : Inserting(u)' => place'[node[u]] = place[node[u]]
      BY <2>1, <2>2, <2>3, <2>4, <2>5
    <2> HIDE DEF InEnqueue, Inserting
    <2> QED
      BY <2>1, <2>5, <2>6
  <1>7. ASSUME NEW t \in Threads, MoveUnlink(t), UNCHANGED added PROVE NewOk'
    BY <1>7 DEF MoveUnlink, UnlinkIn
  <1>8. ASSUME NEW t \in Threads, Move(t) PROVE NewOk'
    BY <1>8 DEF Move
  <1>9. ASSUME NEW t \in Threads, LoopHead(t) PROVE NewOk'
    BY <1>9 DEF LoopHead
  <1>10. ASSUME NEW t \in Threads, LoopNext(t) PROVE NewOk'
    BY <1>10 DEF LoopNext
  <1>11. ASSUME NEW t \in Threads, LoopEnd(t) PROVE NewOk'
    BY <1>11 DEF LoopEnd
  <1>12. ASSUME NEW t \in Threads, CollaborativeReturn(t) PROVE NewOk'
    BY <1>12 DEF CollaborativeReturn
  <1>13. ASSUME NEW t \in Threads, PopHead(t) PROVE NewOk'
    BY <1>13 DEF PopHead
  <1>14. ASSUME NEW t \in Threads, PopNext(t) PROVE NewOk'
    <2>1. UNCHANGED <<node, nodes, old_size, carried>> /\ pc[t] = "pop_next"
      BY <1>14 DEF PopNext
    <2>2. /\ \A u \in Threads \ {t} : pc'[u] = pc[u]
          /\ pc'[t] = "pop_cas" \/ pc'[t] = IF old_size[t] # 0 THEN "todo_head" ELSE "enqueued"
      BY <1>14 DEF PopNext
    <2>3. \A u \in Threads : (Inserting(u)' <=> Inserting(u)) /\ (InEnqueue(u)' <=> InEnqueue(u))
      BY <2>1, <2>2
    <2> HIDE DEF InEnqueue, Inserting
    <2> QED
      BY <2>1, <2>3
  <1>15. ASSUME NEW t \in Threads, PopCas(t) PROVE NewOk'
    <2>1. UNCHANGED <<node, old_size>> /\ pc[t] = "pop_cas" /\ first[t] \in Nodes
      BY <1>15, PopFrame, WriterKnows
    <2>2. \A u \in Threads \ {t} : pc'[u] = pc[u] /\ carried'[u] = carried[u]
      BY <1>15, PopDoes
    <2>3. \/ UNCHANGED <<place, carried>> /\ pc'[t] = "pop_next"
          \/ /\ place' = [place EXCEPT ![first[t]] = "carried"] /\ place[first[t]] = "future"
             /\ carried'[t] = first[t] /\ pc'[t] = "ins_head"
      <3>1. Popped(todo[t], first[t]) => place[first[t]] = "future"
        BY <2>1, InHand DEF Popped, First
      <3> QED
        BY <1>15, <3>1, PopDoes
    <2>4. \A u \in Threads : (Inserting(u)' <=> Inserting(u)) /\ (InEnqueue(u)' <=> InEnqueue(u))
      BY <2>1, <2>2, <2>3
    <2>5. \A u \in Threads : Inserting(u) => place'[node[u]] = place[node[u]]
      BY <2>1, <2>2, <2>3
    <2> HIDE DEF InEnqueue, Inserting
    <2> QED
      BY <2>1, <2>4, <2>5
  <1>16. ASSUME NEW t \in Threads, Unlink(t), UNCHANGED added PROVE NewOk'
    BY <1>16 DEF Unlink, UnlinkIn
  <1>17. ASSUME NEW t \in Threads, Insert(t), UNCHANGED added PROVE NewOk'
    BY <1>17 DEF Insert, DrawMark
  <1>18. ASSUME NEW t \in Threads, FlushRead(t), UNCHANGED added PROVE NewOk'
    BY <1>18 DEF FlushRead
  <1>19. ASSUME NEW t \in Threads, FlushCas(t), UNCHANGED added PROVE NewOk'
    BY <1>19 DEF FlushCas
  <1>20. ASSUME NEW t \in Threads, EnqueueReturn(t), UNCHANGED added PROVE NewOk'
    BY <1>20 DEF EnqueueReturn
  <1>21. ASSUME NEW t \in Threads, NBDequeueCall(t) PROVE NewOk'
    BY <1>21 DEF NBDequeueCall, DequeueCall, Queued
  <1>22. ASSUME NEW t \in Threads, DeqRead(t), UNCHANGED added PROVE NewOk'
    BY <1>22 DEF DeqRead
  <1>23. ASSUME NEW t \in Threads, DeqScan(t), UNCHANGED added PROVE NewOk'
    BY <1>23 DEF DeqScan, Firsts, Bucket
  <1>24. ASSUME NEW t \in Threads, DeqMark(t), UNCHANGED added PROVE NewOk'
    BY <1>24 DEF DeqMark
  <1>25. ASSUME NEW t \in Threads, DeqMarkFails(t), UNCHANGED added PROVE NewOk'
    BY <1>25 DEF DeqMarkFails
  <1>26. ASSUME NEW t \in Threads, DeqNextBucket(t), UNCHANGED added PROVE NewOk'
    BY <1>26 DEF DeqNextBucket
  <1>27. ASSUME NEW t \in Threads, DeqAdvance(t), UNCHANGED added PROVE NewOk'
    BY <1>27 DEF DeqAdvance, DrawMark
  <1>28. ASSUME NEW t \in Threads, DequeueReturn(t), UNCHANGED added PROVE NewOk'
    BY <1>28 DEF DequeueReturn
  <1>29. ASSUME NEW t \in Threads, DeqTableEnd(t) PROVE NewOk'
    BY <1>29 DEF DeqTableEnd
  <1>30. ASSUME NEW t \in Threads, DeqFutureHead(t) PROVE NewOk'
    BY <1>30 DEF DeqFutureHead
  <1>31. ASSUME NEW t \in Threads, DeqFutureNext(t) PROVE NewOk'
    BY <1>31 DEF DeqFutureNext
  <1>32. ASSUME NEW t \in Threads, ExpandCheck(t) PROVE NewOk'
    BY <1>32 DEF ExpandCheck
  <1>33. ASSUME NEW t \in Threads, ExpandFuture(t) PROVE NewOk'
    BY <1>33 DEF ExpandFuture
  <1>34. ASSUME NEW t \in Threads, ExpandAlloc(t) PROVE NewOk'
    BY <1>34 DEF ExpandAlloc
  <1>35. ASSUME NEW t \in Threads, ExpandTodo(t) PROVE NewOk'
    BY <1>35 DEF ExpandTodo
  <1>36. ASSUME NEW t \in Threads, ExpandTodoCas(t) PROVE NewOk'
    BY <1>36 DEF ExpandTodoCas
  <1>37. ASSUME NEW t \in Threads, ExpandNewFuture(t) PROVE NewOk'
    BY <1>37 DEF ExpandNewFuture
  <1>38. ASSUME NEW t \in Threads, ExpandMarkHead(t) PROVE NewOk'
    BY <1>38 DEF ExpandMarkHead
  <1>39. ASSUME NEW t \in Threads, ExpandMarkNext(t) PROVE NewOk'
    <2>1. UNCHANGED <<node, nodes, old_size, carried>> /\ pc[t] = "ex_mark_next" /\ old_size[t] # 0
      BY <1>39, ExpanderOld DEF MarkLabels, ExpandMarkNext
    <2>2. /\ \A u \in Threads \ {t} : pc'[u] = pc[u]
          /\ pc'[t] \in {"todo_head", "ex_mark_cas"}
      BY <1>39 DEF ExpandMarkNext
    <2>3. \A u \in Threads : (Inserting(u)' <=> Inserting(u)) /\ (InEnqueue(u)' <=> InEnqueue(u))
      BY <2>1, <2>2
    <2> HIDE DEF InEnqueue, Inserting
    <2> QED
      BY <2>1, <2>3
  <1>40. ASSUME NEW t \in Threads, ExpandMarkCas(t) PROVE NewOk'
    <2>1. UNCHANGED <<node, nodes, old_size, carried>> /\ pc[t] = "ex_mark_cas" /\ old_size[t] # 0
      BY <1>40, ExpanderOld DEF MarkLabels, ExpandMarkCas
    <2>2. /\ \A u \in Threads \ {t} : pc'[u] = pc[u]
          /\ pc'[t] \in {"todo_head", "ex_mark"}
      BY <1>40 DEF ExpandMarkCas
    <2>3. \A u \in Threads : (Inserting(u)' <=> Inserting(u)) /\ (InEnqueue(u)' <=> InEnqueue(u))
      BY <2>1, <2>2
    <2> HIDE DEF InEnqueue, Inserting
    <2> QED
      BY <2>1, <2>3
  <1>41. ASSUME NEW t \in Threads, ExpandSize(t) PROVE NewOk'
    BY <1>41 DEF ExpandSize
  <1>42. CASE UNCHANGED allVars
    BY <1>42 DEF allVars, vars
  <1> QED
    BY <1>3, <1>4, <1>5, <1>6, <1>7, <1>8, <1>9, <1>10, <1>11, <1>12, <1>13, <1>14, <1>15,
       <1>16,
       <1>17, <1>18, <1>19, <1>20, <1>21, <1>22, <1>23, <1>24, <1>25, <1>26, <1>27, <1>28, <1>29, <1>30,
       <1>31, <1>32, <1>33, <1>34, <1>35, <1>36, <1>37, <1>38, <1>39, <1>40, <1>41, <1>42
       DEF NBNext, NBCall, NBStep, NBEnqueueStep, InsertStep, TodoStep,
           NBDequeueStep, ExpandStep, Unchanged

\* Every step keeps a popped node in the hands of one thread.
LEMMA CarryOkStep == GrowInv /\ [NBNext]_allVars => CarryOk'
  <1> SUFFICES ASSUME GrowInv, [NBNext]_allVars PROVE CarryOk'
    OBVIOUS
  <1>1. NewOk /\ CarryOk
    BY DEF GrowInv, HandsOk
  <1>2. TypePc /\ TypeNodes /\ TypeLocals /\ TypeTable
    BY TypeParts DEF GrowInv
  <1> USE <1>1, <1>2, CalendarAssumption
      DEF NewOk, CarryOk, Inserting, InsertLabels, shared, nodes, locals, history, heads,
             locals2, added, Goto, Set, TypePc, TypeNodes, TypeLocals
  <1>3. ASSUME NEW t \in Threads, NEW n \in Nodes, NEW ts \in Timestamps, NBEnqueueCall(t, n, ts)
        PROVE CarryOk'
    BY <1>3 DEF NBEnqueueCall, AllocateNode
  <1>4. ASSUME NEW t \in Threads, InsHead(t) PROVE CarryOk'
    BY <1>4 DEF InsHead
  <1>5. ASSUME NEW t \in Threads, InsNext(t) PROVE CarryOk'
    BY <1>5 DEF InsNext
  <1>6. ASSUME NEW t \in Threads, InsPush(t) PROVE CarryOk'
    <2>1. pc[t] = "ins_push"
      BY <1>6, PushFrame
    <2>2. CASE UNCHANGED <<place, carried>> /\ pc' = [pc EXCEPT ![t] = "ins_head"]
      BY <2>1, <2>2
    <2>3. CASE /\ place' = [place EXCEPT ![NodeInHand(t)] = "future"]
               /\ carried' = [carried EXCEPT ![t] = NoNode]
               /\ pc' = [pc EXCEPT ![t] = IF old_size[t] # 0 THEN "todo_head" ELSE "enqueued"]
      <3>1. \A u \in Threads : carried'[u] # NoNode => u # t /\ carried[u] # NodeInHand(t)
        BY <2>1, <2>3, InHand
      <3> QED
        BY <2>1, <2>3, <3>1, InHand
    <2> QED
      BY <1>6, <2>2, <2>3, PushDoes
  <1>7. ASSUME NEW t \in Threads, MoveUnlink(t), UNCHANGED added PROVE CarryOk'
    BY <1>7 DEF MoveUnlink, UnlinkIn
  <1>8. ASSUME NEW t \in Threads, Move(t) PROVE CarryOk'
    BY <1>8 DEF Move
  <1>9. ASSUME NEW t \in Threads, LoopHead(t) PROVE CarryOk'
    BY <1>9 DEF LoopHead
  <1>10. ASSUME NEW t \in Threads, LoopNext(t) PROVE CarryOk'
    BY <1>10 DEF LoopNext
  <1>11. ASSUME NEW t \in Threads, LoopEnd(t) PROVE CarryOk'
    BY <1>11 DEF LoopEnd
  <1>12. ASSUME NEW t \in Threads, CollaborativeReturn(t) PROVE CarryOk'
    BY <1>12 DEF CollaborativeReturn
  <1>13. ASSUME NEW t \in Threads, PopHead(t) PROVE CarryOk'
    BY <1>13 DEF PopHead
  <1>14. ASSUME NEW t \in Threads, PopNext(t) PROVE CarryOk'
    BY <1>14 DEF PopNext
  <1>15. ASSUME NEW t \in Threads, PopCas(t) PROVE CarryOk'
    <2>1. pc[t] = "pop_cas" /\ first[t] \in Nodes
      BY <1>15, PopFrame, WriterKnows
    <2>2. CASE UNCHANGED <<place, carried>> /\ pc' = [pc EXCEPT ![t] = "pop_next"]
      BY <2>1, <2>2
    <2>3. CASE /\ Popped(todo[t], first[t]) /\ place' = [place EXCEPT ![first[t]] = "carried"]
               /\ carried' = [carried EXCEPT ![t] = first[t]]
               /\ pc' = [pc EXCEPT ![t] = "ins_head"]
      <3>1. place[first[t]] = "future"
        BY <2>1, <2>3, InHand DEF Popped, First
      <3>2. \A u \in Threads : carried[u] # NoNode => carried[u] # first[t]
        BY <3>1
      <3> QED
        BY <2>1, <2>3, <3>1, <3>2
    <2> QED
      BY <1>15, <2>2, <2>3, PopDoes
  <1>16. ASSUME NEW t \in Threads, Unlink(t), UNCHANGED added PROVE CarryOk'
    BY <1>16 DEF Unlink, UnlinkIn
  <1>17. ASSUME NEW t \in Threads, Insert(t), UNCHANGED added PROVE CarryOk'
    BY <1>17 DEF Insert, DrawMark
  <1>18. ASSUME NEW t \in Threads, FlushRead(t), UNCHANGED added PROVE CarryOk'
    BY <1>18 DEF FlushRead
  <1>19. ASSUME NEW t \in Threads, FlushCas(t), UNCHANGED added PROVE CarryOk'
    BY <1>19 DEF FlushCas
  <1>20. ASSUME NEW t \in Threads, EnqueueReturn(t), UNCHANGED added PROVE CarryOk'
    BY <1>20 DEF EnqueueReturn
  <1>21. ASSUME NEW t \in Threads, NBDequeueCall(t) PROVE CarryOk'
    BY <1>21 DEF NBDequeueCall, DequeueCall, Queued
  <1>22. ASSUME NEW t \in Threads, DeqRead(t), UNCHANGED added PROVE CarryOk'
    BY <1>22 DEF DeqRead
  <1>23. ASSUME NEW t \in Threads, DeqScan(t), UNCHANGED added PROVE CarryOk'
    BY <1>23 DEF DeqScan, Firsts, Bucket
  <1>24. ASSUME NEW t \in Threads, DeqMark(t), UNCHANGED added PROVE CarryOk'
    BY <1>24 DEF DeqMark
  <1>25. ASSUME NEW t \in Threads, DeqMarkFails(t), UNCHANGED added PROVE CarryOk'
    BY <1>25 DEF DeqMarkFails
  <1>26. ASSUME NEW t \in Threads, DeqNextBucket(t), UNCHANGED added PROVE CarryOk'
    BY <1>26 DEF DeqNextBucket
  <1>27. ASSUME NEW t \in Threads, DeqAdvance(t), UNCHANGED added PROVE CarryOk'
    BY <1>27 DEF DeqAdvance, DrawMark
  <1>28. ASSUME NEW t \in Threads, DequeueReturn(t), UNCHANGED added PROVE CarryOk'
    BY <1>28 DEF DequeueReturn
  <1>29. ASSUME NEW t \in Threads, DeqTableEnd(t) PROVE CarryOk'
    BY <1>29 DEF DeqTableEnd
  <1>30. ASSUME NEW t \in Threads, DeqFutureHead(t) PROVE CarryOk'
    BY <1>30 DEF DeqFutureHead
  <1>31. ASSUME NEW t \in Threads, DeqFutureNext(t) PROVE CarryOk'
    BY <1>31 DEF DeqFutureNext
  <1>32. ASSUME NEW t \in Threads, ExpandCheck(t) PROVE CarryOk'
    BY <1>32 DEF ExpandCheck
  <1>33. ASSUME NEW t \in Threads, ExpandFuture(t) PROVE CarryOk'
    BY <1>33 DEF ExpandFuture
  <1>34. ASSUME NEW t \in Threads, ExpandAlloc(t) PROVE CarryOk'
    BY <1>34 DEF ExpandAlloc
  <1>35. ASSUME NEW t \in Threads, ExpandTodo(t) PROVE CarryOk'
    BY <1>35 DEF ExpandTodo
  <1>36. ASSUME NEW t \in Threads, ExpandTodoCas(t) PROVE CarryOk'
    BY <1>36 DEF ExpandTodoCas
  <1>37. ASSUME NEW t \in Threads, ExpandNewFuture(t) PROVE CarryOk'
    BY <1>37 DEF ExpandNewFuture
  <1>38. ASSUME NEW t \in Threads, ExpandMarkHead(t) PROVE CarryOk'
    BY <1>38 DEF ExpandMarkHead
  <1>39. ASSUME NEW t \in Threads, ExpandMarkNext(t) PROVE CarryOk'
    BY <1>39 DEF ExpandMarkNext
  <1>40. ASSUME NEW t \in Threads, ExpandMarkCas(t) PROVE CarryOk'
    BY <1>40 DEF ExpandMarkCas
  <1>41. ASSUME NEW t \in Threads, ExpandSize(t) PROVE CarryOk'
    BY <1>41 DEF ExpandSize
  <1>42. CASE UNCHANGED allVars
    BY <1>42 DEF allVars, vars
  <1> QED
    BY <1>3, <1>4, <1>5, <1>6, <1>7, <1>8, <1>9, <1>10, <1>11, <1>12, <1>13, <1>14, <1>15,
       <1>16,
       <1>17, <1>18, <1>19, <1>20, <1>21, <1>22, <1>23, <1>24, <1>25, <1>26, <1>27, <1>28, <1>29, <1>30,
       <1>31, <1>32, <1>33, <1>34, <1>35, <1>36, <1>37, <1>38, <1>39, <1>40, <1>41, <1>42
       DEF NBNext, NBCall, NBStep, NBEnqueueStep, InsertStep, TodoStep,
           NBDequeueStep, ExpandStep, Unchanged

\* What a step may do to the sizes: each doubles at most, the lists follow.
SizesMove ==
  /\ \/ dequeue_size' = dequeue_size
     \/ /\ dequeue_size' = 2 * dequeue_size /\ Grows(dequeue_size) /\ Retired(dequeue_size)
        /\ future_list = 2 * dequeue_size /\ UNCHANGED <<future_list, todo_list>>
  /\ \/ future_list' = future_list
     \/ future_list = dequeue_size /\ future_list' = 2 * dequeue_size /\ dequeue_size' = dequeue_size
  /\ table_size' \in Nat /\ table_size <= table_size'
  /\ \/ todo_list' = todo_list
     \/ /\ todo_list' = dequeue_size /\ dequeue_size' = dequeue_size
        /\ todo_list # dequeue_size /\ Retired(todo_list)
  /\ closed \subseteq closed'

\* Every step does no more than that to the sizes.
LEMMA TableMoves ==
  ASSUME GrowInv, [NBNext]_allVars
  PROVE  SizesMove
  <1> USE DEF SizesMove
  <1>1. TableOk /\ dequeue_size \in Nat /\ 0 < dequeue_size /\ table_size \in Nat
    BY SizesKnown DEF GrowInv
  <1>2. ASSUME TableQuiet PROVE SizesMove
    BY <1>1, <1>2 DEF TableQuiet, heads
  <1>3. ASSUME NEW t \in Threads, InsPush(t) \/ PopCas(t) PROVE SizesMove
    BY <1>1, <1>3, PushDoes, PopDoes
  <1>4. ASSUME NEW t \in Threads, ExpandAlloc(t) PROVE SizesMove
    BY <1>1, <1>4, WriterKnows, OldSizeKnown DEF ExpandAlloc, shared, heads
  <1>5. ASSUME NEW t \in Threads, ExpandTodoCas(t) PROVE SizesMove
    <2>1. old_size[t] # 0 /\ todo[t] < old_size[t] /\ future[t] = old_size[t]
      BY <1>5, WriterKnows DEF ExpandTodoCas, GrowInv, ExpandersKnow, Expander
    <2>2. UNCHANGED <<dequeue_size, future_list, list, closed, table_size>>
      BY <1>5 DEF ExpandTodoCas, shared
    <2>3. CASE todo_list = todo[t]
      <3>1. todo_list' = old_size[t]
        BY <1>5, <2>1, <2>3 DEF ExpandTodoCas
      <3>2. old_size[t] = dequeue_size
        BY <1>1, <2>1, <2>3, OldSizeKnown, SizesKnown DEF TableOk
      <3> QED
        BY <1>1, <2>1, <2>2, <2>3, <3>1, <3>2, SizesKnown DEF TableOk
    <2>4. CASE todo_list # todo[t]
      BY <1>1, <1>5, <2>2, <2>4 DEF ExpandTodoCas
    <2> QED
      BY <2>3, <2>4
  <1>6. ASSUME NEW t \in Threads, ExpandNewFuture(t) PROVE SizesMove
    <2>1. old_size[t] # 0 /\ future[t] = old_size[t]
      BY <1>6, WriterKnows DEF ExpandNewFuture, GrowInv, ExpandersKnow, Expander
    <2>2. UNCHANGED <<dequeue_size, todo_list, list, closed, table_size>>
      BY <1>6 DEF ExpandNewFuture, shared
    <2>3. future_list = future[t] => old_size[t] = dequeue_size
      BY <1>1, <2>1, OldSizeKnown, SizesKnown DEF TableOk
    <2> QED
      BY <1>1, <1>6, <2>1, <2>2, <2>3 DEF ExpandNewFuture
  <1>7. ASSUME NEW t \in Threads, ExpandMarkCas(t) PROVE SizesMove
    BY <1>1, <1>7 DEF ExpandMarkCas, shared
  <1>8. ASSUME NEW t \in Threads, ExpandSize(t) PROVE SizesMove
    <2>1. old_size[t] # 0 /\ Grows(old_size[t])
      BY <1>8, WriterKnows
    <2>2. UNCHANGED <<future_list, todo_list, list, closed, table_size>>
      BY <1>8 DEF ExpandSize, heads
    <2>3. dequeue_size = old_size[t] => future_list = 2 * dequeue_size /\ Retired(dequeue_size)
      BY <1>8, <2>1 DEF ExpandSize, GrowInv, ExpandersKnow, Expander, OpenLabels, Retired
    <2> QED
      BY <1>1, <1>8, <2>1, <2>2, <2>3 DEF ExpandSize
  <1> HIDE DEF SizesMove
  <1> QED
    BY <1>2, <1>3, <1>4, <1>5, <1>6, <1>7, <1>8, TableWriters

\* The local variables of a thread, but for what it saw in its bucket.
LocalsOf(u) ==
  <<pc[u], node[u], oldCur[u], newCur[u], marks[u], before[u],
    future[u], todo[u], first[u], old_size[u], carried[u]>>

\* A step changes the local variables of one thread.
LEMMA OthersKeep ==
  ASSUME TypePc, TypeLocals, NEW t \in Threads, NBCall(t) \/ NBStep(t), NEW u \in Threads, u # t
  PROVE  UNCHANGED LocalsOf(u)
  <1>1. TypePc /\ TypeLocals
    OBVIOUS
  <1> USE <1>1 DEF LocalsOf, TypePc, TypeLocals, shared, locals, history, locals2, added,
         Set, Goto, Forget
  <1>2. ASSUME NEW n \in Nodes, NEW ts \in Timestamps, NBEnqueueCall(t, n, ts)
        PROVE UNCHANGED LocalsOf(u)
    BY <1>2 DEF NBEnqueueCall, AllocateNode
  <1>3. ASSUME InsHead(t) PROVE UNCHANGED LocalsOf(u)
    BY <1>3 DEF InsHead
  <1>4. ASSUME InsNext(t) PROVE UNCHANGED LocalsOf(u)
    BY <1>4 DEF InsNext
  <1>5. ASSUME InsPush(t) PROVE UNCHANGED LocalsOf(u)
    BY <1>5 DEF InsPush
  <1>6. ASSUME MoveUnlink(t), UNCHANGED added PROVE UNCHANGED LocalsOf(u)
    BY <1>6 DEF MoveUnlink, UnlinkIn
  <1>7. ASSUME Move(t) PROVE UNCHANGED LocalsOf(u)
    BY <1>7 DEF Move
  <1>8. ASSUME LoopHead(t) PROVE UNCHANGED LocalsOf(u)
    BY <1>8 DEF LoopHead
  <1>9. ASSUME LoopNext(t) PROVE UNCHANGED LocalsOf(u)
    BY <1>9 DEF LoopNext
  <1>10. ASSUME LoopEnd(t) PROVE UNCHANGED LocalsOf(u)
    BY <1>10 DEF LoopEnd
  <1>11. ASSUME CollaborativeReturn(t) PROVE UNCHANGED LocalsOf(u)
    BY <1>11 DEF CollaborativeReturn
  <1>12. ASSUME PopHead(t) PROVE UNCHANGED LocalsOf(u)
    BY <1>12 DEF PopHead
  <1>13. ASSUME PopNext(t) PROVE UNCHANGED LocalsOf(u)
    BY <1>13 DEF PopNext
  <1>14. ASSUME PopCas(t) PROVE UNCHANGED LocalsOf(u)
    BY <1>14 DEF PopCas
  <1>15. ASSUME Unlink(t), UNCHANGED added PROVE UNCHANGED LocalsOf(u)
    BY <1>15 DEF Unlink, UnlinkIn
  <1>16. ASSUME Insert(t), UNCHANGED added PROVE UNCHANGED LocalsOf(u)
    BY <1>16 DEF Insert, DrawMark
  <1>17. ASSUME FlushRead(t), UNCHANGED added PROVE UNCHANGED LocalsOf(u)
    BY <1>17 DEF FlushRead
  <1>18. ASSUME FlushCas(t), UNCHANGED added PROVE UNCHANGED LocalsOf(u)
    BY <1>18 DEF FlushCas
  <1>19. ASSUME EnqueueReturn(t), UNCHANGED added PROVE UNCHANGED LocalsOf(u)
    BY <1>19 DEF EnqueueReturn
  <1>20. ASSUME NBDequeueCall(t) PROVE UNCHANGED LocalsOf(u)
    BY <1>20 DEF NBDequeueCall, DequeueCall, Queued
  <1>21. ASSUME DeqRead(t), UNCHANGED added PROVE UNCHANGED LocalsOf(u)
    BY <1>21 DEF DeqRead
  <1>22. ASSUME DeqScan(t), UNCHANGED added PROVE UNCHANGED LocalsOf(u)
    BY <1>22 DEF DeqScan, Firsts, Bucket
  <1>23. ASSUME DeqMark(t), UNCHANGED added PROVE UNCHANGED LocalsOf(u)
    BY <1>23 DEF DeqMark
  <1>24. ASSUME DeqMarkFails(t), UNCHANGED added PROVE UNCHANGED LocalsOf(u)
    BY <1>24 DEF DeqMarkFails
  <1>25. ASSUME DeqNextBucket(t), UNCHANGED added PROVE UNCHANGED LocalsOf(u)
    BY <1>25 DEF DeqNextBucket
  <1>26. ASSUME DeqAdvance(t), UNCHANGED added PROVE UNCHANGED LocalsOf(u)
    BY <1>26 DEF DeqAdvance, DrawMark
  <1>27. ASSUME DequeueReturn(t), UNCHANGED added PROVE UNCHANGED LocalsOf(u)
    BY <1>27 DEF DequeueReturn
  <1>28. ASSUME DeqTableEnd(t) PROVE UNCHANGED LocalsOf(u)
    BY <1>28 DEF DeqTableEnd
  <1>29. ASSUME DeqFutureHead(t) PROVE UNCHANGED LocalsOf(u)
    BY <1>29 DEF DeqFutureHead
  <1>30. ASSUME DeqFutureNext(t) PROVE UNCHANGED LocalsOf(u)
    BY <1>30 DEF DeqFutureNext
  <1>31. ASSUME ExpandCheck(t) PROVE UNCHANGED LocalsOf(u)
    BY <1>31 DEF ExpandCheck
  <1>32. ASSUME ExpandFuture(t) PROVE UNCHANGED LocalsOf(u)
    BY <1>32 DEF ExpandFuture
  <1>33. ASSUME ExpandAlloc(t) PROVE UNCHANGED LocalsOf(u)
    BY <1>33 DEF ExpandAlloc
  <1>34. ASSUME ExpandTodo(t) PROVE UNCHANGED LocalsOf(u)
    BY <1>34 DEF ExpandTodo
  <1>35. ASSUME ExpandTodoCas(t) PROVE UNCHANGED LocalsOf(u)
    BY <1>35 DEF ExpandTodoCas
  <1>36. ASSUME ExpandNewFuture(t) PROVE UNCHANGED LocalsOf(u)
    BY <1>36 DEF ExpandNewFuture
  <1>37. ASSUME ExpandMarkHead(t) PROVE UNCHANGED LocalsOf(u)
    BY <1>37 DEF ExpandMarkHead
  <1>38. ASSUME ExpandMarkNext(t) PROVE UNCHANGED LocalsOf(u)
    BY <1>38 DEF ExpandMarkNext
  <1>39. ASSUME ExpandMarkCas(t) PROVE UNCHANGED LocalsOf(u)
    BY <1>39 DEF ExpandMarkCas
  <1>40. ASSUME ExpandSize(t) PROVE UNCHANGED LocalsOf(u)
    BY <1>40 DEF ExpandSize
  <1> HIDE DEF LocalsOf
  <1> QED
    BY <1>2, <1>3, <1>4, <1>5, <1>6, <1>7, <1>8, <1>9, <1>10, <1>11, <1>12, <1>13, <1>14, <1>15,
       <1>16, <1>17, <1>18, <1>19, <1>20, <1>21, <1>22, <1>23, <1>24, <1>25, <1>26, <1>27, <1>28, <1>29,
       <1>30, <1>31, <1>32, <1>33, <1>34, <1>35, <1>36, <1>37, <1>38, <1>39, <1>40
       DEF NBCall, NBStep, NBEnqueueStep, InsertStep, TodoStep,
           NBDequeueStep, ExpandStep, Unchanged

\* What a thread knows of the heads is not spoiled by the others.
LEMMA HeadsOfStays ==
  ASSUME GrowInv, [NBNext]_allVars, NEW u \in Threads, UNCHANGED LocalsOf(u)
  PROVE  HeadsOf(u)'
  <1>1. HeadsOf(u) /\ TableOk /\ TypeTable /\ TypeNodes /\ TypeLocals /\ SizesMove
    BY TableMoves, TypeParts DEF GrowInv, HeadsKnown
  <1>2. future[u] \in Heads /\ todo[u] \in Heads /\ todo_list \in Heads /\ dequeue_size \in Heads
    BY <1>1, HeadsAre DEF TypeLocals, TypeTable
  <1>3. \A h \in Heads : Retired(h) => h \in closed' /\ list'[h] = <<>>
    <2> TAKE h \in Heads
    <2> HAVE Retired(h)
    <2>1. Retired(h)'
      BY RetiredStays
    <2> QED
      BY <2>1 DEF Retired
  <1>4. /\ UNCHANGED <<pc[u], future[u], todo[u], node[u], carried[u]>>
        /\ NodeInHand(u)' = NodeInHand(u)
    BY DEF LocalsOf, NodeInHand
  <1>5. pc[u] \in {"ins_push", "insert", "move"} => IndexInHand(u)' = IndexInHand(u) /\ IndexInHand(u) \in Nat
    <2>1. HAVE pc[u] \in {"ins_push", "insert", "move"}
    <2>2. NodeInHand(u) \in Nodes /\ place[NodeInHand(u)] # "unused"
      BY <2>1, <1>1, InHand, CalendarAssumption
         DEF NodeInHand, GrowInv, HandsOk, CarryOk, InsertLabels
    <2>3. timestamp'[NodeInHand(u)] = timestamp[NodeInHand(u)]
      <3>1. CASE FutureKept
        BY <2>2, <3>1 DEF FutureKept
      <3>2. CASE \E t \in Threads : InsPush(t) \/ PopCas(t)
        BY <3>2, PushFrame, PopFrame
      <3> QED
        BY <3>1, <3>2, PlaceWriters
    <2>4. timestamp[NodeInHand(u)] \in Nat
      BY <1>1, <2>2 DEF TypeNodes
    <2> QED
      BY <1>4, <2>3, <2>4, BucketOfNat DEF IndexInHand
  <1>6. /\ future_list \in Nat /\ future_list' \in Nat /\ future_list <= future_list'
        /\ table_size \in Nat /\ table_size' \in Nat /\ table_size <= table_size'
    BY <1>1, SizesKnown DEF SizesMove
  <1> DEFINE Gone(h) == h \in closed' /\ list'[h] = <<>>
  <1>7. \A h \in Heads : h \in {dequeue_size, future_list} \/ Retired(h) => h \in {dequeue_size', future_list'} \/ Gone(h)
    BY <1>1, <1>2, <1>3 DEF SizesMove
  <1>8. \A h \in Heads : h = todo_list \/ Retired(h) => h = todo_list' \/ Gone(h)
    BY <1>1, <1>2, <1>3 DEF SizesMove
  <1>9. \A h \in Heads : h \in Nat
    BY HeadsAre
  <1>10. pc[u] \in {"ins_next", "ins_push", "fut_next"} =>
           (future[u] \in {dequeue_size', future_list'} \/ Gone(future[u])) /\ future[u] <= future_list'
    <2> HAVE pc[u] \in {"ins_next", "ins_push", "fut_next"}
    <2>1. (future[u] \in {dequeue_size, future_list} \/ Retired(future[u])) /\ future[u] <= future_list
      BY <1>1 DEF HeadsOf
    <2>2. future[u] <= future_list'
      BY <1>2, <1>6, <1>9, <2>1
    <2> QED
      BY <1>2, <1>7, <2>1, <2>2
  <1>11. pc[u] \in MarkLabels \ {"ex_mark"} => todo[u] = todo_list' \/ Gone(todo[u])
    BY <1>1, <1>2, <1>8 DEF HeadsOf
  <1>12. /\ pc[u] = "ins_push" => future[u] <= IndexInHand(u)'
         /\ pc[u] \in {"insert", "move"} => IndexInHand(u)' < table_size'
    BY <1>1, <1>2, <1>5, <1>6 DEF HeadsOf
  <1> HIDE DEF IndexInHand
  <1> QED
    BY <1>4, <1>10, <1>11, <1>12 DEF HeadsOf, Retired

\* What a thread knows of the heads after its own step.
LEMMA HeadsOfStep ==
  ASSUME GrowInv, NEW t \in Threads, NBCall(t) \/ NBStep(t)
  PROVE  HeadsOf(t)'
  <1>1. /\ TableOk /\ TypeTable /\ TypeNodes /\ TypeLocals /\ TypePc /\ HeadsOf(t)
        /\ future_list \in Nat /\ table_size \in Nat /\ future[t] \in Nat
    BY TypeParts, SizesKnown, HeadsAre DEF GrowInv, HeadsKnown, TypeLocals
  <1> USE <1>1
      DEF HeadsOf, TypePc, TypeTable, TypeLocals, TypeNodes, shared, nodes, heads, locals,
             history, locals2, added, Goto, Set,
          IndexInHand, NodeInHand, MarkLabels
  <1>2. ASSUME NEW n \in Nodes, NEW ts \in Timestamps, NBEnqueueCall(t, n, ts) PROVE HeadsOf(t)'
    BY <1>2 DEF NBEnqueueCall, AllocateNode
  <1>3. ASSUME InsHead(t) PROVE HeadsOf(t)'
    BY <1>3 DEF InsHead
  <1>4. ASSUME InsNext(t) PROVE HeadsOf(t)'
    <2>1. NodeInHand(t) \in Nodes
      <3>1. pc[t] = "ins_next" /\ carried[t] \in SomeNode
        BY <1>4 DEF InsNext
      <3> QED
        BY <3>1 DEF GrowInv, HandsOk, NewOk, Inserting, InsertLabels, SomeNode
    <2>2. IndexInHand(t) \in Nat
      BY <2>1, BucketOfNat
    <2>3. UNCHANGED <<dequeue_size, future_list, table_size, todo_list, closed, list, carried, node, timestamp>>
      BY <1>4 DEF InsNext
    <2>4. IndexInHand(t)' = IndexInHand(t)
      BY <2>3
    <2>5. pc[t] = "ins_next" /\ future[t] <= future_list /\ future_list <= table_size
      BY <1>4 DEF InsNext, TableOk
    <2>6. CASE pc' = [pc EXCEPT ![t] = "ins_head"]
      BY <2>6
    <2>7. CASE pc' = [pc EXCEPT ![t] = "ins_push"] /\ IndexInHand(t) >= future[t] /\ future' = future
      <3> HIDE DEF IndexInHand
      <3> QED
        BY <2>2, <2>3, <2>4, <2>5, <2>7 DEF Retired
    <2>8. CASE pc' = [pc EXCEPT ![t] = IF carried[t] # NoNode THEN "move" ELSE "insert"] /\ IndexInHand(t) < future[t]
      <3> HIDE DEF IndexInHand
      <3> QED
        BY <2>2, <2>3, <2>4, <2>5, <2>8
    <2> HIDE DEF IndexInHand, HeadsOf
    <2> QED
      BY <1>4, <2>6, <2>7, <2>8 DEF InsNext
  <1>5. ASSUME InsPush(t) PROVE HeadsOf(t)'
    BY <1>5 DEF InsPush
  <1>6. ASSUME MoveUnlink(t), UNCHANGED added PROVE HeadsOf(t)'
    BY <1>6 DEF MoveUnlink, UnlinkIn
  <1>7. ASSUME Move(t) PROVE HeadsOf(t)'
    BY <1>7 DEF Move
  <1>8. ASSUME LoopHead(t) PROVE HeadsOf(t)'
    BY <1>8 DEF LoopHead
  <1>9. ASSUME LoopNext(t) PROVE HeadsOf(t)'
    BY <1>9 DEF LoopNext
  <1>10. ASSUME LoopEnd(t) PROVE HeadsOf(t)'
    BY <1>10 DEF LoopEnd
  <1>11. ASSUME CollaborativeReturn(t) PROVE HeadsOf(t)'
    BY <1>11 DEF CollaborativeReturn
  <1>12. ASSUME PopHead(t) PROVE HeadsOf(t)'
    BY <1>12 DEF PopHead
  <1>13. ASSUME PopNext(t) PROVE HeadsOf(t)'
    BY <1>13 DEF PopNext
  <1>14. ASSUME PopCas(t) PROVE HeadsOf(t)'
    BY <1>14 DEF PopCas
  <1>15. ASSUME Unlink(t), UNCHANGED added PROVE HeadsOf(t)'
    BY <1>15 DEF Unlink, UnlinkIn
  <1>16. ASSUME Insert(t), UNCHANGED added PROVE HeadsOf(t)'
    BY <1>16 DEF Insert, DrawMark
  <1>17. ASSUME FlushRead(t), UNCHANGED added PROVE HeadsOf(t)'
    BY <1>17 DEF FlushRead
  <1>18. ASSUME FlushCas(t), UNCHANGED added PROVE HeadsOf(t)'
    BY <1>18 DEF FlushCas
  <1>19. ASSUME EnqueueReturn(t), UNCHANGED added PROVE HeadsOf(t)'
    BY <1>19 DEF EnqueueReturn
  <1>20. ASSUME NBDequeueCall(t) PROVE HeadsOf(t)'
    BY <1>20 DEF NBDequeueCall, DequeueCall, Queued
  <1>21. ASSUME DeqRead(t), UNCHANGED added PROVE HeadsOf(t)'
    BY <1>21 DEF DeqRead
  <1>22. ASSUME DeqScan(t), UNCHANGED added PROVE HeadsOf(t)'
    BY <1>22 DEF DeqScan, Firsts, Bucket
  <1>23. ASSUME DeqMark(t), UNCHANGED added PROVE HeadsOf(t)'
    BY <1>23 DEF DeqMark
  <1>24. ASSUME DeqMarkFails(t), UNCHANGED added PROVE HeadsOf(t)'
    BY <1>24 DEF DeqMarkFails
  <1>25. ASSUME DeqNextBucket(t), UNCHANGED added PROVE HeadsOf(t)'
    BY <1>25 DEF DeqNextBucket
  <1>26. ASSUME DeqAdvance(t), UNCHANGED added PROVE HeadsOf(t)'
    BY <1>26 DEF DeqAdvance, DrawMark
  <1>27. ASSUME DequeueReturn(t), UNCHANGED added PROVE HeadsOf(t)'
    BY <1>27 DEF DequeueReturn
  <1>28. ASSUME DeqTableEnd(t) PROVE HeadsOf(t)'
    BY <1>28 DEF DeqTableEnd
  <1>29. ASSUME DeqFutureHead(t) PROVE HeadsOf(t)'
    BY <1>29 DEF DeqFutureHead
  <1>30. ASSUME DeqFutureNext(t) PROVE HeadsOf(t)'
    BY <1>30 DEF DeqFutureNext
  <1>31. ASSUME ExpandCheck(t) PROVE HeadsOf(t)'
    BY <1>31 DEF ExpandCheck
  <1>32. ASSUME ExpandFuture(t) PROVE HeadsOf(t)'
    BY <1>32 DEF ExpandFuture
  <1>33. ASSUME ExpandAlloc(t) PROVE HeadsOf(t)'
    BY <1>33 DEF ExpandAlloc
  <1>34. ASSUME ExpandTodo(t) PROVE HeadsOf(t)'
    BY <1>34 DEF ExpandTodo
  <1>35. ASSUME ExpandTodoCas(t) PROVE HeadsOf(t)'
    BY <1>35 DEF ExpandTodoCas
  <1>36. ASSUME ExpandNewFuture(t) PROVE HeadsOf(t)'
    BY <1>36 DEF ExpandNewFuture
  <1>37. ASSUME ExpandMarkHead(t) PROVE HeadsOf(t)'
    BY <1>37 DEF ExpandMarkHead
  <1>38. ASSUME ExpandMarkNext(t) PROVE HeadsOf(t)'
    BY <1>38 DEF ExpandMarkNext, Retired
  <1>39. ASSUME ExpandMarkCas(t) PROVE HeadsOf(t)'
    BY <1>39 DEF ExpandMarkCas
  <1>40. ASSUME ExpandSize(t) PROVE HeadsOf(t)'
    BY <1>40 DEF ExpandSize
  <1> HIDE DEF HeadsOf
  <1> QED
    BY <1>2, <1>3, <1>4, <1>5, <1>6, <1>7, <1>8, <1>9, <1>10, <1>11, <1>12, <1>13, <1>14, <1>15,
       <1>16, <1>17, <1>18, <1>19, <1>20, <1>21, <1>22, <1>23, <1>24, <1>25, <1>26, <1>27, <1>28, <1>29,
       <1>30, <1>31, <1>32, <1>33, <1>34, <1>35, <1>36, <1>37, <1>38, <1>39, <1>40
       DEF NBCall, NBStep, NBEnqueueStep, InsertStep, TodoStep,
           NBDequeueStep, ExpandStep, Unchanged

\* What the threads know of the heads is kept by every step.
LEMMA HeadsKnownStep == GrowInv /\ [NBNext]_allVars => \A t \in Threads : HeadsOf(t)'
  <1> SUFFICES ASSUME GrowInv, [NBNext]_allVars, NEW u \in Threads PROVE HeadsOf(u)'
    OBVIOUS
  <1>1. TypePc /\ TypeLocals
    BY TypeParts DEF GrowInv
  <1>2. ASSUME UNCHANGED LocalsOf(u) PROVE HeadsOf(u)'
    BY <1>2, HeadsOfStays
  <1>3. CASE UNCHANGED allVars
    <2>1. UNCHANGED LocalsOf(u)
      BY <1>3 DEF LocalsOf, allVars, vars, locals, history, added, locals2
    <2> QED
      BY <1>2, <2>1
  <1>4. ASSUME NEW t \in Threads, NBCall(t) \/ NBStep(t) PROVE HeadsOf(u)'
    <2>1. CASE t = u
      BY <1>4, <2>1, HeadsOfStep
    <2>2. CASE t # u
      <3>1. UNCHANGED LocalsOf(u)
        BY <1>1, <1>4, <2>2, OthersKeep
      <3> QED
        BY <1>2, <3>1
    <2> QED
      BY <2>1, <2>2
  <1> QED
    BY <1>3, <1>4 DEF NBNext

\* What a dequeue() that grows the table knows is not spoiled by the others.
LEMMA ExpanderStays ==
  ASSUME GrowInv, [NBNext]_allVars, NEW u \in Threads, UNCHANGED LocalsOf(u)
  PROVE  Expander(u)'
  <1>1. UNCHANGED <<pc[u], future[u], todo[u], old_size[u], oldCur[u]>>
    BY DEF LocalsOf
  <1>2. SUFFICES ASSUME old_size[u] # 0 PROVE Expander(u)'
    BY <1>1 DEF Expander
  <1>3. /\ Expander(u) /\ TableOk /\ TableOk' /\ SizesMove
        /\ dequeue_size \in Nat /\ 0 < dequeue_size /\ table_size \in Nat /\ table_size' \in Nat
    BY TableMoves, TableOkStep, SizesKnown DEF GrowInv, ExpandersKnow, SizesMove
  <1>4. old_size[u] \in Nat /\ 0 < old_size[u] /\ dequeue_size \in Heads
    BY <1>2, OldSizeKnown, SizesKnown, HeadsAre
  <1>5. Retired(dequeue_size) => list'[dequeue_size] = <<>>
    <2> HAVE Retired(dequeue_size)
    <2>1. ASSUME NEW h \in Heads, Retired(h) PROVE list'[h] = <<>>
      <3>1. Retired(h)'
        BY <2>1, RetiredStays
      <3> QED
        BY <3>1 DEF Retired
    <2> QED
      BY <1>4, <2>1
  <1>6. old_size[u] = dequeue_size' \/ (2 * old_size[u] <= dequeue_size' /\ Grows(old_size[u]))
    BY <1>2, <1>3, <1>4 DEF Expander, SizesMove
  <1>7. old_size[u] = dequeue_size' => dequeue_size' = dequeue_size
    BY <1>2, <1>3, <1>4 DEF Expander, SizesMove
  <1>8. ASSUME old_size[u] = dequeue_size'
        PROVE  /\ pc[u] \in {"ex_todo", "ex_todo_cas", "ex_new"} => table_size' = 2 * dequeue_size'
               /\ pc[u] = "ex_todo_cas" => todo[u] = todo_list' \/ todo_list' = dequeue_size'
               /\ pc[u] = "ex_new" => todo_list' = dequeue_size'
               /\ pc[u] \notin OpenLabels \cup {"fut_head", "fut_next", "ex_check"} => future_list' = 2 * dequeue_size'
               /\ pc[u] \in {"ex_mark_next", "ex_mark_cas", "todo_next"} => todo[u] = todo_list'
               /\ pc[u] \in TodoLabels \cup InsertLabels \cup {"move", "ex_size"} => dequeue_size' \in closed'
               /\ pc[u] = "ex_size" => list'[dequeue_size'] = <<>>
    <2>1. dequeue_size' = dequeue_size /\ old_size[u] = dequeue_size
      BY <1>7, <1>8
    <2>2. pc[u] \in {"ex_todo", "ex_todo_cas", "ex_new"} => table_size' = 2 * dequeue_size
      BY <1>2, <1>3, <2>1 DEF Expander, SizesMove, TableOk
    <2>3. pc[u] = "ex_todo_cas" => todo[u] = todo_list' \/ todo_list' = dequeue_size
      BY <1>2, <1>3, <2>1 DEF Expander, SizesMove
    <2>4. pc[u] = "ex_new" => todo_list' = dequeue_size
      BY <1>2, <1>3, <2>1 DEF Expander, SizesMove
    <2>5. pc[u] \notin OpenLabels \cup {"fut_head", "fut_next", "ex_check"} =>
            future_list = 2 * dequeue_size /\ future_list' = 2 * dequeue_size
      BY <1>2, <1>3, <2>1 DEF Expander, SizesMove
    <2>6. pc[u] \in {"ex_mark_next", "ex_mark_cas", "todo_next"} => todo[u] = todo_list'
      <3> HAVE pc[u] \in {"ex_mark_next", "ex_mark_cas", "todo_next"}
      <3>1. todo[u] = todo_list /\ todo_list = dequeue_size
        BY <1>2, <1>3, <2>1, <2>5 DEF Expander, TableOk, OpenLabels
      <3> QED
        BY <1>3, <3>1 DEF SizesMove
    <2>7. pc[u] \in TodoLabels \cup InsertLabels \cup {"move", "ex_size"} => dequeue_size \in closed /\ dequeue_size \in closed'
      BY <1>2, <1>3, <2>1 DEF Expander, SizesMove
    <2>8. pc[u] = "ex_size" => list'[dequeue_size] = <<>>
      BY <1>2, <1>3, <1>5, <2>1, <2>7 DEF Expander, Retired
    <2> QED
      BY <2>1, <2>2, <2>3, <2>4, <2>5, <2>6, <2>7, <2>8
  <1> QED
    BY <1>1, <1>2, <1>3, <1>6, <1>8 DEF Expander

\* A dequeue() that found events, or a list in use, beyond the table can double it.
LEMMA FutureGrows ==
  ASSUME GrowInv, NEW t \in Threads, pc[t] = "fut_next", ~NoFuture(t)
  PROVE  Grows(old_size[t])
  <1>1. /\ old_size[t] \in Sizes /\ old_size[t] \in Nat /\ 0 < old_size[t]
        /\ old_size[t] = dequeue_size \/ Grows(old_size[t])
        /\ old_size[t] <= future[t]
    BY OldSizeKnown, ExpanderOld DEF GrowInv, ExpandersKnow, Expander
  <1>2. SUFFICES ASSUME old_size[t] = dequeue_size PROVE Grows(dequeue_size)
    BY <1>1
  <1>3. /\ TableOk /\ ClosedOk /\ TypeTable /\ future[t] \in Heads /\ future_list \in Nat
        /\ future[t] \in {dequeue_size, future_list} \/ Retired(future[t])
        /\ future[t] \in Nat
    BY TypeParts, HeadsAre, SizesKnown DEF GrowInv, HeadsKnown, HeadsOf, TypeLocals
  <1>4. CASE future[t] \in closed
    BY <1>1, <1>2, <1>3, <1>4 DEF ClosedOk
  <1>5. CASE future[t] \notin closed /\ future[t] # old_size[t]
    BY <1>2, <1>3, <1>5 DEF Retired, TableOk
  <1>6. CASE future[t] \notin closed /\ future[t] = old_size[t] /\ list[future[t]] # <<>>
    <2>1. 1 \in DOMAIN list[future[t]] /\ list[future[t]][1] \in Nodes
      BY <1>3, <1>6, FirstIsNode DEF TypeTable, First
    <2>2. future[t] <= BucketOf(timestamp[list[future[t]][1]]) /\ timestamp[list[future[t]][1]] \in Timestamps
      BY <1>3, <2>1 DEF GrowInv, LinksOk, HandsOk, ReadOk
    <2> QED
      BY <1>1, <1>2, <1>6, <2>2, BeyondGrows
  <1> QED
    BY <1>4, <1>5, <1>6 DEF NoFuture

\* What a dequeue() that grows the table knows after its own step.
LEMMA ExpanderStep ==
  ASSUME GrowInv, NEW t \in Threads, NBCall(t) \/ NBStep(t)
  PROVE  Expander(t)'
  <1>1. /\ TableOk /\ TypeTable /\ TypeLocals /\ TypePc /\ Expander(t) /\ SizeRead(t) /\ old_size[t] \in Nat
        /\ dequeue_size \in Nat /\ 0 < dequeue_size /\ future_list \in Nat /\ table_size \in Nat /\ todo_list \in Nat
    BY TypeParts, SizesKnown, HeadsAre DEF GrowInv, ExpandersKnow, TypeLocals
  <1>2. old_size[t] # 0 => 0 < old_size[t] /\ (old_size[t] = dequeue_size \/ 2 * old_size[t] <= dequeue_size)
    BY OldSizeKnown
  <1> USE <1>1, <1>2
      DEF Expander, TypePc, TypeLocals, shared, nodes, heads, locals, history, locals2,
             added, Goto, Set, Forget,
          InsertLabels, TodoLabels, OpenLabels, MarkLabels
  <1>3. ASSUME NEW n \in Nodes, NEW ts \in Timestamps, NBEnqueueCall(t, n, ts)
        PROVE Expander(t)'
    BY <1>3 DEF NBEnqueueCall, AllocateNode
  <1>4. ASSUME InsHead(t) PROVE Expander(t)'
    BY <1>4 DEF InsHead
  <1>5. ASSUME InsNext(t) PROVE Expander(t)'
    <2>1. pc[t] = "ins_next" /\ UNCHANGED <<shared, locals, heads, table_size, old_size, todo, carried>>
      BY <1>5 DEF InsNext
    <2>2. carried[t] = NoNode => old_size[t] = 0
      BY <2>1 DEF GrowInv, HandsOk, NewOk, Inserting, InEnqueue, Enqueuing
    <2>3. pc' = [pc EXCEPT ![t] = "ins_head"] \/ pc' = [pc EXCEPT ![t] = "ins_push"]
          \/ pc' = [pc EXCEPT ![t] = "move"] \/ (old_size[t] = 0 /\ pc' = [pc EXCEPT ![t] = "insert"])
      BY <1>5, <2>2 DEF InsNext
    <2> QED
      BY <2>1, <2>3
  <1>6. ASSUME InsPush(t) PROVE Expander(t)'
    BY <1>6 DEF InsPush
  <1>7. ASSUME MoveUnlink(t), UNCHANGED added PROVE Expander(t)'
    BY <1>7 DEF MoveUnlink, UnlinkIn
  <1>8. ASSUME Move(t) PROVE Expander(t)'
    BY <1>8 DEF Move
  <1>9. ASSUME LoopHead(t) PROVE Expander(t)'
    BY <1>9 DEF LoopHead
  <1>10. ASSUME LoopNext(t) PROVE Expander(t)'
    BY <1>10 DEF LoopNext
  <1>11. ASSUME LoopEnd(t) PROVE Expander(t)'
    BY <1>11 DEF LoopEnd, TableOk
  <1>12. ASSUME CollaborativeReturn(t) PROVE Expander(t)'
    BY <1>12 DEF CollaborativeReturn
  <1>13. ASSUME PopHead(t) PROVE Expander(t)'
    BY <1>13 DEF PopHead
  <1>14. ASSUME PopNext(t) PROVE Expander(t)'
    BY <1>14 DEF PopNext
  <1>15. ASSUME PopCas(t) PROVE Expander(t)'
    BY <1>15 DEF PopCas
  <1>16. ASSUME Unlink(t), UNCHANGED added PROVE Expander(t)'
    BY <1>16 DEF Unlink, UnlinkIn
  <1>17. ASSUME Insert(t), UNCHANGED added PROVE Expander(t)'
    BY <1>17 DEF Insert, DrawMark
  <1>18. ASSUME FlushRead(t), UNCHANGED added PROVE Expander(t)'
    BY <1>18 DEF FlushRead
  <1>19. ASSUME FlushCas(t), UNCHANGED added PROVE Expander(t)'
    BY <1>19 DEF FlushCas
  <1>20. ASSUME EnqueueReturn(t), UNCHANGED added PROVE Expander(t)'
    BY <1>20 DEF EnqueueReturn
  <1>21. ASSUME NBDequeueCall(t) PROVE Expander(t)'
    BY <1>21 DEF NBDequeueCall, DequeueCall, Queued
  <1>22. ASSUME DeqRead(t), UNCHANGED added PROVE Expander(t)'
    BY <1>22 DEF DeqRead
  <1>23. ASSUME DeqScan(t), UNCHANGED added PROVE Expander(t)'
    BY <1>23 DEF DeqScan, Firsts, Bucket
  <1>24. ASSUME DeqMark(t), UNCHANGED added PROVE Expander(t)'
    BY <1>24 DEF DeqMark
  <1>25. ASSUME DeqMarkFails(t), UNCHANGED added PROVE Expander(t)'
    BY <1>25 DEF DeqMarkFails
  <1>26. ASSUME DeqNextBucket(t), UNCHANGED added PROVE Expander(t)'
    BY <1>26 DEF DeqNextBucket
  <1>27. ASSUME DeqAdvance(t), UNCHANGED added PROVE Expander(t)'
    BY <1>27 DEF DeqAdvance, DrawMark
  <1>28. ASSUME DequeueReturn(t), UNCHANGED added PROVE Expander(t)'
    BY <1>28 DEF DequeueReturn
  <1>29. ASSUME DeqTableEnd(t) PROVE Expander(t)'
    BY <1>29 DEF DeqTableEnd, GrowInv, CursorInside, CursorOf
  <1>30. ASSUME DeqFutureHead(t) PROVE Expander(t)'
    BY <1>30 DEF DeqFutureHead, TableOk
  <1>31. ASSUME DeqFutureNext(t) PROVE Expander(t)'
    BY <1>31, FutureGrows DEF DeqFutureNext, NoFuture
  <1>32. ASSUME ExpandCheck(t) PROVE Expander(t)'
    BY <1>32 DEF ExpandCheck
  <1>33. ASSUME ExpandFuture(t) PROVE Expander(t)'
    BY <1>33 DEF ExpandFuture, TableOk
  <1>34. ASSUME ExpandAlloc(t) PROVE Expander(t)'
    BY <1>34 DEF ExpandAlloc, TableOk
  <1>35. ASSUME ExpandTodo(t) PROVE Expander(t)'
    BY <1>35 DEF ExpandTodo, TableOk
  <1>36. ASSUME ExpandTodoCas(t) PROVE Expander(t)'
    BY <1>36 DEF ExpandTodoCas, TableOk
  <1>37. ASSUME ExpandNewFuture(t) PROVE Expander(t)'
    BY <1>37 DEF ExpandNewFuture, TableOk
  <1>38. ASSUME ExpandMarkHead(t) PROVE Expander(t)'
    BY <1>38 DEF ExpandMarkHead
  <1>39. ASSUME ExpandMarkNext(t) PROVE Expander(t)'
    BY <1>39 DEF ExpandMarkNext, TableOk
  <1>40. ASSUME ExpandMarkCas(t) PROVE Expander(t)'
    BY <1>40 DEF ExpandMarkCas, TableOk
  <1>41. ASSUME ExpandSize(t) PROVE Expander(t)'
    BY <1>41 DEF ExpandSize
  <1> HIDE DEF Expander
  <1> QED
    BY <1>3, <1>4, <1>5, <1>6, <1>7, <1>8, <1>9, <1>10, <1>11, <1>12, <1>13, <1>14, <1>15,
       <1>16,
       <1>17, <1>18, <1>19, <1>20, <1>21, <1>22, <1>23, <1>24, <1>25, <1>26, <1>27, <1>28, <1>29, <1>30,
       <1>31, <1>32, <1>33, <1>34, <1>35, <1>36, <1>37, <1>38, <1>39, <1>40, <1>41
       DEF NBCall, NBStep, NBEnqueueStep, InsertStep, TodoStep,
           NBDequeueStep, ExpandStep, Unchanged

\* A dequeue() that grows the table keeps the size it read.
LEMMA SizeReadStep ==
  ASSUME GrowInv, NEW t \in Threads, NBCall(t) \/ NBStep(t)
  PROVE  SizeRead(t)'
  <1>1. TypePc /\ TypeLocals /\ SizeRead(t) /\ (old_size[t] # 0 => old_size[t] \in Sizes) /\ dequeue_size \in Sizes
    BY TypeParts, OldSizeKnown, SizesKnown DEF GrowInv, ExpandersKnow
  <1> USE <1>1
      DEF SizeRead, TypePc, TypeLocals, shared, nodes, heads, locals, history, locals2,
             added, Goto, Set, Forget,
          OpenLabels, MarkLabels
  <1>2. ASSUME NEW n \in Nodes, NEW ts \in Timestamps, NBEnqueueCall(t, n, ts)
        PROVE SizeRead(t)'
    BY <1>2 DEF NBEnqueueCall, AllocateNode
  <1>3. ASSUME InsHead(t) PROVE SizeRead(t)'
    BY <1>3 DEF InsHead
  <1>4. ASSUME InsNext(t) PROVE SizeRead(t)'
    BY <1>4 DEF InsNext
  <1>5. ASSUME InsPush(t) PROVE SizeRead(t)'
    BY <1>5 DEF InsPush
  <1>6. ASSUME MoveUnlink(t), UNCHANGED added PROVE SizeRead(t)'
    BY <1>6 DEF MoveUnlink, UnlinkIn
  <1>7. ASSUME Move(t) PROVE SizeRead(t)'
    BY <1>7 DEF Move
  <1>8. ASSUME LoopHead(t) PROVE SizeRead(t)'
    BY <1>8 DEF LoopHead
  <1>9. ASSUME LoopNext(t) PROVE SizeRead(t)'
    BY <1>9 DEF LoopNext
  <1>10. ASSUME LoopEnd(t) PROVE SizeRead(t)'
    BY <1>10 DEF LoopEnd
  <1>11. ASSUME CollaborativeReturn(t) PROVE SizeRead(t)'
    BY <1>11 DEF CollaborativeReturn
  <1>12. ASSUME PopHead(t) PROVE SizeRead(t)'
    BY <1>12 DEF PopHead
  <1>13. ASSUME PopNext(t) PROVE SizeRead(t)'
    BY <1>13 DEF PopNext
  <1>14. ASSUME PopCas(t) PROVE SizeRead(t)'
    BY <1>14 DEF PopCas
  <1>15. ASSUME Unlink(t), UNCHANGED added PROVE SizeRead(t)'
    BY <1>15 DEF Unlink, UnlinkIn
  <1>16. ASSUME Insert(t), UNCHANGED added PROVE SizeRead(t)'
    BY <1>16 DEF Insert, DrawMark
  <1>17. ASSUME FlushRead(t), UNCHANGED added PROVE SizeRead(t)'
    BY <1>17 DEF FlushRead
  <1>18. ASSUME FlushCas(t), UNCHANGED added PROVE SizeRead(t)'
    BY <1>18 DEF FlushCas
  <1>19. ASSUME EnqueueReturn(t), UNCHANGED added PROVE SizeRead(t)'
    BY <1>19 DEF EnqueueReturn
  <1>20. ASSUME NBDequeueCall(t) PROVE SizeRead(t)'
    BY <1>20 DEF NBDequeueCall, DequeueCall, Queued
  <1>21. ASSUME DeqRead(t), UNCHANGED added PROVE SizeRead(t)'
    BY <1>21 DEF DeqRead
  <1>22. ASSUME DeqScan(t), UNCHANGED added PROVE SizeRead(t)'
    BY <1>22 DEF DeqScan, Firsts, Bucket
  <1>23. ASSUME DeqMark(t), UNCHANGED added PROVE SizeRead(t)'
    BY <1>23 DEF DeqMark
  <1>24. ASSUME DeqMarkFails(t), UNCHANGED added PROVE SizeRead(t)'
    BY <1>24 DEF DeqMarkFails
  <1>25. ASSUME DeqNextBucket(t), UNCHANGED added PROVE SizeRead(t)'
    BY <1>25 DEF DeqNextBucket
  <1>26. ASSUME DeqAdvance(t), UNCHANGED added PROVE SizeRead(t)'
    BY <1>26 DEF DeqAdvance, DrawMark
  <1>27. ASSUME DequeueReturn(t), UNCHANGED added PROVE SizeRead(t)'
    BY <1>27 DEF DequeueReturn
  <1>28. ASSUME DeqTableEnd(t) PROVE SizeRead(t)'
    BY <1>28 DEF DeqTableEnd
  <1>29. ASSUME DeqFutureHead(t) PROVE SizeRead(t)'
    BY <1>29 DEF DeqFutureHead
  <1>30. ASSUME DeqFutureNext(t) PROVE SizeRead(t)'
    BY <1>30 DEF DeqFutureNext
  <1>31. ASSUME ExpandCheck(t) PROVE SizeRead(t)'
    BY <1>31 DEF ExpandCheck
  <1>32. ASSUME ExpandFuture(t) PROVE SizeRead(t)'
    BY <1>32 DEF ExpandFuture
  <1>33. ASSUME ExpandAlloc(t) PROVE SizeRead(t)'
    BY <1>33 DEF ExpandAlloc
  <1>34. ASSUME ExpandTodo(t) PROVE SizeRead(t)'
    BY <1>34 DEF ExpandTodo
  <1>35. ASSUME ExpandTodoCas(t) PROVE SizeRead(t)'
    BY <1>35 DEF ExpandTodoCas
  <1>36. ASSUME ExpandNewFuture(t) PROVE SizeRead(t)'
    BY <1>36 DEF ExpandNewFuture
  <1>37. ASSUME ExpandMarkHead(t) PROVE SizeRead(t)'
    BY <1>37 DEF ExpandMarkHead
  <1>38. ASSUME ExpandMarkNext(t) PROVE SizeRead(t)'
    BY <1>38 DEF ExpandMarkNext
  <1>39. ASSUME ExpandMarkCas(t) PROVE SizeRead(t)'
    BY <1>39 DEF ExpandMarkCas
  <1>40. ASSUME ExpandSize(t) PROVE SizeRead(t)'
    BY <1>40 DEF ExpandSize
  <1> QED
    BY <1>2, <1>3, <1>4, <1>5, <1>6, <1>7, <1>8, <1>9, <1>10, <1>11, <1>12, <1>13, <1>14, <1>15,
       <1>16, <1>17, <1>18, <1>19, <1>20, <1>21, <1>22, <1>23, <1>24, <1>25, <1>26, <1>27, <1>28, <1>29,
       <1>30, <1>31, <1>32, <1>33, <1>34, <1>35, <1>36, <1>37, <1>38, <1>39, <1>40
       DEF NBCall, NBStep, NBEnqueueStep, InsertStep, TodoStep,
           NBDequeueStep, ExpandStep, Unchanged

\* What a dequeue() read of the size does not change by the steps of others.
LEMMA SizeReadStays ==
  ASSUME GrowInv, [NBNext]_allVars, NEW u \in Threads, UNCHANGED LocalsOf(u)
  PROVE  SizeRead(u)'
  BY DEF LocalsOf, GrowInv, ExpandersKnow, SizeRead

\* What the threads that grow the table know is kept by every step.
LEMMA ExpanderAll == GrowInv /\ [NBNext]_allVars => \A t \in Threads : Expander(t)'
  <1> SUFFICES ASSUME GrowInv, [NBNext]_allVars, NEW u \in Threads PROVE Expander(u)'
    OBVIOUS
  <1>1. TypePc /\ TypeLocals
    BY TypeParts DEF GrowInv
  <1>2. ASSUME UNCHANGED LocalsOf(u) PROVE Expander(u)'
    BY <1>2, ExpanderStays
  <1>3. CASE UNCHANGED allVars
    <2>1. UNCHANGED LocalsOf(u)
      BY <1>3 DEF LocalsOf, allVars, vars, locals, history, added, locals2
    <2> QED
      BY <1>2, <2>1
  <1>4. ASSUME NEW t \in Threads, NBCall(t) \/ NBStep(t) PROVE Expander(u)'
    <2>1. CASE t = u
      BY <1>4, <2>1, ExpanderStep
    <2>2. CASE t # u
      <3>1. UNCHANGED LocalsOf(u)
        BY <1>1, <1>4, <2>2, OthersKeep
      <3> QED
        BY <1>2, <3>1
    <2> QED
      BY <2>1, <2>2
  <1> QED
    BY <1>3, <1>4 DEF NBNext

\* The sizes the threads read are kept by every step.
LEMMA SizeReadAll == GrowInv /\ [NBNext]_allVars => \A t \in Threads : SizeRead(t)'
  <1> SUFFICES ASSUME GrowInv, [NBNext]_allVars, NEW u \in Threads PROVE SizeRead(u)'
    OBVIOUS
  <1>1. TypePc /\ TypeLocals
    BY TypeParts DEF GrowInv
  <1>2. ASSUME UNCHANGED LocalsOf(u) PROVE SizeRead(u)'
    BY <1>2, SizeReadStays
  <1>3. CASE UNCHANGED allVars
    <2>1. UNCHANGED LocalsOf(u)
      BY <1>3 DEF LocalsOf, allVars, vars, locals, history, added, locals2
    <2> QED
      BY <1>2, <2>1
  <1>4. ASSUME NEW t \in Threads, NBCall(t) \/ NBStep(t) PROVE SizeRead(u)'
    <2>1. CASE t = u
      BY <1>4, <2>1, SizeReadStep
    <2>2. CASE t # u
      <3>1. UNCHANGED LocalsOf(u)
        BY <1>1, <1>4, <2>2, OthersKeep
      <3> QED
        BY <1>2, <3>1
    <2> QED
      BY <2>1, <2>2
  <1> QED
    BY <1>3, <1>4 DEF NBNext

\* A node in use stays in use, with its timestamp.
LEMMA UsedStays ==
  ASSUME GrowInv, [NBNext]_allVars, NEW n \in Nodes, place[n] # "unused"
  PROVE  place'[n] # "unused" /\ timestamp'[n] = timestamp[n]
  <1>1. CASE FutureKept
    BY <1>1 DEF FutureKept
  <1>2. ASSUME NEW t \in Threads, InsPush(t) \/ PopCas(t)
        PROVE place'[n] # "unused" /\ timestamp'[n] = timestamp[n]
    <2>1. TypeNodes
      BY TypeParts DEF GrowInv
    <2>2. timestamp' = timestamp
      BY <1>2, PushFrame, PopFrame
    <2>3. place' = place \/ \E m : place' = [place EXCEPT ![m] = "future"] \/ place' = [place EXCEPT ![m] = "carried"]
      BY <1>2, PushDoes, PopDoes
    <2> QED
      BY <2>1, <2>2, <2>3 DEF TypeNodes
  <1> QED
    BY <1>1, <1>2, PlaceWriters

\* A cursor inside the table stays inside.
LEMMA CursorOfStays ==
  ASSUME GrowInv, [NBNext]_allVars, NEW u \in Threads, UNCHANGED LocalsOf(u)
  PROVE  CursorOf(u)'
  <1>1. UNCHANGED <<pc[u], node[u], oldCur[u], newCur[u]>> /\ CursorOf(u)
    BY DEF LocalsOf, GrowInv, CursorInside
  <1>2. dequeue_size \in Nat /\ dequeue_size <= dequeue_size' /\ dequeue_size' \in Nat
    BY TableMoves, SizesKnown DEF SizesMove
  <1>3. oldCur[u].index \in Nat
    BY TypeParts, CursorFields DEF GrowInv, TypeLocals
  <1>4. pc[u] \in Flushing => place'[node[u]] # "unused" /\ timestamp'[node[u]] = timestamp[node[u]]
    BY <1>1, UsedStays DEF CursorOf
  <1>5. /\ pc[u] \in {"scan", "tail"} => oldCur[u].index < dequeue_size'
        /\ pc[u] = "advance" => oldCur[u].index + 1 < dequeue_size'
    BY <1>1, <1>2, <1>3 DEF CursorOf
  <1> QED
    BY <1>1, <1>4, <1>5 DEF CursorOf

\* A thread that reads current gets a cursor inside the table.
LEMMA CursorOfStep ==
  ASSUME GrowInv, NEW t \in Threads, NBCall(t) \/ NBStep(t)
  PROVE  CursorOf(t)'
  <1>1. /\ TypeTable /\ TypeNodes /\ TypePc /\ TypeLocals /\ CursorOf(t) /\ current.index < dequeue_size
        /\ dequeue_size \in Nat /\ current.index \in Nat /\ oldCur[t].index \in Nat /\ newCur[t].index \in Nat
    BY TypeParts, SizesKnown, CursorFields DEF GrowInv, CursorInside, TypeLocals, TypeTable
  <1> USE <1>1
      DEF CursorOf, TypePc, TypeLocals, TypeNodes, shared, nodes, locals, history, locals2,
             added, Goto, Set, Forget, Flushing
  <1>2. ASSUME NEW n \in Nodes, NEW ts \in Timestamps, NBEnqueueCall(t, n, ts)
        PROVE CursorOf(t)'
    BY <1>2 DEF NBEnqueueCall, AllocateNode
  <1>3. ASSUME InsHead(t) PROVE CursorOf(t)'
    BY <1>3 DEF InsHead
  <1>4. ASSUME InsNext(t) PROVE CursorOf(t)'
    BY <1>4 DEF InsNext
  <1>5. ASSUME InsPush(t) PROVE CursorOf(t)'
    BY <1>5 DEF InsPush
  <1>6. ASSUME MoveUnlink(t), UNCHANGED added PROVE CursorOf(t)'
    BY <1>6 DEF MoveUnlink, UnlinkIn
  <1>7. ASSUME Move(t) PROVE CursorOf(t)'
    BY <1>7 DEF Move
  <1>8. ASSUME LoopHead(t) PROVE CursorOf(t)'
    BY <1>8 DEF LoopHead
  <1>9. ASSUME LoopNext(t) PROVE CursorOf(t)'
    BY <1>9 DEF LoopNext
  <1>10. ASSUME LoopEnd(t) PROVE CursorOf(t)'
    BY <1>10 DEF LoopEnd
  <1>11. ASSUME CollaborativeReturn(t) PROVE CursorOf(t)'
    BY <1>11 DEF CollaborativeReturn
  <1>12. ASSUME PopHead(t) PROVE CursorOf(t)'
    BY <1>12 DEF PopHead
  <1>13. ASSUME PopNext(t) PROVE CursorOf(t)'
    BY <1>13 DEF PopNext
  <1>14. ASSUME PopCas(t) PROVE CursorOf(t)'
    BY <1>14 DEF PopCas
  <1>15. ASSUME Unlink(t), UNCHANGED added PROVE CursorOf(t)'
    BY <1>15 DEF Unlink, UnlinkIn
  <1>16. ASSUME Insert(t), UNCHANGED added PROVE CursorOf(t)'
    BY <1>16, InHand DEF Insert, DrawMark
  <1>17. ASSUME FlushRead(t), UNCHANGED added PROVE CursorOf(t)'
    BY <1>17 DEF FlushRead
  <1>18. ASSUME FlushCas(t), UNCHANGED added PROVE CursorOf(t)'
    BY <1>18 DEF FlushCas
  <1>19. ASSUME EnqueueReturn(t), UNCHANGED added PROVE CursorOf(t)'
    BY <1>19 DEF EnqueueReturn
  <1>20. ASSUME NBDequeueCall(t) PROVE CursorOf(t)'
    BY <1>20 DEF NBDequeueCall, DequeueCall, Queued
  <1>21. ASSUME DeqRead(t), UNCHANGED added PROVE CursorOf(t)'
    BY <1>21 DEF DeqRead
  <1>22. ASSUME DeqScan(t), UNCHANGED added PROVE CursorOf(t)'
    BY <1>22 DEF DeqScan, Firsts, Bucket
  <1>23. ASSUME DeqMark(t), UNCHANGED added PROVE CursorOf(t)'
    BY <1>23 DEF DeqMark
  <1>24. ASSUME DeqMarkFails(t), UNCHANGED added PROVE CursorOf(t)'
    BY <1>24 DEF DeqMarkFails
  <1>25. ASSUME DeqNextBucket(t), UNCHANGED added PROVE CursorOf(t)'
    BY <1>25 DEF DeqNextBucket
  <1>26. ASSUME DeqAdvance(t), UNCHANGED added PROVE CursorOf(t)'
    BY <1>26 DEF DeqAdvance, DrawMark
  <1>27. ASSUME DequeueReturn(t), UNCHANGED added PROVE CursorOf(t)'
    BY <1>27 DEF DequeueReturn
  <1>28. ASSUME DeqTableEnd(t) PROVE CursorOf(t)'
    BY <1>28 DEF DeqTableEnd
  <1>29. ASSUME DeqFutureHead(t) PROVE CursorOf(t)'
    BY <1>29 DEF DeqFutureHead
  <1>30. ASSUME DeqFutureNext(t) PROVE CursorOf(t)'
    BY <1>30 DEF DeqFutureNext
  <1>31. ASSUME ExpandCheck(t) PROVE CursorOf(t)'
    <2>1. old_size[t] # 0 /\ pc[t] = "ex_check"
      BY <1>31, ExpanderOld DEF ExpandCheck
    <2>2. /\ oldCur[t].index < old_size[t] /\ old_size[t] \in Nat
          /\ old_size[t] = dequeue_size \/ 2 * old_size[t] <= dequeue_size
      BY <2>1, OldSizeKnown DEF GrowInv, ExpandersKnow, Expander
    <2> QED
      BY <1>31, <2>1, <2>2 DEF ExpandCheck
  <1>32. ASSUME ExpandFuture(t) PROVE CursorOf(t)'
    BY <1>32 DEF ExpandFuture
  <1>33. ASSUME ExpandAlloc(t) PROVE CursorOf(t)'
    BY <1>33 DEF ExpandAlloc
  <1>34. ASSUME ExpandTodo(t) PROVE CursorOf(t)'
    BY <1>34 DEF ExpandTodo
  <1>35. ASSUME ExpandTodoCas(t) PROVE CursorOf(t)'
    BY <1>35 DEF ExpandTodoCas
  <1>36. ASSUME ExpandNewFuture(t) PROVE CursorOf(t)'
    BY <1>36 DEF ExpandNewFuture
  <1>37. ASSUME ExpandMarkHead(t) PROVE CursorOf(t)'
    BY <1>37 DEF ExpandMarkHead
  <1>38. ASSUME ExpandMarkNext(t) PROVE CursorOf(t)'
    BY <1>38 DEF ExpandMarkNext
  <1>39. ASSUME ExpandMarkCas(t) PROVE CursorOf(t)'
    BY <1>39 DEF ExpandMarkCas
  <1>40. ASSUME ExpandSize(t) PROVE CursorOf(t)'
    <2>1. old_size[t] # 0 /\ pc[t] = "ex_size"
      BY <1>40, ExpanderOld DEF ExpandSize
    <2>2. /\ oldCur[t].index < old_size[t] /\ old_size[t] \in Nat
          /\ old_size[t] = dequeue_size \/ 2 * old_size[t] <= dequeue_size
      BY <2>1, OldSizeKnown DEF GrowInv, ExpandersKnow, Expander
    <2> QED
      BY <1>40, <2>1, <2>2 DEF ExpandSize
  <1> HIDE DEF CursorOf
  <1> QED
    BY <1>2, <1>3, <1>4, <1>5, <1>6, <1>7, <1>8, <1>9, <1>10, <1>11, <1>12, <1>13, <1>14, <1>15,
       <1>16, <1>17, <1>18, <1>19, <1>20, <1>21, <1>22, <1>23, <1>24, <1>25, <1>26, <1>27, <1>28, <1>29,
       <1>30, <1>31, <1>32, <1>33, <1>34, <1>35, <1>36, <1>37, <1>38, <1>39, <1>40
       DEF NBCall, NBStep, NBEnqueueStep, InsertStep, TodoStep,
           NBDequeueStep, ExpandStep, Unchanged

\* The cursors of all threads stay inside the table.
LEMMA CursorOfAll == GrowInv /\ [NBNext]_allVars => \A t \in Threads : CursorOf(t)'
  <1> SUFFICES ASSUME GrowInv, [NBNext]_allVars, NEW u \in Threads PROVE CursorOf(u)'
    OBVIOUS
  <1>1. TypePc /\ TypeLocals
    BY TypeParts DEF GrowInv
  <1>2. ASSUME UNCHANGED LocalsOf(u) PROVE CursorOf(u)'
    BY <1>2, CursorOfStays
  <1>3. CASE UNCHANGED allVars
    <2>1. UNCHANGED LocalsOf(u)
      BY <1>3 DEF LocalsOf, allVars, vars, locals, history, added, locals2
    <2> QED
      BY <1>2, <2>1
  <1>4. ASSUME NEW t \in Threads, NBCall(t) \/ NBStep(t) PROVE CursorOf(u)'
    <2>1. CASE t = u
      BY <1>4, <2>1, CursorOfStep
    <2>2. CASE t # u
      <3>1. UNCHANGED LocalsOf(u)
        BY <1>1, <1>4, <2>2, OthersKeep
      <3> QED
        BY <1>2, <3>1
    <2> QED
      BY <2>1, <2>2
  <1> QED
    BY <1>3, <1>4 DEF NBNext

\* Neither a flush nor an advance takes current out of the table.
LEMMA CurrentInsideStep == GrowInv /\ [NBNext]_allVars => (current.index < dequeue_size)'
  <1> SUFFICES ASSUME GrowInv, [NBNext]_allVars PROVE (current.index < dequeue_size)'
    OBVIOUS
  <1>1. /\ current.index < dequeue_size /\ current.index \in Nat /\ dequeue_size \in Nat
        /\ dequeue_size' \in Nat /\ dequeue_size <= dequeue_size'
    BY TypeParts, CursorFields, SizesKnown, TableMoves
       DEF GrowInv, CursorInside, TypeTable, SizesMove
  <1> USE <1>1
      DEF shared
  <1>2. ASSUME NEW t \in Threads, NEW n \in Nodes, NEW ts \in Timestamps, NBEnqueueCall(t, n, ts)
        PROVE (current.index < dequeue_size)'
    BY <1>2 DEF NBEnqueueCall, AllocateNode
  <1>3. ASSUME NEW t \in Threads, InsHead(t) PROVE (current.index < dequeue_size)'
    BY <1>3 DEF InsHead
  <1>4. ASSUME NEW t \in Threads, InsNext(t) PROVE (current.index < dequeue_size)'
    BY <1>4 DEF InsNext
  <1>5. ASSUME NEW t \in Threads, InsPush(t) PROVE (current.index < dequeue_size)'
    BY <1>5 DEF InsPush
  <1>6. ASSUME NEW t \in Threads, MoveUnlink(t), UNCHANGED added
        PROVE (current.index < dequeue_size)'
    BY <1>6 DEF MoveUnlink, UnlinkIn
  <1>7. ASSUME NEW t \in Threads, Move(t) PROVE (current.index < dequeue_size)'
    BY <1>7 DEF Move
  <1>8. ASSUME NEW t \in Threads, LoopHead(t) PROVE (current.index < dequeue_size)'
    BY <1>8 DEF LoopHead
  <1>9. ASSUME NEW t \in Threads, LoopNext(t) PROVE (current.index < dequeue_size)'
    BY <1>9 DEF LoopNext
  <1>10. ASSUME NEW t \in Threads, LoopEnd(t) PROVE (current.index < dequeue_size)'
    BY <1>10 DEF LoopEnd
  <1>11. ASSUME NEW t \in Threads, CollaborativeReturn(t) PROVE (current.index < dequeue_size)'
    BY <1>11 DEF CollaborativeReturn
  <1>12. ASSUME NEW t \in Threads, PopHead(t) PROVE (current.index < dequeue_size)'
    BY <1>12 DEF PopHead
  <1>13. ASSUME NEW t \in Threads, PopNext(t) PROVE (current.index < dequeue_size)'
    BY <1>13 DEF PopNext
  <1>14. ASSUME NEW t \in Threads, PopCas(t) PROVE (current.index < dequeue_size)'
    BY <1>14 DEF PopCas
  <1>15. ASSUME NEW t \in Threads, Unlink(t), UNCHANGED added
         PROVE (current.index < dequeue_size)'
    BY <1>15 DEF Unlink, UnlinkIn
  <1>16. ASSUME NEW t \in Threads, Insert(t), UNCHANGED added
         PROVE (current.index < dequeue_size)'
    BY <1>16 DEF Insert, DrawMark
  <1>17. ASSUME NEW t \in Threads, FlushRead(t), UNCHANGED added
         PROVE (current.index < dequeue_size)'
    BY <1>17 DEF FlushRead
  <1>18. ASSUME NEW t \in Threads, FlushCas(t), UNCHANGED added
         PROVE (current.index < dequeue_size)'
    <2>1. oldCur[t].index \in Nat /\ newCur[t].index \in Nat
      BY TypeParts, CursorFields DEF GrowInv, TypeLocals
    <2>2. newCur[t].index <= oldCur[t].index
      BY <1>18 DEF FlushCas, GrowInv, CursorInside, CursorOf
    <2> QED
      BY <1>18, <2>1, <2>2 DEF FlushCas
  <1>19. ASSUME NEW t \in Threads, EnqueueReturn(t), UNCHANGED added
         PROVE (current.index < dequeue_size)'
    BY <1>19 DEF EnqueueReturn
  <1>20. ASSUME NEW t \in Threads, NBDequeueCall(t) PROVE (current.index < dequeue_size)'
    BY <1>20 DEF NBDequeueCall, DequeueCall, Queued
  <1>21. ASSUME NEW t \in Threads, DeqRead(t), UNCHANGED added
         PROVE (current.index < dequeue_size)'
    BY <1>21 DEF DeqRead
  <1>22. ASSUME NEW t \in Threads, DeqScan(t), UNCHANGED added
         PROVE (current.index < dequeue_size)'
    BY <1>22 DEF DeqScan, Firsts, Bucket
  <1>23. ASSUME NEW t \in Threads, DeqMark(t), UNCHANGED added
         PROVE (current.index < dequeue_size)'
    BY <1>23 DEF DeqMark
  <1>24. ASSUME NEW t \in Threads, DeqMarkFails(t), UNCHANGED added
         PROVE (current.index < dequeue_size)'
    BY <1>24 DEF DeqMarkFails
  <1>25. ASSUME NEW t \in Threads, DeqNextBucket(t), UNCHANGED added
         PROVE (current.index < dequeue_size)'
    BY <1>25 DEF DeqNextBucket
  <1>26. ASSUME NEW t \in Threads, DeqAdvance(t), UNCHANGED added
         PROVE (current.index < dequeue_size)'
    <2>1. oldCur[t].index + 1 < dequeue_size
      BY <1>26 DEF DeqAdvance, GrowInv, CursorInside, CursorOf
    <2> QED
      BY <1>26, <2>1 DEF DeqAdvance
  <1>27. ASSUME NEW t \in Threads, DequeueReturn(t), UNCHANGED added
         PROVE (current.index < dequeue_size)'
    BY <1>27 DEF DequeueReturn
  <1>28. ASSUME NEW t \in Threads, DeqTableEnd(t) PROVE (current.index < dequeue_size)'
    BY <1>28 DEF DeqTableEnd
  <1>29. ASSUME NEW t \in Threads, DeqFutureHead(t) PROVE (current.index < dequeue_size)'
    BY <1>29 DEF DeqFutureHead
  <1>30. ASSUME NEW t \in Threads, DeqFutureNext(t) PROVE (current.index < dequeue_size)'
    BY <1>30 DEF DeqFutureNext
  <1>31. ASSUME NEW t \in Threads, ExpandCheck(t) PROVE (current.index < dequeue_size)'
    BY <1>31 DEF ExpandCheck
  <1>32. ASSUME NEW t \in Threads, ExpandFuture(t) PROVE (current.index < dequeue_size)'
    BY <1>32 DEF ExpandFuture
  <1>33. ASSUME NEW t \in Threads, ExpandAlloc(t) PROVE (current.index < dequeue_size)'
    BY <1>33 DEF ExpandAlloc
  <1>34. ASSUME NEW t \in Threads, ExpandTodo(t) PROVE (current.index < dequeue_size)'
    BY <1>34 DEF ExpandTodo
  <1>35. ASSUME NEW t \in Threads, ExpandTodoCas(t) PROVE (current.index < dequeue_size)'
    BY <1>35 DEF ExpandTodoCas
  <1>36. ASSUME NEW t \in Threads, ExpandNewFuture(t) PROVE (current.index < dequeue_size)'
    BY <1>36 DEF ExpandNewFuture
  <1>37. ASSUME NEW t \in Threads, ExpandMarkHead(t) PROVE (current.index < dequeue_size)'
    BY <1>37 DEF ExpandMarkHead
  <1>38. ASSUME NEW t \in Threads, ExpandMarkNext(t) PROVE (current.index < dequeue_size)'
    BY <1>38 DEF ExpandMarkNext
  <1>39. ASSUME NEW t \in Threads, ExpandMarkCas(t) PROVE (current.index < dequeue_size)'
    BY <1>39 DEF ExpandMarkCas
  <1>40. ASSUME NEW t \in Threads, ExpandSize(t) PROVE (current.index < dequeue_size)'
    BY <1>40 DEF ExpandSize
  <1>41. CASE UNCHANGED allVars
    BY <1>41 DEF allVars, vars
  <1> QED
    BY <1>2, <1>3, <1>4, <1>5, <1>6, <1>7, <1>8, <1>9, <1>10, <1>11, <1>12, <1>13, <1>14, <1>15,
       <1>16, <1>17, <1>18, <1>19, <1>20, <1>21, <1>22, <1>23, <1>24, <1>25, <1>26, <1>27, <1>28, <1>29,
       <1>30, <1>31, <1>32, <1>33, <1>34, <1>35, <1>36, <1>37, <1>38, <1>39, <1>40, <1>41
       DEF NBNext, NBCall, NBStep, NBEnqueueStep, InsertStep, TodoStep,
           NBDequeueStep, ExpandStep, Unchanged

\* The cursor stays inside the table.
LEMMA CursorInsideStep == GrowInv /\ [NBNext]_allVars => CursorInside'
  BY CursorOfAll, CurrentInsideStep DEF CursorInside

\* The initial states satisfy the invariant.
LEMMA GrowInit == NBInit => GrowInv
  <1> SUFFICES ASSUME NBInit PROVE GrowInv
    OBVIOUS
  <1>1. InitSize \in Sizes /\ InitSize \in Heads /\ 0 \in Heads /\ InitSize \in Nat /\ 0 < InitSize
    BY InitSizeIn, HeadsAre, CalendarAssumption
  <1> USE DEF NBInit, Init
  <1>2. TypeTable
    <2>1. current \in Cursors
      BY <1>1, CursorMake DEF InitMark
    <2> QED
      BY <1>1, <2>1 DEF TypeTable
  <1>3. TypeNodes
    BY PlacesAre DEF TypeNodes
  <1>4. TypePc
    BY LabelsIn DEF TypePc
  <1>5. TypeLocals
    BY <1>1, NoCursorIn, NodesIn DEF TypeLocals
  <1>6. NBTypeOK
    BY <1>2, <1>3, <1>4, <1>5, TypeParts
  <1>7. TableOk
    BY <1>1 DEF TableOk, Retired
  <1>8. ClosedOk
    BY <1>1 DEF ClosedOk
  <1>9. LinksOk
    BY DEF LinksOk
  <1>10. HandsOk
    BY CalendarAssumption
       DEF HandsOk, NewOk, CarryOk, ReadOk, Inserting, InEnqueue, Enqueuing, InsertLabels,
           TodoLabels
  <1>11. HeadsKnown
    BY DEF HeadsKnown, HeadsOf, MarkLabels
  <1>12. ExpandersKnow
    BY DEF ExpandersKnow, Expander, SizeRead, OpenLabels, MarkLabels
  <1>13. CursorInside
    BY <1>1 DEF CursorInside, CursorOf, Flushing
  <1> QED
    BY <1>6, <1>7, <1>8, <1>9, <1>10, <1>11, <1>12, <1>13 DEF GrowInv

\* Every step keeps the invariant.
LEMMA GrowStep == GrowInv /\ [NBNext]_allVars => GrowInv'
  <1>1. GrowInv /\ [NBNext]_allVars => HandsOk'
    BY NewOkStep, CarryOkStep, ReadOkStep DEF HandsOk
  <1>2. GrowInv /\ [NBNext]_allVars => HeadsKnown' /\ ExpandersKnow'
    BY HeadsKnownStep, ExpanderAll, SizeReadAll DEF HeadsKnown, ExpandersKnow
  <1> QED
    BY <1>1, <1>2, NBTypeStep, TableOkStep, ClosedOkStep, LinksOkStep, CursorInsideStep
       DEF GrowInv

\* The invariant of the growing table: how the sizes, the lists, the nodes in
\* hand and what each thread has read are related in every reachable state.
THEOREM GrowInvariant == NBSpec => []GrowInv
  <1>1. NBInit => GrowInv
    BY GrowInit
  <1>2. GrowInv /\ [NBNext]_allVars => GrowInv'
    BY GrowStep
  <1> QED
    BY <1>1, <1>2, PTL DEF NBSpec

\* Every variable keeps its type, with any number of threads, nodes and doublings.
THEOREM NBTypeCorrect == NBSpec => []NBTypeOK
  <1>1. GrowInv => NBTypeOK
    BY DEF GrowInv
  <1> QED
    BY <1>1, GrowInvariant, PTL

\* No thread addresses a bucket of a segment that does not exist yet.
THEOREM SegmentsSafe == NBSpec => []SegmentsExist
  <1>1. GrowInv => SegmentsExist
    <2> SUFFICES ASSUME GrowInv PROVE SegmentsExist
      OBVIOUS
    <2>1. future_list <= table_size /\ dequeue_size <= future_list
      BY SizesKnown DEF GrowInv, TableOk
    <2>2. current.index < dequeue_size
      BY DEF GrowInv, CursorInside
    <2>3. \A t \in Threads :
            /\ pc[t] = "advance" => oldCur[t].index + 1 < dequeue_size
            /\ pc[t] \in {"insert", "move"} => IndexInHand(t) < table_size
      BY DEF GrowInv, CursorInside, CursorOf, HeadsKnown, HeadsOf
    <2> QED
      BY <2>1, <2>2, <2>3 DEF SegmentsExist
  <1> QED
    BY <1>1, GrowInvariant, PTL

\* The links to node n, as pairs of a list's head and a place in it.
LinksTo(n) == UNION {{h} \X {i \in DOMAIN list[h] : list[h][i] = n} : h \in Heads}

\* What a link is.
LEMMA LinksToAre ==
  ASSUME NEW n, NEW p, p \in LinksTo(n)
  PROVE  \E h \in Heads : \E i \in DOMAIN list[h] : list[h][i] = n /\ p = <<h, i>>
  <1>1. PICK h \in Heads : p \in {h} \X {i \in DOMAIN list[h] : list[h][i] = n}
    BY DEF LinksTo
  <1>2. PICK i \in DOMAIN list[h] : list[h][i] = n /\ p = <<h, i>>
    BY <1>1
  <1> QED
    BY <1>2

\* A node is linked once if its place is a list, and not at all otherwise.
LEMMA LinkCount ==
  ASSUME LinksOk, NEW n \in Nodes
  PROVE  Cardinality(LinksTo(n)) = IF place[n] = "future" THEN 1 ELSE 0
  <1>1. CASE place[n] = "future"
    <2>1. PICK h \in Heads : \E i \in DOMAIN list[h] : list[h][i] = n
      BY <1>1 DEF LinksOk
    <2>2. PICK i \in DOMAIN list[h] : list[h][i] = n
      BY <2>1
    <2>3. <<h, i>> \in LinksTo(n)
      BY <2>2 DEF LinksTo
    <2>4. ASSUME NEW p \in LinksTo(n) PROVE p = <<h, i>>
      BY <2>2, LinksToAre DEF LinksOk
    <2>5. LinksTo(n) = {<<h, i>>}
      BY <2>3, <2>4
    <2> QED
      BY <1>1, <2>5, FS_Singleton, Zenon
  <1>2. CASE place[n] # "future"
    <2>1. LinksTo(n) = {}
      BY <1>2, LinksToAre DEF LinksOk
    <2> QED
      BY <1>2, <2>1, FS_EmptySet, Zenon
  <1> QED
    BY <1>1, <1>2

\* A popped node is in the hands of one thread, any other node of none.
LEMMA HandCount ==
  ASSUME CarryOk, NEW n \in Nodes
  PROVE  Cardinality({t \in Threads : carried[t] = n}) = IF place[n] = "carried" THEN 1 ELSE 0
  <1>0. n # NoNode
    BY CalendarAssumption
  <1>1. CASE place[n] = "carried"
    <2>1. PICK t \in Threads : carried[t] = n
      BY <1>1 DEF CarryOk
    <2>2. {u \in Threads : carried[u] = n} = {t}
      BY <1>0, <2>1 DEF CarryOk
    <2> QED
      BY <1>1, <2>2, FS_Singleton, Zenon
  <1>2. CASE place[n] # "carried"
    <2>1. {u \in Threads : carried[u] = n} = {}
      BY <1>0, <1>2 DEF CarryOk
    <2> QED
      BY <1>2, <2>1, FS_EmptySet, Zenon
  <1> QED
    BY <1>1, <1>2

\* No event is lost or doubled while the table grows.
THEOREM Conservation == NBSpec => []NodesConserved
  <1>1. GrowInv => NodesConserved
    <2> SUFFICES ASSUME GrowInv PROVE NodesConserved
      OBVIOUS
    <2>1. LinksOk /\ CarryOk /\ ClosedOk
      BY DEF GrowInv, HandsOk
    <2>2. \A h \in Heads : h \notin {future_list, todo_list} => list[h] = <<>>
      BY <2>1 DEF ClosedOk
    <2>3. ASSUME NEW n \in Nodes
          PROVE  /\ Cardinality(UNION {{h} \X {i \in DOMAIN list[h] : list[h][i] = n} : h \in Heads}) =
                      IF place[n] = "future" THEN 1 ELSE 0
                 /\ Cardinality({t \in Threads : carried[t] = n}) = IF place[n] = "carried" THEN 1 ELSE 0
      BY <2>1, LinkCount, HandCount, Zenon DEF LinksTo
    <2> QED
      BY <2>2, <2>3, Zenon DEF NodesConserved
  <1> QED
    BY <1>1, GrowInvariant, PTL

\* What a step may do to a closed list: nothing, or remove its first node.
ShrinkStep == \A h \in closed : h \in closed' /\ (list'[h] = list[h] \/ list'[h] = Tail(list[h]))

\* No step does anything else to a closed list.
LEMMA ShrinkHolds == GrowInv /\ [NBNext]_allVars => ShrinkStep
  <1> SUFFICES ASSUME GrowInv, [NBNext]_allVars, NEW h \in closed
               PROVE h \in closed' /\ (list'[h] = list[h] \/ list'[h] = Tail(list[h]))
    BY DEF ShrinkStep
  <1>1. TypeTable /\ h \in Heads /\ closed \subseteq closed'
    BY TypeParts, TableMoves DEF GrowInv, TypeTable, SizesMove
  <1>2. CASE TableQuiet
    BY <1>1, <1>2 DEF TableQuiet, heads
  <1>3. ASSUME NEW t \in Threads, InsPush(t) PROVE list'[h] = list[h]
    BY <1>1, <1>3, PushDoes DEF Pushed
  <1>4. ASSUME NEW t \in Threads, PopCas(t) PROVE list'[h] = list[h] \/ list'[h] = Tail(list[h])
    BY <1>1, <1>4 DEF PopCas, TypeTable
  <1>5. ASSUME NEW t \in Threads,
               ExpandAlloc(t) \/ ExpandTodoCas(t) \/ ExpandNewFuture(t) \/ ExpandMarkCas(t) \/ ExpandSize(t)
        PROVE list' = list
    BY <1>5 DEF ExpandAlloc, ExpandTodoCas, ExpandNewFuture, ExpandMarkCas, ExpandSize, heads
  <1> QED
    BY <1>1, <1>2, <1>3, <1>4, <1>5, TableWriters

\* A closed list is never re-opened nor pushed to: popped nodes cannot come
\* back under a CAS that compares first nodes only.
THEOREM ClosedShrink == NBSpec => ClosedListsShrink
  <1>1. GrowInv /\ [NBNext]_allVars => [ShrinkStep]_allVars
    BY ShrinkHolds
  <1>2. [][ShrinkStep]_allVars => ClosedListsShrink
    BY PTL DEF ClosedListsShrink, ShrinkStep
  <1> QED
    BY <1>1, <1>2, GrowInvariant, PTL DEF NBSpec
=============================================================================
