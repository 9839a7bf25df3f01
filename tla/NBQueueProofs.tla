---------------------------- MODULE NBQueueProofs ----------------------------
(***************************************************************************)
(* Proofs about module NBQueue that combine the cursor protocol of module  *)
(* Calendar with the growing table: no event is left behind the cursor,    *)
(* except one that an expansion re-inserted too late; and when one thread  *)
(* dequeues, none is, and the queue implements the abstract pool.          *)
(*                                                                         *)
(* They need what the cursor's CAS needs: no two marks are equal, and none *)
(* equals the mark that queue_init() gives current.                        *)
(***************************************************************************)
EXTENDS NBTableProofs

\* A cursor some dequeue() will compare current with.
Watching(t) == pc[t] \in Looking \/ old_size[t] # 0

\* No mark of a flush that is still to be published is in current or in a cursor
\* that a dequeue() will compare with it.
NBMarksFresh ==
  /\ \A t \in Threads : marks[t] <= MaxMarks
  /\ current.mark = InitMark \/ Drawn(current.mark)
  /\ \A t \in Threads : Watching(t) => oldCur[t].mark = InitMark \/ Drawn(oldCur[t].mark)
  /\ \A t \in Threads : pc[t] \in Flushing =>
       /\ Drawn(newCur[t].mark)
       /\ current.mark # newCur[t].mark
       /\ \A u \in Threads : Watching(u) => oldCur[u].mark # newCur[t].mark
       /\ \A u \in Threads \ {t} : pc[u] \in Flushing => newCur[u].mark # newCur[t].mark

\* A node the cursor must not pass: in the table, and no flush is to come.
Pending(n) == \E t \in Threads : pc[t] \in Flushing /\ node[t] = n
\* The node is linked in a bucket, in time, and its flush is over.
Settling(n) == place[n] = "bucket" /\ n \notin late /\ ~Pending(n)

\* The cursor is not past a settled node.
TableCovered == \A n \in Nodes : Settling(n) => current.index <= BucketOf(timestamp[n])

\* The thread has found its bucket empty.
PassedScan(t) == pc[t] \in {"tail", "advance"} \/ old_size[t] # 0

\* A dequeue() that found its bucket empty, and whose CAS would still succeed,
\* has missed no settled node of that bucket.
StaleAdvanceHarmless ==
  \A t \in Threads : PassedScan(t) /\ oldCur[t] = current =>
    \A n \in Nodes : Settling(n) => BucketOf(timestamp[n]) # current.index

\* An event whose enqueue() has returned has no flush to come.
SettledDone ==
  /\ \A t \in Threads : InEnqueue(t) => node[t] \notin settled
  /\ \A t, u \in Threads : InEnqueue(t) /\ InEnqueue(u) /\ node[t] = node[u] => t = u
  /\ \A n \in settled : place[n] # "unused"
  /\ \A t \in Threads : InEnqueue(t) => place[node[t]] # "unused"

\* The inductive invariant of the whole queue.
NBIndInv == GrowInv /\ NBMarksFresh /\ TableCovered /\ StaleAdvanceHarmless /\ SettledDone

-----------------------------------------------------------------------------
\* The mark that queue_init() puts in current is never drawn.
InitMarkUndrawn == \A t \in Threads : \A k \in 0 .. MaxMarks - 1 : GenerateMark(t, k) # InitMark

\* Each thread draws at most one mark in a step.
MarksGrow ==
  \A p \in Threads : marks'[p] = marks[p] \/ (marks'[p] = marks[p] + 1 /\ marks[p] < MaxMarks)

\* Every step draws no more.
LEMMA MarksMove ==
  ASSUME GrowInv, [NBNext]_allVars
  PROVE  MarksGrow
  <1>1. TypeLocals
    BY TypeParts DEF GrowInv
  <1> USE <1>1
      DEF MarksGrow, DrawMark, TypeLocals, locals, history, locals2, added, Goto, Set, Forget
  <1>2. ASSUME NEW t \in Threads, NEW n \in Nodes, NEW ts \in Timestamps, NBEnqueueCall(t, n, ts)
        PROVE MarksGrow
    BY <1>2 DEF NBEnqueueCall, AllocateNode
  <1>3. ASSUME NEW t \in Threads, InsHead(t) PROVE MarksGrow
    BY <1>3 DEF InsHead
  <1>4. ASSUME NEW t \in Threads, InsNext(t) PROVE MarksGrow
    BY <1>4 DEF InsNext
  <1>5. ASSUME NEW t \in Threads, InsPush(t) PROVE MarksGrow
    BY <1>5, PushFrame DEF InsPush
  <1>6. ASSUME NEW t \in Threads, MoveUnlink(t), UNCHANGED added PROVE MarksGrow
    BY <1>6 DEF MoveUnlink, UnlinkIn
  <1>7. ASSUME NEW t \in Threads, Move(t) PROVE MarksGrow
    BY <1>7 DEF Move
  <1>8. ASSUME NEW t \in Threads, LoopHead(t) PROVE MarksGrow
    BY <1>8 DEF LoopHead
  <1>9. ASSUME NEW t \in Threads, LoopNext(t) PROVE MarksGrow
    BY <1>9 DEF LoopNext
  <1>10. ASSUME NEW t \in Threads, LoopEnd(t) PROVE MarksGrow
    BY <1>10 DEF LoopEnd
  <1>11. ASSUME NEW t \in Threads, CollaborativeReturn(t) PROVE MarksGrow
    BY <1>11 DEF CollaborativeReturn
  <1>12. ASSUME NEW t \in Threads, PopHead(t) PROVE MarksGrow
    BY <1>12 DEF PopHead
  <1>13. ASSUME NEW t \in Threads, PopNext(t) PROVE MarksGrow
    BY <1>13 DEF PopNext
  <1>14. ASSUME NEW t \in Threads, PopCas(t) PROVE MarksGrow
    BY <1>14, PopFrame DEF PopCas
  <1>15. ASSUME NEW t \in Threads, Unlink(t), UNCHANGED added PROVE MarksGrow
    BY <1>15 DEF Unlink, UnlinkIn
  <1>16. ASSUME NEW t \in Threads, Insert(t), UNCHANGED added PROVE MarksGrow
    BY <1>16 DEF Insert, DrawMark
  <1>17. ASSUME NEW t \in Threads, FlushRead(t), UNCHANGED added PROVE MarksGrow
    BY <1>17 DEF FlushRead
  <1>18. ASSUME NEW t \in Threads, FlushCas(t), UNCHANGED added PROVE MarksGrow
    BY <1>18 DEF FlushCas
  <1>19. ASSUME NEW t \in Threads, EnqueueReturn(t), UNCHANGED added PROVE MarksGrow
    BY <1>19 DEF EnqueueReturn
  <1>20. ASSUME NEW t \in Threads, NBDequeueCall(t) PROVE MarksGrow
    BY <1>20 DEF NBDequeueCall, DequeueCall, Queued
  <1>21. ASSUME NEW t \in Threads, DeqRead(t), UNCHANGED added PROVE MarksGrow
    BY <1>21 DEF DeqRead
  <1>22. ASSUME NEW t \in Threads, DeqScan(t), UNCHANGED added PROVE MarksGrow
    BY <1>22 DEF DeqScan, Firsts, Bucket
  <1>23. ASSUME NEW t \in Threads, DeqMark(t), UNCHANGED added PROVE MarksGrow
    BY <1>23 DEF DeqMark
  <1>24. ASSUME NEW t \in Threads, DeqMarkFails(t), UNCHANGED added PROVE MarksGrow
    BY <1>24 DEF DeqMarkFails
  <1>25. ASSUME NEW t \in Threads, DeqNextBucket(t), UNCHANGED added PROVE MarksGrow
    BY <1>25 DEF DeqNextBucket
  <1>26. ASSUME NEW t \in Threads, DeqAdvance(t), UNCHANGED added PROVE MarksGrow
    BY <1>26 DEF DeqAdvance, DrawMark
  <1>27. ASSUME NEW t \in Threads, DequeueReturn(t), UNCHANGED added PROVE MarksGrow
    BY <1>27 DEF DequeueReturn
  <1>28. ASSUME NEW t \in Threads, DeqTableEnd(t) PROVE MarksGrow
    BY <1>28 DEF DeqTableEnd
  <1>29. ASSUME NEW t \in Threads, DeqFutureHead(t) PROVE MarksGrow
    BY <1>29 DEF DeqFutureHead
  <1>30. ASSUME NEW t \in Threads, DeqFutureNext(t) PROVE MarksGrow
    BY <1>30 DEF DeqFutureNext
  <1>31. ASSUME NEW t \in Threads, ExpandCheck(t) PROVE MarksGrow
    BY <1>31 DEF ExpandCheck
  <1>32. ASSUME NEW t \in Threads, ExpandFuture(t) PROVE MarksGrow
    BY <1>32 DEF ExpandFuture
  <1>33. ASSUME NEW t \in Threads, ExpandAlloc(t) PROVE MarksGrow
    BY <1>33 DEF ExpandAlloc
  <1>34. ASSUME NEW t \in Threads, ExpandTodo(t) PROVE MarksGrow
    BY <1>34 DEF ExpandTodo
  <1>35. ASSUME NEW t \in Threads, ExpandTodoCas(t) PROVE MarksGrow
    BY <1>35 DEF ExpandTodoCas
  <1>36. ASSUME NEW t \in Threads, ExpandNewFuture(t) PROVE MarksGrow
    BY <1>36 DEF ExpandNewFuture
  <1>37. ASSUME NEW t \in Threads, ExpandMarkHead(t) PROVE MarksGrow
    BY <1>37 DEF ExpandMarkHead
  <1>38. ASSUME NEW t \in Threads, ExpandMarkNext(t) PROVE MarksGrow
    BY <1>38 DEF ExpandMarkNext
  <1>39. ASSUME NEW t \in Threads, ExpandMarkCas(t) PROVE MarksGrow
    BY <1>39 DEF ExpandMarkCas
  <1>40. ASSUME NEW t \in Threads, ExpandSize(t) PROVE MarksGrow
    BY <1>40 DEF ExpandSize
  <1>41. CASE UNCHANGED allVars
    BY <1>41 DEF allVars, vars
  <1> HIDE DEF MarksGrow
  <1> QED
    BY <1>2, <1>3, <1>4, <1>5, <1>6, <1>7, <1>8, <1>9, <1>10, <1>11, <1>12, <1>13, <1>14, <1>15,
       <1>16, <1>17, <1>18, <1>19, <1>20, <1>21, <1>22, <1>23, <1>24, <1>25, <1>26, <1>27, <1>28, <1>29,
       <1>30, <1>31, <1>32, <1>33, <1>34, <1>35, <1>36, <1>37, <1>38, <1>39, <1>40, <1>41
       DEF NBNext, NBCall, NBStep, NBEnqueueStep, InsertStep, TodoStep,
           NBDequeueStep, ExpandStep, Unchanged

\* A mark drawn stays drawn.
LEMMA NBDrawnStays ==
  ASSUME GrowInv, [NBNext]_allVars, NEW m, Drawn(m)
  PROVE  Drawn(m)'
  <1>1. PICK p \in Threads : \E k \in 0 .. marks[p] - 1 : m = GenerateMark(p, k)
    BY DEF Drawn
  <1>2. PICK k \in 0 .. marks[p] - 1 : m = GenerateMark(p, k)
    BY <1>1
  <1>3. marks[p] \in Nat
    BY TypeParts DEF GrowInv, TypeLocals
  <1>4. k \in 0 .. marks'[p] - 1
    BY <1>2, <1>3, MarksMove DEF MarksGrow
  <1> QED
    BY <1>2, <1>4 DEF Drawn

\* The mark a thread draws next was drawn by nobody, and is not the first one.
LEMMA NBNextMarkFresh ==
  ASSUME MarksDistinct, InitMarkUndrawn, TypeLocals, NBMarksFresh, NEW t \in Threads, DrawMark(t)
  PROVE  \A m : m = NextMark(t) => ~Drawn(m) /\ Drawn(m)' /\ m # InitMark
  <1>1. marks \in [Threads -> Nat] /\ MaxMarks \in Nat /\ \A p \in Threads : marks[p] <= MaxMarks
    BY CalendarAssumption DEF TypeLocals, NBMarksFresh
  <1>2. marks[t] \in 0 .. MaxMarks - 1 /\ marks[t] \in 0 .. marks'[t] - 1
    BY <1>1 DEF DrawMark
  <1>3. ASSUME NEW p \in Threads, NEW k \in 0 .. (marks[p] - 1),
               NextMark(t) = GenerateMark(p, k)
        PROVE  FALSE
    <2>1. k \in 0 .. MaxMarks - 1
      BY <1>1
    <2>2. p = t /\ k = marks[t]
      BY <1>2, <1>3, <2>1 DEF MarksDistinct, NextMark
    <2> QED
      BY <1>1, <2>2
  <1>4. ~Drawn(NextMark(t))
    BY <1>3 DEF Drawn
  <1>5. ASSUME NEW m, m = NextMark(t) PROVE Drawn(m)'
    BY <1>2, <1>5 DEF Drawn, NextMark
  <1>6. NextMark(t) # InitMark
    BY <1>2 DEF InitMarkUndrawn, NextMark
  <1> QED
    BY <1>4, <1>5, <1>6

\* ... and so never more than a thread may draw.
LEMMA MarksBounded ==
  ASSUME GrowInv, [NBNext]_allVars, NBMarksFresh
  PROVE  \A p \in Threads : marks'[p] <= MaxMarks
  <1> SUFFICES ASSUME NEW p \in Threads PROVE marks'[p] <= MaxMarks
    OBVIOUS
  <1>1. marks[p] \in Nat /\ MaxMarks \in Nat
    BY TypeParts, CalendarAssumption DEF GrowInv, TypeLocals
  <1>2. marks[p] <= MaxMarks
    BY DEF NBMarksFresh
  <1>3. marks'[p] = marks[p] \/ (marks'[p] = marks[p] + 1 /\ marks[p] < MaxMarks)
    BY MarksMove DEF MarksGrow
  <1> QED
    BY <1>1, <1>2, <1>3

\* A step after which no thread holds a cursor it did not hold before, but for
\* copies of current.
CursorsQuiet ==
  /\ current' = current
  /\ \A u \in Threads : pc'[u] \in Flushing => pc[u] \in Flushing /\ newCur'[u] = newCur[u]
  /\ \A u \in Threads : Watching(u)' => oldCur'[u] = current \/ (Watching(u) /\ oldCur'[u] = oldCur[u])

\* Such a step spoils no mark.
LEMMA QuietMarksFresh ==
  ASSUME GrowInv, [NBNext]_allVars, NBMarksFresh, CursorsQuiet
  PROVE  NBMarksFresh'
  <1>1. \A p \in Threads : marks'[p] <= MaxMarks
    BY MarksBounded
  <1>2. \A m : Drawn(m) => Drawn(m)'
    BY NBDrawnStays
  <1>3. current'.mark = InitMark \/ Drawn(current.mark)'
    BY <1>2 DEF CursorsQuiet, NBMarksFresh
  <1>4. \A u \in Threads : Watching(u)' => oldCur'[u].mark = InitMark \/ Drawn(oldCur[u].mark)'
    <2> SUFFICES ASSUME NEW u \in Threads, Watching(u)'
                 PROVE oldCur'[u].mark = InitMark \/ Drawn(oldCur[u].mark)'
      OBVIOUS
    <2>1. oldCur'[u].mark = InitMark \/ Drawn(oldCur'[u].mark)
      BY DEF CursorsQuiet, NBMarksFresh
    <2>2. \A m : m = oldCur'[u].mark /\ Drawn(m) => Drawn(oldCur[u].mark)'
      BY <1>2 DEF Drawn
    <2> QED
      BY <2>1, <2>2
  <1>5. ASSUME NEW t \in Threads, pc'[t] \in Flushing
        PROVE  /\ Drawn(newCur[t].mark)'
               /\ current'.mark # newCur'[t].mark
               /\ \A u \in Threads : Watching(u)' => oldCur'[u].mark # newCur'[t].mark
               /\ \A u \in Threads \ {t} : pc'[u] \in Flushing => newCur'[u].mark # newCur'[t].mark
    <2>1. pc[t] \in Flushing /\ newCur'[t] = newCur[t] /\ Drawn(newCur[t].mark)
      BY <1>5 DEF CursorsQuiet, NBMarksFresh
    <2>2. \A m : m = newCur[t].mark => Drawn(m)'
      BY <1>2, <2>1
    <2>3. Drawn(newCur[t].mark)'
      BY <2>1, <2>2 DEF Drawn
    <2> QED
      BY <2>1, <2>3 DEF CursorsQuiet, NBMarksFresh
  <1> QED
    BY <1>1, <1>3, <1>4, <1>5 DEF NBMarksFresh

\* Outside the growth of the table a thread holds no size.
LEMMA NotGrowing ==
  ASSUME GrowInv, NEW t \in Threads, pc[t] \in Labels
  PROVE  old_size[t] = 0
  BY DEF GrowInv, ExpandersKnow, Expander, Labels, InsertLabels, TodoLabels, OpenLabels,
         MarkLabels

\* Marks move in flush_current() and in the advance of a dequeue() only.
LEMMA CursorWriters ==
  ASSUME GrowInv, [NBNext]_allVars
  PROVE  CursorsQuiet \/ \E t \in Threads : UNCHANGED added /\ (Insert(t) \/ FlushCas(t) \/ DeqAdvance(t))
  <1>1. TypePc /\ TypeLocals
    BY TypeParts DEF GrowInv
  <1> USE <1>1
      DEF CursorsQuiet, Watching, Looking, Flushing, TypePc, TypeLocals, shared, locals,
             history, locals2, added, Goto, Set, Forget
  <1>2. ASSUME NEW t \in Threads, NEW n \in Nodes, NEW ts \in Timestamps, NBEnqueueCall(t, n, ts)
        PROVE CursorsQuiet
    BY <1>2 DEF NBEnqueueCall, AllocateNode
  <1>3. ASSUME NEW t \in Threads, InsHead(t) PROVE CursorsQuiet
    BY <1>3 DEF InsHead
  <1>4. ASSUME NEW t \in Threads, InsNext(t) PROVE CursorsQuiet
    BY <1>4 DEF InsNext
  <1>5. ASSUME NEW t \in Threads, InsPush(t) PROVE CursorsQuiet
    BY <1>5 DEF InsPush
  <1>6. ASSUME NEW t \in Threads, MoveUnlink(t), UNCHANGED added PROVE CursorsQuiet
    BY <1>6 DEF MoveUnlink, UnlinkIn
  <1>7. ASSUME NEW t \in Threads, Move(t) PROVE CursorsQuiet
    BY <1>7 DEF Move
  <1>8. ASSUME NEW t \in Threads, LoopHead(t) PROVE CursorsQuiet
    BY <1>8 DEF LoopHead
  <1>9. ASSUME NEW t \in Threads, LoopNext(t) PROVE CursorsQuiet
    BY <1>9 DEF LoopNext
  <1>10. ASSUME NEW t \in Threads, LoopEnd(t) PROVE CursorsQuiet
    BY <1>10 DEF LoopEnd
  <1>11. ASSUME NEW t \in Threads, CollaborativeReturn(t) PROVE CursorsQuiet
    BY <1>11 DEF CollaborativeReturn
  <1>12. ASSUME NEW t \in Threads, PopHead(t) PROVE CursorsQuiet
    BY <1>12 DEF PopHead
  <1>13. ASSUME NEW t \in Threads, PopNext(t) PROVE CursorsQuiet
    BY <1>13 DEF PopNext
  <1>14. ASSUME NEW t \in Threads, PopCas(t) PROVE CursorsQuiet
    BY <1>14 DEF PopCas
  <1>15. ASSUME NEW t \in Threads, Unlink(t), UNCHANGED added PROVE CursorsQuiet
    BY <1>15 DEF Unlink, UnlinkIn
  <1>16. ASSUME NEW t \in Threads, FlushRead(t), UNCHANGED added PROVE CursorsQuiet
    BY <1>16 DEF FlushRead
  <1>17. ASSUME NEW t \in Threads, EnqueueReturn(t), UNCHANGED added PROVE CursorsQuiet
    BY <1>17 DEF EnqueueReturn
  <1>18. ASSUME NEW t \in Threads, NBDequeueCall(t) PROVE CursorsQuiet
    BY <1>18 DEF NBDequeueCall, DequeueCall, Queued
  <1>19. ASSUME NEW t \in Threads, DeqRead(t), UNCHANGED added PROVE CursorsQuiet
    BY <1>19 DEF DeqRead
  <1>20. ASSUME NEW t \in Threads, DeqScan(t), UNCHANGED added PROVE CursorsQuiet
    BY <1>20 DEF DeqScan, Firsts, Bucket
  <1>21. ASSUME NEW t \in Threads, DeqMark(t), UNCHANGED added PROVE CursorsQuiet
    BY <1>21, NotGrowing DEF DeqMark, Labels
  <1>22. ASSUME NEW t \in Threads, DeqMarkFails(t), UNCHANGED added PROVE CursorsQuiet
    BY <1>22, NotGrowing DEF DeqMarkFails, Labels
  <1>23. ASSUME NEW t \in Threads, DeqNextBucket(t), UNCHANGED added PROVE CursorsQuiet
    BY <1>23 DEF DeqNextBucket
  <1>24. ASSUME NEW t \in Threads, DequeueReturn(t), UNCHANGED added PROVE CursorsQuiet
    BY <1>24 DEF DequeueReturn
  <1>25. ASSUME NEW t \in Threads, DeqTableEnd(t) PROVE CursorsQuiet
    BY <1>25 DEF DeqTableEnd
  <1>26. ASSUME NEW t \in Threads, DeqFutureHead(t) PROVE CursorsQuiet
    BY <1>26 DEF DeqFutureHead
  <1>27. ASSUME NEW t \in Threads, DeqFutureNext(t) PROVE CursorsQuiet
    BY <1>27 DEF DeqFutureNext
  <1>28. ASSUME NEW t \in Threads, ExpandCheck(t) PROVE CursorsQuiet
    BY <1>28, ExpanderOld DEF ExpandCheck
  <1>29. ASSUME NEW t \in Threads, ExpandFuture(t) PROVE CursorsQuiet
    BY <1>29 DEF ExpandFuture
  <1>30. ASSUME NEW t \in Threads, ExpandAlloc(t) PROVE CursorsQuiet
    BY <1>30 DEF ExpandAlloc
  <1>31. ASSUME NEW t \in Threads, ExpandTodo(t) PROVE CursorsQuiet
    BY <1>31 DEF ExpandTodo
  <1>32. ASSUME NEW t \in Threads, ExpandTodoCas(t) PROVE CursorsQuiet
    BY <1>32 DEF ExpandTodoCas
  <1>33. ASSUME NEW t \in Threads, ExpandNewFuture(t) PROVE CursorsQuiet
    BY <1>33 DEF ExpandNewFuture
  <1>34. ASSUME NEW t \in Threads, ExpandMarkHead(t) PROVE CursorsQuiet
    BY <1>34 DEF ExpandMarkHead
  <1>35. ASSUME NEW t \in Threads, ExpandMarkNext(t) PROVE CursorsQuiet
    BY <1>35 DEF ExpandMarkNext
  <1>36. ASSUME NEW t \in Threads, ExpandMarkCas(t) PROVE CursorsQuiet
    BY <1>36 DEF ExpandMarkCas
  <1>37. ASSUME NEW t \in Threads, ExpandSize(t) PROVE CursorsQuiet
    BY <1>37, ExpanderOld DEF ExpandSize
  <1>38. CASE UNCHANGED allVars
    BY <1>38 DEF allVars, vars
  <1> HIDE DEF CursorsQuiet
  <1> QED
    BY <1>2, <1>3, <1>4, <1>5, <1>6, <1>7, <1>8, <1>9, <1>10, <1>11, <1>12, <1>13, <1>14, <1>15,
       <1>16, <1>17, <1>18, <1>19, <1>20, <1>21, <1>22, <1>23, <1>24, <1>25, <1>26, <1>27, <1>28, <1>29,
       <1>30, <1>31, <1>32, <1>33, <1>34, <1>35, <1>36, <1>37, <1>38
       DEF NBNext, NBCall, NBStep, NBEnqueueStep, InsertStep, TodoStep,
           NBDequeueStep, ExpandStep, Unchanged

\* The mark of a new node's flush is fresh.
LEMMA InsertMarksFresh ==
  ASSUME MarksDistinct, InitMarkUndrawn, GrowInv, [NBNext]_allVars, NBMarksFresh,
         NEW t \in Threads, Insert(t), UNCHANGED added
  PROVE  NBMarksFresh'
  <1>1. TypePc /\ TypeLocals
    BY TypeParts DEF GrowInv
  <1>2. PICK m : m = NextMark(t)
    OBVIOUS
  <1>3. ~Drawn(m) /\ Drawn(m)' /\ m # InitMark
    BY <1>1, <1>2, NBNextMarkFresh DEF Insert
  <1>4. /\ current' = current /\ oldCur' = oldCur /\ old_size' = old_size
        /\ newCur'[t].mark = m /\ \A u \in Threads \ {t} : newCur'[u] = newCur[u]
        /\ pc' = [pc EXCEPT ![t] = "flush_read"] /\ pc[t] = "insert"
    BY <1>1, <1>2 DEF Insert, Goto, shared, added, locals2, TypeLocals
  <1>5. \A k : Drawn(k) => Drawn(k)'
    BY NBDrawnStays
  <1>6. \A u \in Threads : Watching(u)' => Watching(u)
    BY <1>1, <1>4 DEF Watching, Looking, TypePc
  <1>7. \A u \in Threads \ {t} : pc'[u] \in Flushing => pc[u] \in Flushing
    BY <1>1, <1>4 DEF TypePc
  <1>8. \A p \in Threads : marks'[p] <= MaxMarks
    BY MarksBounded
  <1>9. current'.mark = InitMark \/ Drawn(current.mark)'
    BY <1>4, <1>5 DEF NBMarksFresh
  <1>10. \A u \in Threads : Watching(u)' => oldCur'[u].mark = InitMark \/ Drawn(oldCur[u].mark)'
    <2> SUFFICES ASSUME NEW u \in Threads, Watching(u)', oldCur[u].mark # InitMark
                 PROVE Drawn(oldCur[u].mark)'
      BY <1>4
    <2>1. Drawn(oldCur[u].mark)
      BY <1>6 DEF NBMarksFresh
    <2>2. \A k : k = oldCur'[u].mark /\ Drawn(k) => Drawn(oldCur[u].mark)'
      BY <1>5 DEF Drawn
    <2> QED
      BY <1>4, <2>1, <2>2
  <1>11. current.mark # m /\ \A u \in Threads : Watching(u)' => oldCur'[u].mark # m
    BY <1>3, <1>4, <1>6 DEF NBMarksFresh
  <1>12. \A u \in Threads \ {t} : pc'[u] \in Flushing => newCur'[u].mark # m
    BY <1>3, <1>4, <1>7 DEF NBMarksFresh
  <1>13. ASSUME NEW u \in Threads, pc'[u] \in Flushing
         PROVE  /\ Drawn(newCur[u].mark)'
                /\ current'.mark # newCur'[u].mark
                /\ \A w \in Threads : Watching(w)' => oldCur'[w].mark # newCur'[u].mark
                /\ \A w \in Threads \ {u} : pc'[w] \in Flushing => newCur'[w].mark # newCur'[u].mark
    <2>1. CASE u = t
      <3>1. Drawn(newCur[u].mark)'
        BY <1>3, <1>4, <2>1 DEF Drawn
      <3> QED
        BY <1>4, <1>11, <1>12, <2>1, <3>1
    <2>2. CASE u # t
      <3>1. pc[u] \in Flushing /\ newCur'[u] = newCur[u] /\ Drawn(newCur[u].mark) /\ newCur'[u].mark # m
        BY <1>4, <1>7, <1>12, <1>13, <2>2 DEF NBMarksFresh
      <3>2. Drawn(newCur[u].mark)'
        <4>1. \A k : k = newCur[u].mark => Drawn(k)'
          BY <1>5, <3>1
        <4> QED
          BY <3>1, <4>1 DEF Drawn
      <3>3. current'.mark # newCur'[u].mark
        BY <1>4, <3>1 DEF NBMarksFresh
      <3>4. \A w \in Threads : Watching(w)' => oldCur'[w].mark # newCur'[u].mark
        BY <1>4, <1>6, <3>1 DEF NBMarksFresh
      <3>5. \A w \in Threads \ {u} : pc'[w] \in Flushing => newCur'[w].mark # newCur'[u].mark
        BY <1>4, <1>7, <3>1 DEF NBMarksFresh
      <3> QED
        BY <3>2, <3>3, <3>4, <3>5
    <2> QED
      BY <2>1, <2>2
  <1> QED
    BY <1>8, <1>9, <1>10, <1>13 DEF NBMarksFresh

\* A flush or an advance writes a mark no thread holds, and spoils nothing.
LEMMA WriteMarksFresh ==
  ASSUME MarksDistinct, InitMarkUndrawn, GrowInv, [NBNext]_allVars, NBMarksFresh,
         NEW t \in Threads, FlushCas(t) \/ DeqAdvance(t), UNCHANGED added
  PROVE  NBMarksFresh'
  <1>1. TypePc /\ TypeLocals
    BY TypeParts DEF GrowInv
  <1>2. old_size'[t] = 0
    BY NotGrowing DEF FlushCas, DeqAdvance, Labels, added, locals2
  <1>3. /\ \A u \in Threads \ {t} : pc'[u] = pc[u] /\ oldCur'[u] = oldCur[u] /\ newCur'[u] = newCur[u]
        /\ old_size' = old_size
    BY <1>1 DEF FlushCas, DeqAdvance, Goto, Forget, TypePc, TypeLocals, added, locals2
  <1>4. ~Watching(t)' /\ (pc'[t] \in Flushing => pc[t] \in Flushing /\ newCur'[t] = newCur[t])
    BY <1>1, <1>2 DEF FlushCas, DeqAdvance, Goto, Forget, TypePc, TypeLocals, Watching,
           Looking, Flushing
  <1>5. CASE current' = current
    <2>1. CursorsQuiet
      BY <1>3, <1>4, <1>5 DEF CursorsQuiet, Watching
    <2> QED
      BY <2>1, QuietMarksFresh
  <1>6. CASE current' # current
    <2>1. /\ Drawn(current.mark)'
          /\ \A u \in Threads : pc'[u] \in Flushing => newCur'[u].mark # current'.mark
      <3>1. CASE FlushCas(t)
        <4>1. current' = newCur[t] /\ pc[t] \in Flushing /\ pc'[t] = "enqueued"
          BY <1>1, <1>6, <3>1 DEF FlushCas, Flushing, Goto, TypePc
        <4>2. \A k : k = newCur[t].mark => Drawn(k)'
          BY <4>1, NBDrawnStays DEF NBMarksFresh
        <4>3. Drawn(current.mark)'
          BY <4>1, <4>2 DEF Drawn
        <4>4. \A u \in Threads : pc'[u] \in Flushing => u # t
          BY <4>1 DEF Flushing
        <4> QED
          BY <1>3, <4>1, <4>3, <4>4 DEF NBMarksFresh
      <3>2. CASE DeqAdvance(t)
        <4>1. PICK m : m = NextMark(t)
          OBVIOUS
        <4>2. ~Drawn(m) /\ Drawn(m)'
          BY <1>1, <3>2, <4>1, NBNextMarkFresh DEF DeqAdvance
        <4>3. current'.mark = m
          BY <1>6, <3>2, <4>1 DEF DeqAdvance
        <4>4. Drawn(current.mark)'
          BY <4>2, <4>3 DEF Drawn
        <4> QED
          BY <1>3, <1>4, <4>2, <4>3, <4>4 DEF NBMarksFresh
      <3> QED
        BY <3>1, <3>2
    <2>2. \A k : Drawn(k) => Drawn(k)'
      BY NBDrawnStays
    <2>3. \A p \in Threads : marks'[p] <= MaxMarks
      <3>1. \A p \in Threads : marks[p] \in Nat
        BY <1>1 DEF TypeLocals
      <3> QED
        BY <3>1, MarksMove, CalendarAssumption DEF NBMarksFresh, MarksGrow
    <2>4. \A u \in Threads : Watching(u)' => Watching(u) /\ oldCur'[u] = oldCur[u]
      BY <1>3, <1>4 DEF Watching
    <2>5. \A u \in Threads : pc'[u] \in Flushing => pc[u] \in Flushing /\ newCur'[u] = newCur[u]
      BY <1>3, <1>4
    <2>6. ASSUME NEW u \in Threads, Watching(u)'
          PROVE oldCur'[u].mark = InitMark \/ Drawn(oldCur[u].mark)'
      <3>1. oldCur[u].mark = InitMark \/ Drawn(oldCur[u].mark)
        BY <2>4, <2>6 DEF NBMarksFresh
      <3>2. \A k : k = oldCur'[u].mark /\ Drawn(k) => Drawn(oldCur[u].mark)'
        BY <2>2 DEF Drawn
      <3> QED
        BY <2>4, <2>6, <3>1, <3>2
    <2>7. ASSUME NEW u \in Threads, pc'[u] \in Flushing
          PROVE  /\ Drawn(newCur[u].mark)'
                 /\ \A w \in Threads : Watching(w)' => oldCur'[w].mark # newCur'[u].mark
                 /\ \A w \in Threads \ {u} : pc'[w] \in Flushing => newCur'[w].mark # newCur'[u].mark
      <3>1. pc[u] \in Flushing /\ newCur'[u] = newCur[u] /\ Drawn(newCur[u].mark)
        BY <2>5, <2>7 DEF NBMarksFresh
      <3>2. \A k : k = newCur[u].mark => Drawn(k)'
        BY <2>2, <3>1
      <3>3. Drawn(newCur[u].mark)'
        BY <3>1, <3>2 DEF Drawn
      <3> QED
        BY <2>4, <2>5, <3>1, <3>3 DEF NBMarksFresh
    <2> QED
      BY <2>1, <2>3, <2>6, <2>7 DEF NBMarksFresh
  <1> QED
    BY <1>5, <1>6

\* Every step keeps the marks of flushes apart from those of cursors.
LEMMA NBMarksStep ==
  ASSUME MarksDistinct, InitMarkUndrawn, GrowInv, [NBNext]_allVars, NBMarksFresh
  PROVE  NBMarksFresh'
  BY CursorWriters, QuietMarksFresh, InsertMarksFresh, WriteMarksFresh

\* A step that settles no node in a bucket, leaves current where it is and ends
\* no scan.
CoverQuiet ==
  /\ current' = current
  /\ \A n \in Nodes : place'[n] = "bucket" => place[n] = "bucket"
  /\ late' = late
  /\ \A u \in Threads : pc[u] \in Flushing => pc'[u] \in Flushing /\ node'[u] = node[u]
  /\ \A u \in Threads : PassedScan(u)' /\ oldCur'[u] = current => PassedScan(u) /\ oldCur'[u] = oldCur[u]

\* Such a step leaves nothing behind the cursor.
LEMMA QuietCovered ==
  ASSUME GrowInv, [NBNext]_allVars, TableCovered, StaleAdvanceHarmless, CoverQuiet
  PROVE  TableCovered' /\ StaleAdvanceHarmless'
  <1>1. \A n \in Nodes : Settling(n)' => Settling(n)
    BY DEF Settling, Pending, CoverQuiet
  <1>2. \A n \in Nodes : Settling(n) => timestamp'[n] = timestamp[n]
    BY UsedStays DEF Settling
  <1>3. TableCovered'
    BY <1>1, <1>2 DEF TableCovered, CoverQuiet
  <1>4. StaleAdvanceHarmless'
    <2>1. SUFFICES ASSUME NEW u \in Threads, PassedScan(u)', oldCur'[u] = current', NEW n \in Nodes, Settling(n)'
                   PROVE  BucketOf(timestamp'[n]) # current'.index
      BY DEF StaleAdvanceHarmless
    <2>2. PassedScan(u) /\ oldCur[u] = current /\ Settling(n) /\ timestamp'[n] = timestamp[n] /\ current' = current
      BY <1>1, <1>2, <2>1 DEF CoverQuiet
    <2> QED
      BY <2>2 DEF StaleAdvanceHarmless
  <1> QED
    BY <1>3, <1>4

\* The steps that may settle a node, move current or end a scan.
LEMMA CoverWriters ==
  ASSUME GrowInv, [NBNext]_allVars
  PROVE  CoverQuiet \/ (\E t \in Threads : Move(t)) \/
         \E t \in Threads : UNCHANGED added /\
           (Insert(t) \/ FlushRead(t) \/ FlushCas(t) \/ DeqAdvance(t) \/ DeqScan(t))
  <1>1. TypePc /\ TypeLocals /\ TypeNodes
    BY TypeParts DEF GrowInv
  <1> USE <1>1
      DEF CoverQuiet, PassedScan, Flushing, TypePc, TypeLocals, TypeNodes, shared, nodes,
             locals, history, locals2, added, Goto, Set, Forget
  <1>2. ASSUME NEW t \in Threads, NEW n \in Nodes, NEW ts \in Timestamps, NBEnqueueCall(t, n, ts)
        PROVE CoverQuiet
    BY <1>2 DEF NBEnqueueCall, AllocateNode
  <1>3. ASSUME NEW t \in Threads, InsHead(t) PROVE CoverQuiet
    BY <1>3 DEF InsHead
  <1>4. ASSUME NEW t \in Threads, InsNext(t) PROVE CoverQuiet
    BY <1>4 DEF InsNext
  <1>5. ASSUME NEW t \in Threads, InsPush(t) PROVE CoverQuiet
    <2>1. UNCHANGED <<current, late, node, oldCur, old_size>> /\ pc[t] = "ins_push"
      BY <1>5, PushFrame
    <2>2. \/ place' = [place EXCEPT ![NodeInHand(t)] = "future"] /\ pc' = [pc EXCEPT ![t] = IF old_size[t] # 0 THEN "todo_head" ELSE "enqueued"]
          \/ UNCHANGED place /\ pc' = [pc EXCEPT ![t] = "ins_head"]
      BY <1>5, PushDoes
    <2>3. \A u \in Threads : pc[u] \in Flushing => pc'[u] \in Flushing
      BY <2>1, <2>2
    <2>4. \A u \in Threads : PassedScan(u)' => PassedScan(u)
      BY <2>1, <2>2
    <2> QED
      BY <2>1, <2>2, <2>3, <2>4
  <1>6. ASSUME NEW t \in Threads, MoveUnlink(t), UNCHANGED added PROVE CoverQuiet
    BY <1>6 DEF MoveUnlink, UnlinkIn
  <1>7. ASSUME NEW t \in Threads, LoopHead(t) PROVE CoverQuiet
    BY <1>7 DEF LoopHead
  <1>8. ASSUME NEW t \in Threads, LoopNext(t) PROVE CoverQuiet
    BY <1>8 DEF LoopNext
  <1>9. ASSUME NEW t \in Threads, LoopEnd(t) PROVE CoverQuiet
    BY <1>9 DEF LoopEnd
  <1>10. ASSUME NEW t \in Threads, CollaborativeReturn(t) PROVE CoverQuiet
    BY <1>10 DEF CollaborativeReturn
  <1>11. ASSUME NEW t \in Threads, PopHead(t) PROVE CoverQuiet
    BY <1>11 DEF PopHead
  <1>12. ASSUME NEW t \in Threads, PopNext(t) PROVE CoverQuiet
    BY <1>12 DEF PopNext
  <1>13. ASSUME NEW t \in Threads, PopCas(t) PROVE CoverQuiet
    <2>1. UNCHANGED <<current, late, node, oldCur, old_size>> /\ pc[t] = "pop_cas"
      BY <1>13, PopFrame
    <2>2. /\ place' = [place EXCEPT ![first[t]] = "carried"] \/ UNCHANGED place
          /\ pc' = [pc EXCEPT ![t] = "ins_head"] \/ pc' = [pc EXCEPT ![t] = "pop_next"]
      BY <1>13, PopDoes
    <2>3. \A u \in Threads : pc[u] \in Flushing => pc'[u] \in Flushing
      BY <2>1, <2>2
    <2>4. \A u \in Threads : PassedScan(u)' => PassedScan(u)
      BY <2>1, <2>2
    <2> QED
      BY <2>1, <2>2, <2>3, <2>4
  <1>14. ASSUME NEW t \in Threads, Unlink(t), UNCHANGED added PROVE CoverQuiet
    BY <1>14 DEF Unlink, UnlinkIn
  <1>15. ASSUME NEW t \in Threads, EnqueueReturn(t), UNCHANGED added PROVE CoverQuiet
    BY <1>15 DEF EnqueueReturn
  <1>16. ASSUME NEW t \in Threads, NBDequeueCall(t) PROVE CoverQuiet
    BY <1>16 DEF NBDequeueCall, DequeueCall, Queued
  <1>17. ASSUME NEW t \in Threads, DeqRead(t), UNCHANGED added PROVE CoverQuiet
    BY <1>17, NotGrowing DEF DeqRead, Labels
  <1>18. ASSUME NEW t \in Threads, DeqMark(t), UNCHANGED added PROVE CoverQuiet
    BY <1>18, NotGrowing DEF DeqMark, Labels
  <1>19. ASSUME NEW t \in Threads, DeqMarkFails(t), UNCHANGED added PROVE CoverQuiet
    BY <1>19, NotGrowing DEF DeqMarkFails, Labels
  <1>20. ASSUME NEW t \in Threads, DeqNextBucket(t), UNCHANGED added PROVE CoverQuiet
    BY <1>20 DEF DeqNextBucket
  <1>21. ASSUME NEW t \in Threads, DequeueReturn(t), UNCHANGED added PROVE CoverQuiet
    BY <1>21, NotGrowing DEF DequeueReturn, Labels
  <1>22. ASSUME NEW t \in Threads, DeqTableEnd(t) PROVE CoverQuiet
    BY <1>22 DEF DeqTableEnd
  <1>23. ASSUME NEW t \in Threads, DeqFutureHead(t) PROVE CoverQuiet
    BY <1>23 DEF DeqFutureHead
  <1>24. ASSUME NEW t \in Threads, DeqFutureNext(t) PROVE CoverQuiet
    BY <1>24 DEF DeqFutureNext
  <1>25. ASSUME NEW t \in Threads, ExpandCheck(t) PROVE CoverQuiet
    BY <1>25, ExpanderOld DEF ExpandCheck
  <1>26. ASSUME NEW t \in Threads, ExpandFuture(t) PROVE CoverQuiet
    BY <1>26 DEF ExpandFuture
  <1>27. ASSUME NEW t \in Threads, ExpandAlloc(t) PROVE CoverQuiet
    BY <1>27 DEF ExpandAlloc
  <1>28. ASSUME NEW t \in Threads, ExpandTodo(t) PROVE CoverQuiet
    BY <1>28 DEF ExpandTodo
  <1>29. ASSUME NEW t \in Threads, ExpandTodoCas(t) PROVE CoverQuiet
    BY <1>29 DEF ExpandTodoCas
  <1>30. ASSUME NEW t \in Threads, ExpandNewFuture(t) PROVE CoverQuiet
    BY <1>30 DEF ExpandNewFuture
  <1>31. ASSUME NEW t \in Threads, ExpandMarkHead(t) PROVE CoverQuiet
    BY <1>31 DEF ExpandMarkHead
  <1>32. ASSUME NEW t \in Threads, ExpandMarkNext(t) PROVE CoverQuiet
    BY <1>32 DEF ExpandMarkNext
  <1>33. ASSUME NEW t \in Threads, ExpandMarkCas(t) PROVE CoverQuiet
    BY <1>33 DEF ExpandMarkCas
  <1>34. ASSUME NEW t \in Threads, ExpandSize(t) PROVE CoverQuiet
    BY <1>34, ExpanderOld DEF ExpandSize
  <1>35. CASE UNCHANGED allVars
    BY <1>35 DEF allVars, vars
  <1> HIDE DEF CoverQuiet
  <1> QED
    BY <1>2, <1>3, <1>4, <1>5, <1>6, <1>7, <1>8, <1>9, <1>10, <1>11, <1>12, <1>13, <1>14, <1>15,
       <1>16, <1>17, <1>18, <1>19, <1>20, <1>21, <1>22, <1>23, <1>24, <1>25, <1>26, <1>27, <1>28, <1>29,
       <1>30, <1>31, <1>32, <1>33, <1>34, <1>35
       DEF NBNext, NBCall, NBStep, NBEnqueueStep, InsertStep, TodoStep,
           NBDequeueStep, ExpandStep, Unchanged

\* What the thread is doing when it flushes, moves a node or ends a scan.
LEMMA CoverKnows ==
  ASSUME GrowInv, NEW t \in Threads
  PROVE  /\ current \in Cursors /\ current.index \in Nat /\ current.mark \in Nat
         /\ dequeue_size \in Nat /\ current.index < dequeue_size
         /\ oldCur[t].index \in Nat /\ newCur[t].index \in Nat
         /\ pc[t] \in Flushing => node[t] \in Nodes /\ newCur[t].index = BucketOf(timestamp[node[t]])
         /\ pc[t] = "flush_cas" => newCur[t].index <= oldCur[t].index
         /\ \A n \in Nodes : BucketOf(timestamp[n]) \in Nat
  BY TypeParts, SizesKnown, CursorFields, BucketOfNat
     DEF GrowInv, CursorInside, CursorOf, TypeTable, TypeLocals, TypeNodes

\* A new node is not behind the cursor as long as its flush is to come.
LEMMA InsertCovered ==
  ASSUME GrowInv, [NBNext]_allVars, TableCovered, StaleAdvanceHarmless,
         NEW t \in Threads, Insert(t), UNCHANGED added
  PROVE  TableCovered' /\ StaleAdvanceHarmless'
  <1>1. TypePc /\ TypeNodes /\ TypeLocals
    BY TypeParts DEF GrowInv
  <1>2. /\ current' = current /\ timestamp' = timestamp /\ late' = late /\ node' = node /\ oldCur' = oldCur
        /\ old_size' = old_size /\ place' = [place EXCEPT ![node[t]] = "bucket"] /\ pc' = [pc EXCEPT ![t] = "flush_read"]
        /\ pc[t] = "insert"
    BY DEF Insert, Goto, shared, added, locals2
  <1>3. pc'[t] \in Flushing /\ \A u \in Threads : pc[u] \in Flushing => pc'[u] \in Flushing
    BY <1>1, <1>2 DEF TypePc, Flushing
  <1>4. \A n \in Nodes : Settling(n)' => Settling(n)
    BY <1>1, <1>2, <1>3 DEF Settling, Pending, TypeNodes
  <1>5. \A u \in Threads : PassedScan(u)' => PassedScan(u)
    BY <1>1, <1>2 DEF PassedScan, TypePc
  <1>6. TableCovered'
    BY <1>2, <1>4 DEF TableCovered
  <1>7. StaleAdvanceHarmless'
    BY <1>2, <1>4, <1>5 DEF StaleAdvanceHarmless
  <1> QED
    BY <1>6, <1>7

\* flush_current() ends without a CAS only if current is below the node.
LEMMA FlushReadCovered ==
  ASSUME GrowInv, [NBNext]_allVars, TableCovered, StaleAdvanceHarmless,
         NEW t \in Threads, FlushRead(t), UNCHANGED added
  PROVE  TableCovered' /\ StaleAdvanceHarmless'
  <1>1. TypePc /\ TypeNodes /\ TypeLocals
    BY TypeParts DEF GrowInv
  <1>2. /\ UNCHANGED <<current, place, timestamp, late, node, old_size>> /\ pc[t] = "flush_read" /\ old_size[t] = 0
        /\ pc' = [pc EXCEPT ![t] = "flush_cas"] \/ (pc' = [pc EXCEPT ![t] = "enqueued"] /\ ~(newCur[t].index <= current.index))
        /\ \A u \in Threads \ {t} : oldCur'[u] = oldCur[u]
    BY <1>1, NotGrowing DEF FlushRead, Goto, shared, nodes, added, locals2, TypeLocals, Labels
  <1>3. current.index < BucketOf(timestamp[node[t]]) \/ pc' = [pc EXCEPT ![t] = "flush_cas"]
    BY <1>2, CoverKnows DEF Flushing
  <1>4. \A n \in Nodes : Settling(n)' => Settling(n) \/ current.index < BucketOf(timestamp[n])
    <2>1. \A u \in Threads \ {t} : pc[u] \in Flushing => pc'[u] \in Flushing
      BY <1>1, <1>2 DEF TypePc
    <2>2. pc'[t] \in Flushing \/ current.index < BucketOf(timestamp[node[t]])
      BY <1>1, <1>3 DEF TypePc, Flushing
    <2> QED
      BY <1>2, <2>1, <2>2 DEF Settling, Pending
  <1>5. \A u \in Threads : PassedScan(u)' => PassedScan(u) /\ oldCur'[u] = oldCur[u]
    BY <1>1, <1>2 DEF PassedScan, TypePc
  <1>6. \A n \in Nodes : BucketOf(timestamp[n]) \in Nat /\ current.index \in Nat
    BY CoverKnows
  <1>7. TableCovered'
    BY <1>2, <1>4, <1>6 DEF TableCovered
  <1>8. StaleAdvanceHarmless'
    BY <1>2, <1>4, <1>5, <1>6 DEF StaleAdvanceHarmless
  <1> QED
    BY <1>7, <1>8

\* The CAS of flush_current() takes the cursor down to the node, with a mark
\* that no dequeue() is watching.
LEMMA FlushCasCovered ==
  ASSUME GrowInv, [NBNext]_allVars, NBMarksFresh, TableCovered, StaleAdvanceHarmless,
         NEW t \in Threads, FlushCas(t), UNCHANGED added
  PROVE  TableCovered' /\ StaleAdvanceHarmless'
  <1>1. TypePc /\ TypeNodes /\ TypeLocals
    BY TypeParts DEF GrowInv
  <1>2. /\ UNCHANGED <<place, timestamp, late, node, old_size>> /\ pc[t] = "flush_cas" /\ old_size[t] = 0
        /\ \A u \in Threads \ {t} : oldCur'[u] = oldCur[u] /\ pc'[u] = pc[u]
    BY <1>1, NotGrowing DEF FlushCas, Goto, Forget, nodes, added, locals2, TypeLocals,
           TypePc, Labels
  <1>3. \A u \in Threads : PassedScan(u)' => PassedScan(u) /\ oldCur'[u] = oldCur[u] /\ u # t
    <2>1. pc'[t] \in {"enqueued", "flush_read"}
      BY <1>1 DEF FlushCas, Goto, TypePc
    <2> QED
      BY <1>2, <2>1 DEF PassedScan
  <1>4. CASE current = oldCur[t]
    <2>1. current' = newCur[t] /\ pc'[t] = "enqueued"
      BY <1>1, <1>4 DEF FlushCas, Goto, TypePc
    <2>2. newCur[t].index = BucketOf(timestamp[node[t]]) /\ newCur[t].index <= current.index
      BY <1>2, <1>4, CoverKnows DEF Flushing
    <2>3. \A n \in Nodes : Settling(n)' => Settling(n) \/ n = node[t]
      BY <1>2, <2>1 DEF Settling, Pending
    <2>4. \A n \in Nodes : BucketOf(timestamp[n]) \in Nat /\ current.index \in Nat /\ newCur[t].index \in Nat
      BY CoverKnows
    <2>5. TableCovered'
      <3>1. SUFFICES ASSUME NEW n \in Nodes, Settling(n) \/ n = node[t]
                     PROVE  newCur[t].index <= BucketOf(timestamp[n])
        BY <1>2, <2>1, <2>3 DEF TableCovered
      <3>2. CASE n = node[t]
        BY <2>2, <2>4, <3>2
      <3>3. CASE Settling(n)
        BY <2>2, <2>4, <3>3 DEF TableCovered
      <3> QED
        BY <3>1, <3>2, <3>3
    <2>6. \A u \in Threads : PassedScan(u)' => oldCur'[u] # current'
      <3>1. \A u \in Threads : PassedScan(u) => Watching(u)
        BY DEF PassedScan, Watching, Looking
      <3> QED
        BY <1>2, <1>3, <2>1, <3>1 DEF NBMarksFresh, Flushing
    <2> QED
      BY <2>5, <2>6 DEF StaleAdvanceHarmless
  <1>5. CASE current # oldCur[t]
    <2>1. current' = current /\ pc'[t] = "flush_read"
      BY <1>1, <1>5 DEF FlushCas, Goto, TypePc
    <2>2. \A n \in Nodes : Settling(n)' => Settling(n)
      BY <1>2, <2>1 DEF Settling, Pending, Flushing
    <2>3. TableCovered'
      BY <1>2, <2>1, <2>2 DEF TableCovered
    <2>4. StaleAdvanceHarmless'
      BY <1>2, <1>3, <2>1, <2>2 DEF StaleAdvanceHarmless
    <2> QED
      BY <2>3, <2>4
  <1> QED
    BY <1>4, <1>5

\* A dequeue() advances the cursor past a bucket it found empty.
LEMMA AdvanceCovered ==
  ASSUME MarksDistinct, InitMarkUndrawn, GrowInv, [NBNext]_allVars, NBMarksFresh, TableCovered, StaleAdvanceHarmless,
         NEW t \in Threads, DeqAdvance(t), UNCHANGED added
  PROVE  TableCovered' /\ StaleAdvanceHarmless'
  <1>1. TypePc /\ TypeNodes /\ TypeLocals
    BY TypeParts DEF GrowInv
  <1>2. /\ UNCHANGED <<place, timestamp, late, node, old_size>> /\ pc[t] = "advance" /\ old_size[t] = 0
        /\ pc' = [pc EXCEPT ![t] = "deq_read"]
        /\ \A u \in Threads \ {t} : oldCur'[u] = oldCur[u]
    BY <1>1, NotGrowing DEF DeqAdvance, Goto, Forget, nodes, added, locals2, TypeLocals,
           TypePc, Labels
  <1>3. \A u \in Threads : PassedScan(u)' => PassedScan(u) /\ oldCur'[u] = oldCur[u] /\ u # t
    BY <1>1, <1>2 DEF PassedScan, TypePc
  <1>4. \A n \in Nodes : Settling(n)' <=> Settling(n)
    BY <1>1, <1>2 DEF Settling, Pending, Flushing, TypePc
  <1>5. PICK m : m = NextMark(t)
    OBVIOUS
  <1>6. ~Drawn(m) /\ m # InitMark
    BY <1>1, <1>5, NBNextMarkFresh DEF DeqAdvance
  <1>7. CASE current = oldCur[t]
    <2>1. current' = [index |-> current.index + 1, mark |-> m]
      BY <1>5, <1>7 DEF DeqAdvance
    <2>2. ASSUME NEW n \in Nodes, Settling(n) PROVE current.index + 1 <= BucketOf(timestamp[n])
      <3>1. BucketOf(timestamp[n]) # current.index /\ current.index <= BucketOf(timestamp[n])
        BY <1>2, <1>7, <2>2 DEF TableCovered, StaleAdvanceHarmless, PassedScan
      <3>2. BucketOf(timestamp[n]) \in Nat /\ current.index \in Nat
        BY CoverKnows
      <3> QED
        BY ONLY <3>1, <3>2
    <2>3. TableCovered'
      BY <1>2, <1>4, <2>1, <2>2 DEF TableCovered
    <2>4. \A u \in Threads : PassedScan(u)' => oldCur'[u] # current'
      <3>1. \A u \in Threads : PassedScan(u) => Watching(u)
        BY DEF PassedScan, Watching, Looking
      <3> QED
        BY <1>3, <1>6, <2>1, <3>1 DEF NBMarksFresh
    <2> QED
      BY <2>3, <2>4 DEF StaleAdvanceHarmless
  <1>8. CASE current # oldCur[t]
    <2>1. current' = current
      BY <1>8 DEF DeqAdvance
    <2>2. TableCovered'
      BY <1>2, <1>4, <2>1 DEF TableCovered
    <2>3. StaleAdvanceHarmless'
      BY <1>2, <1>3, <1>4, <2>1 DEF StaleAdvanceHarmless
    <2> QED
      BY <2>2, <2>3
  <1> QED
    BY <1>7, <1>8

\* A scan that reaches the tail has seen an empty bucket.
LEMMA ScanCovered ==
  ASSUME GrowInv, [NBNext]_allVars, TableCovered, StaleAdvanceHarmless,
         NEW t \in Threads, DeqScan(t), UNCHANGED added
  PROVE  TableCovered' /\ StaleAdvanceHarmless'
  <1>1. TypePc /\ TypeNodes /\ TypeLocals
    BY TypeParts DEF GrowInv
  <1>2. /\ UNCHANGED <<current, place, timestamp, late, oldCur, old_size>> /\ pc[t] = "scan" /\ old_size[t] = 0
        /\ \A u \in Threads \ {t} : node'[u] = node[u] /\ pc'[u] = pc[u]
        /\ pc'[t] = "mark" \/ (pc'[t] = "tail" /\ Bucket(oldCur[t].index) = {})
    BY <1>1, NotGrowing DEF DeqScan, Goto, shared, nodes, added, locals2, TypeLocals,
           TypePc, Labels
  <1>3. \A n \in Nodes : Settling(n)' <=> Settling(n)
    BY <1>2 DEF Settling, Pending, Flushing
  <1>4. TableCovered'
    BY <1>2, <1>3 DEF TableCovered
  <1>5. StaleAdvanceHarmless'
    <2>1. SUFFICES ASSUME NEW u \in Threads, PassedScan(u)', oldCur[u] = current, NEW n \in Nodes, Settling(n)
                   PROVE  BucketOf(timestamp[n]) # current.index
      BY <1>2, <1>3 DEF StaleAdvanceHarmless
    <2>2. CASE u = t
      BY <1>2, <2>1, <2>2 DEF PassedScan, Bucket, Settling
    <2>3. CASE u # t
      BY <1>2, <2>1, <2>3 DEF PassedScan, StaleAdvanceHarmless
    <2> QED
      BY <2>2, <2>3
  <1> QED
    BY <1>4, <1>5

\* A re-inserted node is late, or beyond the buckets the cursor may visit.
LEMMA MoveCovered ==
  ASSUME GrowInv, [NBNext]_allVars, TableCovered, StaleAdvanceHarmless, NEW t \in Threads, Move(t)
  PROVE  TableCovered' /\ StaleAdvanceHarmless'
  <1>1. TypePc /\ TypeNodes /\ TypeLocals
    BY TypeParts DEF GrowInv
  <1>2. /\ UNCHANGED <<current, timestamp, oldCur, old_size, node, dequeue_size>> /\ pc[t] = "move"
        /\ place' = [place EXCEPT ![carried[t]] = "bucket"]
        /\ pc' = [pc EXCEPT ![t] = IF old_size[t] # 0 THEN "todo_head" ELSE "enqueued"]
        /\ late' = IF IndexInHand(t) < dequeue_size THEN late \cup {carried[t]} ELSE late
    BY DEF Move, Goto, shared, locals
  <1>3. carried[t] \in Nodes /\ IndexInHand(t) = BucketOf(timestamp[carried[t]])
    BY <1>2, InHand, CalendarAssumption DEF IndexInHand, NodeInHand
  <1>4. \A u \in Threads : (pc[u] \in Flushing => pc'[u] \in Flushing) /\ (PassedScan(u)' => PassedScan(u))
    BY <1>1, <1>2 DEF PassedScan, Flushing, TypePc
  <1>5. \A n \in Nodes : BucketOf(timestamp[n]) \in Nat /\ current.index \in Nat /\ dequeue_size \in Nat
                         /\ current.index < dequeue_size
    BY CoverKnows
  <1>6. \A n \in Nodes : Settling(n)' => Settling(n) \/ current.index < BucketOf(timestamp[n])
    <2>1. SUFFICES ASSUME NEW n \in Nodes, Settling(n)', ~Settling(n)
                   PROVE current.index < BucketOf(timestamp[n])
      OBVIOUS
    <2>2. n = carried[t] /\ n \notin late'
      BY <1>1, <1>2, <1>4, <2>1 DEF Settling, Pending, TypeNodes
    <2>3. ~(BucketOf(timestamp[n]) < dequeue_size)
      BY <1>2, <1>3, <2>2
    <2> QED
      BY <1>5, <2>3
  <1>7. TableCovered'
    BY <1>2, <1>5, <1>6 DEF TableCovered
  <1>8. StaleAdvanceHarmless'
    BY <1>2, <1>4, <1>5, <1>6 DEF StaleAdvanceHarmless
  <1> QED
    BY <1>7, <1>8

\* No step leaves a settled node behind the cursor, nor makes a stale advance harmful.
LEMMA NBCoveredStep ==
  ASSUME MarksDistinct, InitMarkUndrawn, GrowInv, [NBNext]_allVars, NBMarksFresh, TableCovered, StaleAdvanceHarmless
  PROVE  TableCovered' /\ StaleAdvanceHarmless'
  BY CoverWriters, QuietCovered, InsertCovered, FlushReadCovered, FlushCasCovered,
     AdvanceCovered,
     ScanCovered, MoveCovered

\* A step in which no enqueue() starts or ends.
SettleQuiet ==
  /\ settled' = settled
  /\ \A u \in Threads : InEnqueue(u)' => InEnqueue(u) /\ node'[u] = node[u]

\* Such a step settles nothing.
LEMMA QuietSettled ==
  ASSUME GrowInv, [NBNext]_allVars, SettledDone, SettleQuiet
  PROVE  SettledDone'
  <1>1. settled \subseteq Nodes /\ \A u \in Threads : InEnqueue(u) => node[u] \in Nodes
    BY TypeParts DEF GrowInv, TypeNodes, HandsOk, NewOk
  <1>2. \A n \in Nodes : place[n] # "unused" => place'[n] # "unused"
    BY UsedStays
  <1>3. \A t \in Threads : InEnqueue(t)' => node'[t] \notin settled' /\ place'[node'[t]] # "unused"
    BY <1>1, <1>2 DEF SettleQuiet, SettledDone
  <1>4. \A t, u \in Threads : InEnqueue(t)' /\ InEnqueue(u)' /\ node'[t] = node'[u] => t = u
    BY DEF SettleQuiet, SettledDone
  <1>5. \A n \in settled' : place'[n] # "unused"
    BY <1>1, <1>2 DEF SettleQuiet, SettledDone
  <1> QED
    BY <1>3, <1>4, <1>5 DEF SettledDone

\* An enqueue() starts with a new node and ends with a settled one.
LEMMA SettleWriters ==
  ASSUME GrowInv, [NBNext]_allVars
  PROVE  SettleQuiet \/ (\E t \in Threads : EnqueueReturn(t) /\ UNCHANGED added)
         \/ (\E t \in Threads : CollaborativeReturn(t)) \/
         \E t \in Threads, n \in Nodes, ts \in Timestamps : NBEnqueueCall(t, n, ts)
  <1>1. TypePc /\ TypeLocals
    BY TypeParts DEF GrowInv
  <1> USE <1>1
      DEF SettleQuiet, InEnqueue, Enqueuing, InsertLabels, TodoLabels, TypePc, TypeLocals,
             shared, nodes, locals, history, locals2, added, Goto, Set, Forget
  <1>2. ASSUME NEW t \in Threads, InsHead(t) PROVE SettleQuiet
    BY <1>2 DEF InsHead
  <1>3. ASSUME NEW t \in Threads, InsNext(t) PROVE SettleQuiet
    <2>1. UNCHANGED <<settled, node, old_size>> /\ pc[t] = "ins_next"
      BY <1>3 DEF InsNext
    <2>2. carried[t] = NoNode => old_size[t] = 0
      BY <2>1 DEF GrowInv, HandsOk, NewOk, Inserting
    <2>3. pc' = [pc EXCEPT ![t] = "ins_head"] \/ pc' = [pc EXCEPT ![t] = "ins_push"]
          \/ pc' = [pc EXCEPT ![t] = "move"] \/ (old_size[t] = 0 /\ pc' = [pc EXCEPT ![t] = "insert"])
      BY <1>3, <2>2 DEF InsNext
    <2>4. \A u \in Threads : InEnqueue(u)' => InEnqueue(u)
      BY <2>1, <2>3
    <2> QED
      BY <2>1, <2>4
  <1>4. ASSUME NEW t \in Threads, InsPush(t) PROVE SettleQuiet
    <2>1. UNCHANGED <<settled, node, old_size>> /\ pc[t] = "ins_push"
      BY <1>4, PushFrame
    <2>2. pc' = [pc EXCEPT ![t] = IF old_size[t] # 0 THEN "todo_head" ELSE "enqueued"] \/ pc' = [pc EXCEPT ![t] = "ins_head"]
      BY <1>4, PushDoes
    <2>3. \A u \in Threads : InEnqueue(u)' => InEnqueue(u)
      BY <2>1, <2>2
    <2> QED
      BY <2>1, <2>3
  <1>5. ASSUME NEW t \in Threads, MoveUnlink(t), UNCHANGED added PROVE SettleQuiet
    BY <1>5 DEF MoveUnlink, UnlinkIn
  <1>6. ASSUME NEW t \in Threads, Move(t) PROVE SettleQuiet
    BY <1>6 DEF Move
  <1>7. ASSUME NEW t \in Threads, LoopHead(t) PROVE SettleQuiet
    <2>1. InEnqueue(t)' => InEnqueue(t)
      BY <1>7 DEF LoopHead
    <2> QED
      BY <1>7, <2>1 DEF LoopHead
  <1>8. ASSUME NEW t \in Threads, LoopNext(t) PROVE SettleQuiet
    BY <1>8 DEF LoopNext
  <1>9. ASSUME NEW t \in Threads, LoopEnd(t) PROVE SettleQuiet
    BY <1>9 DEF LoopEnd
  <1>10. ASSUME NEW t \in Threads, PopHead(t) PROVE SettleQuiet
    BY <1>10 DEF PopHead
  <1>11. ASSUME NEW t \in Threads, PopNext(t) PROVE SettleQuiet
    BY <1>11 DEF PopNext
  <1>12. ASSUME NEW t \in Threads, PopCas(t) PROVE SettleQuiet
    <2>1. UNCHANGED <<settled, node, old_size>> /\ pc[t] = "pop_cas"
      BY <1>12, PopFrame
    <2>2. pc' = [pc EXCEPT ![t] = "ins_head"] \/ pc' = [pc EXCEPT ![t] = "pop_next"]
      BY <1>12, PopDoes
    <2>3. \A u \in Threads : InEnqueue(u)' => InEnqueue(u)
      BY <2>1, <2>2
    <2> QED
      BY <2>1, <2>3
  <1>13. ASSUME NEW t \in Threads, Unlink(t), UNCHANGED added PROVE SettleQuiet
    BY <1>13 DEF Unlink, UnlinkIn
  <1>14. ASSUME NEW t \in Threads, Insert(t), UNCHANGED added PROVE SettleQuiet
    BY <1>14 DEF Insert, DrawMark
  <1>15. ASSUME NEW t \in Threads, FlushRead(t), UNCHANGED added PROVE SettleQuiet
    BY <1>15 DEF FlushRead
  <1>16. ASSUME NEW t \in Threads, FlushCas(t), UNCHANGED added PROVE SettleQuiet
    BY <1>16 DEF FlushCas
  <1>17. ASSUME NEW t \in Threads, NBDequeueCall(t) PROVE SettleQuiet
    BY <1>17 DEF NBDequeueCall, DequeueCall, Queued
  <1>18. ASSUME NEW t \in Threads, DeqRead(t), UNCHANGED added PROVE SettleQuiet
    BY <1>18 DEF DeqRead
  <1>19. ASSUME NEW t \in Threads, DeqScan(t), UNCHANGED added PROVE SettleQuiet
    BY <1>19 DEF DeqScan, Firsts, Bucket
  <1>20. ASSUME NEW t \in Threads, DeqMark(t), UNCHANGED added PROVE SettleQuiet
    BY <1>20 DEF DeqMark
  <1>21. ASSUME NEW t \in Threads, DeqMarkFails(t), UNCHANGED added PROVE SettleQuiet
    BY <1>21 DEF DeqMarkFails
  <1>22. ASSUME NEW t \in Threads, DeqNextBucket(t), UNCHANGED added PROVE SettleQuiet
    BY <1>22 DEF DeqNextBucket
  <1>23. ASSUME NEW t \in Threads, DeqAdvance(t), UNCHANGED added PROVE SettleQuiet
    BY <1>23 DEF DeqAdvance, DrawMark
  <1>24. ASSUME NEW t \in Threads, DequeueReturn(t), UNCHANGED added PROVE SettleQuiet
    BY <1>24 DEF DequeueReturn
  <1>25. ASSUME NEW t \in Threads, DeqTableEnd(t) PROVE SettleQuiet
    BY <1>25 DEF DeqTableEnd
  <1>26. ASSUME NEW t \in Threads, DeqFutureHead(t) PROVE SettleQuiet
    BY <1>26 DEF DeqFutureHead
  <1>27. ASSUME NEW t \in Threads, DeqFutureNext(t) PROVE SettleQuiet
    BY <1>27 DEF DeqFutureNext
  <1>28. ASSUME NEW t \in Threads, ExpandCheck(t) PROVE SettleQuiet
    BY <1>28 DEF ExpandCheck
  <1>29. ASSUME NEW t \in Threads, ExpandFuture(t) PROVE SettleQuiet
    BY <1>29 DEF ExpandFuture
  <1>30. ASSUME NEW t \in Threads, ExpandAlloc(t) PROVE SettleQuiet
    BY <1>30 DEF ExpandAlloc
  <1>31. ASSUME NEW t \in Threads, ExpandTodo(t) PROVE SettleQuiet
    BY <1>31 DEF ExpandTodo
  <1>32. ASSUME NEW t \in Threads, ExpandTodoCas(t) PROVE SettleQuiet
    BY <1>32 DEF ExpandTodoCas
  <1>33. ASSUME NEW t \in Threads, ExpandNewFuture(t) PROVE SettleQuiet
    BY <1>33 DEF ExpandNewFuture
  <1>34. ASSUME NEW t \in Threads, ExpandMarkHead(t) PROVE SettleQuiet
    BY <1>34 DEF ExpandMarkHead
  <1>35. ASSUME NEW t \in Threads, ExpandMarkNext(t) PROVE SettleQuiet
    BY <1>35, ExpanderOld DEF ExpandMarkNext, MarkLabels
  <1>36. ASSUME NEW t \in Threads, ExpandMarkCas(t) PROVE SettleQuiet
    BY <1>36, ExpanderOld DEF ExpandMarkCas, MarkLabels
  <1>37. ASSUME NEW t \in Threads, ExpandSize(t) PROVE SettleQuiet
    BY <1>37 DEF ExpandSize
  <1>38. CASE UNCHANGED allVars
    BY <1>38 DEF allVars, vars
  <1> HIDE DEF SettleQuiet
  <1> QED
    BY <1>2, <1>3, <1>4, <1>5, <1>6, <1>7, <1>8, <1>9, <1>10, <1>11, <1>12, <1>13, <1>14, <1>15,
       <1>16, <1>17, <1>18, <1>19, <1>20, <1>21, <1>22, <1>23, <1>24, <1>25, <1>26, <1>27, <1>28, <1>29,
       <1>30, <1>31, <1>32, <1>33, <1>34, <1>35, <1>36, <1>37, <1>38
       DEF NBNext, NBCall, NBStep, NBEnqueueStep, InsertStep, TodoStep,
           NBDequeueStep, ExpandStep, Unchanged

\* A new enqueue() has a node no other call knows.
LEMMA CallSettled ==
  ASSUME GrowInv, [NBNext]_allVars, SettledDone,
         NEW t \in Threads, NEW n \in Nodes, NEW ts \in Timestamps, NBEnqueueCall(t, n, ts)
  PROVE  SettledDone'
  <1>1. TypePc /\ TypeLocals /\ TypeNodes
    BY TypeParts DEF GrowInv
  <1>2. /\ pc[t] = "idle" /\ place[n] = "unused" /\ UNCHANGED <<settled, old_size>>
        /\ pc' = [pc EXCEPT ![t] = "ins_head"] /\ node' = [node EXCEPT ![t] = n] /\ place' = [place EXCEPT ![n] = "held"]
    BY DEF NBEnqueueCall, AllocateNode, Goto, added, locals2, history
  <1>3. \A u \in Threads \ {t} : InEnqueue(u)' <=> InEnqueue(u) /\ node'[u] = node[u]
    BY <1>1, <1>2 DEF InEnqueue, TypePc, TypeLocals
  <1>4. node'[t] = n /\ n \notin settled /\ \A u \in Threads : InEnqueue(u) => node[u] \in Nodes /\ node[u] # n
    BY <1>1, <1>2 DEF SettledDone, TypeLocals, GrowInv, HandsOk, NewOk
  <1>5. \A u \in Threads \ {t} : InEnqueue(u)' => InEnqueue(u) /\ node'[u] = node[u]
    BY <1>3
  <1>6. \A u \in Threads : InEnqueue(u)' => node'[u] \notin settled' /\ place'[node'[u]] # "unused"
    <2>1. SUFFICES ASSUME NEW u \in Threads, InEnqueue(u)'
                   PROVE node'[u] \notin settled' /\ place'[node'[u]] # "unused"
      OBVIOUS
    <2>2. CASE u = t
      BY <1>1, <1>2, <1>4, <2>2 DEF TypeNodes
    <2>3. CASE u # t
      BY <1>1, <1>2, <1>4, <1>5, <2>1, <2>3 DEF TypeNodes, SettledDone
    <2> QED
      BY <2>2, <2>3
  <1>7. \A u, w \in Threads : InEnqueue(u)' /\ InEnqueue(w)' /\ node'[u] = node'[w] => u = w
    <2>1. SUFFICES ASSUME NEW u \in Threads, NEW w \in Threads, InEnqueue(u)', InEnqueue(w)', node'[u] = node'[w], u # w
                   PROVE  FALSE
      OBVIOUS
    <2>2. CASE u = t \/ w = t
      BY <1>4, <1>5, <2>1, <2>2
    <2>3. CASE u # t /\ w # t
      BY <1>5, <2>1, <2>3 DEF SettledDone
    <2> QED
      BY <2>2, <2>3
  <1>8. \A m \in settled' : place'[m] # "unused"
    BY <1>1, <1>2, <1>4 DEF SettledDone, TypeNodes
  <1> QED
    BY <1>6, <1>7, <1>8 DEF SettledDone

\* The node of an enqueue() that returns is settled, and nobody else's.
LEMMA ReturnSettled ==
  ASSUME GrowInv, [NBNext]_allVars, SettledDone, NEW t \in Threads, EnqueueReturn(t) \/ CollaborativeReturn(t),
         EnqueueReturn(t) => UNCHANGED added
  PROVE  SettledDone'
  <1>1. TypePc /\ TypeLocals /\ TypeNodes
    BY TypeParts DEF GrowInv
  <1>2. /\ UNCHANGED <<place, old_size>> /\ settled' = settled \cup {node[t]}
        /\ pc' = [pc EXCEPT ![t] = "idle"] /\ node' = [node EXCEPT ![t] = NoNode]
        /\ InEnqueue(t)
    BY DEF EnqueueReturn, CollaborativeReturn, Goto, Set, added, locals2, nodes, InEnqueue,
           Enqueuing, TodoLabels
  <1>3. \A u \in Threads : InEnqueue(u)' => u # t /\ InEnqueue(u) /\ node'[u] = node[u]
    BY <1>1, <1>2 DEF InEnqueue, Enqueuing, InsertLabels, TodoLabels, TypePc, TypeLocals
  <1>4. \A u \in Threads : InEnqueue(u)' => node'[u] \notin settled' /\ place'[node'[u]] # "unused"
    BY <1>2, <1>3 DEF SettledDone
  <1>5. \A u, w \in Threads : InEnqueue(u)' /\ InEnqueue(w)' /\ node'[u] = node'[w] => u = w
    BY <1>3 DEF SettledDone
  <1>6. \A m \in settled' : place'[m] # "unused"
    BY <1>2 DEF SettledDone
  <1> QED
    BY <1>4, <1>5, <1>6 DEF SettledDone

\* Every step keeps what is known of the events whose enqueue() has returned.
LEMMA SettledStep ==
  ASSUME GrowInv, [NBNext]_allVars, SettledDone
  PROVE  SettledDone'
  <1>1. (\E t \in Threads : EnqueueReturn(t) /\ UNCHANGED added) \/ (\E t \in Threads : CollaborativeReturn(t)) \/ SettleQuiet
        \/ \E t \in Threads, n \in Nodes, ts \in Timestamps : NBEnqueueCall(t, n, ts)
    BY SettleWriters
  <1>2. \A t \in Threads : CollaborativeReturn(t) => ~EnqueueReturn(t)
    BY DEF CollaborativeReturn, EnqueueReturn
  <1> QED
    BY <1>1, <1>2, QuietSettled, CallSettled, ReturnSettled

\* The initial states satisfy the invariant.
LEMMA NBIndInit == NBInit => NBIndInv
  <1> SUFFICES ASSUME NBInit PROVE NBIndInv
    OBVIOUS
  <1>1. GrowInv
    BY GrowInit
  <1>2. NBMarksFresh
    BY CalendarAssumption DEF NBInit, Init, NBMarksFresh, Watching, Looking, Flushing
  <1>3. TableCovered /\ StaleAdvanceHarmless
    BY DEF NBInit, Init, TableCovered, StaleAdvanceHarmless, Settling, PassedScan
  <1>4. SettledDone
    BY DEF NBInit, Init, SettledDone, InEnqueue, Enqueuing, InsertLabels, TodoLabels
  <1> QED
    BY <1>1, <1>2, <1>3, <1>4 DEF NBIndInv

\* Every step keeps the invariant, as long as the marks are distinct.
LEMMA NBIndStep == MarksDistinct /\ InitMarkUndrawn /\ NBIndInv /\ [NBNext]_allVars => NBIndInv'
  BY GrowStep, NBMarksStep, NBCoveredStep, SettledStep DEF NBIndInv

\* The invariant of the whole queue while it grows.
THEOREM NBInvariance == ASSUME MarksDistinct, InitMarkUndrawn PROVE NBSpec => []NBIndInv
  <1>1. NBInit => NBIndInv
    BY NBIndInit
  <1>2. NBIndInv /\ [NBNext]_allVars => NBIndInv'
    BY NBIndStep
  <1> QED
    BY <1>1, <1>2, PTL DEF NBSpec

\* While the table grows, no event is left behind the cursor except one that an
\* expansion re-inserted too late.
THEOREM StrandedOnlyLate == ASSUME MarksDistinct, InitMarkUndrawn
                            PROVE NBSpec => []OnlyLateStranded
  <1>1. NBIndInv => OnlyLateStranded
    <2> SUFFICES ASSUME NBIndInv, NEW n \in settled \ late, place[n] = "bucket"
                 PROVE  current.index <= BucketOf(timestamp[n])
      BY DEF OnlyLateStranded
    <2>1. n \in Nodes
      BY TypeParts DEF NBIndInv, GrowInv, TypeNodes
    <2>2. ~Pending(n)
      <3>1. \A t \in Threads : pc[t] \in Flushing => InEnqueue(t)
        BY DEF Flushing, InEnqueue, Enqueuing
      <3> QED
        BY <3>1 DEF NBIndInv, SettledDone, Pending
    <2> QED
      BY <2>1, <2>2 DEF NBIndInv, TableCovered, Settling
  <1> QED
    BY <1>1, NBInvariance, PTL

\* Without a thread of lid 0, and while the mask cuts nothing, no mark is InitMark.
LEMMA MarksAboveInit == ASSUME NoMarkLost, 0 \notin Threads PROVE InitMarkUndrawn
  <1> SUFFICES ASSUME NEW t \in Threads, NEW k \in 0 .. MaxMarks - 1, GenerateMark(t, k) = InitMark
               PROVE  FALSE
    BY DEF InitMarkUndrawn
  <1>1. t \in Nat /\ k \in Nat /\ MarkRange \in Nat \ {0}
    BY CalendarAssumption
  <1>2. Cantor(t, k) \in Nat /\ Cantor(t, k) < MarkRange
    BY <1>1, CantorNat DEF NoMarkLost
  <1>3. Cantor(t, k) = Cantor(0, 0)
    <2>1. Cantor(t, k) = 0
      <3>1. \A m \in Nat : m < MarkRange => m % MarkRange = m
        BY <1>1
      <3> QED
        BY <1>2, <3>1 DEF GenerateMark, InitMark
    <2>2. Cantor(0, 0) = 0
      BY DEF Cantor, Triangle
    <2> QED
      BY <2>1, <2>2
  <1>4. t = 0
    BY <1>1, <1>3, CantorInjective
  <1> QED
    BY <1>4

\* With lids from 1 on and marks below 2^32, the queue strands no event but those
\* an expansion re-inserted too late.
THEOREM StrandedOnlyLateFromLidOne == ASSUME NoMarkLost, 0 \notin Threads
                                      PROVE  NBSpec => []OnlyLateStranded
  BY MarksAboveInit, MarksStayDistinct, StrandedOnlyLate
-----------------------------------------------------------------------------
\* One thread at most dequeues, and no enqueue() helps to empty the to-do list.
SoleConsumer == ~Collaborative /\ \A t, u \in Consumers : t = u

\* Where a dequeue() looks for an event in the table.
Seeking == {"deq_read", "scan", "mark", "tail", "advance"}

\* The steps of a growth up to the publication of the segment.
BeforeSegment == {"fut_head", "fut_next", "ex_check", "ex_future", "ex_alloc"}

\* What a thread does tells what it holds: only the consumer looks for events,
\* grows the table and pops nodes, and a node in a thread's hands is the new
\* one of an enqueue(), a candidate or an answer.
RoleOf(t) ==
  /\ pc[t] \in Seeking \/ old_size[t] # 0 => t \in Consumers
  /\ pc[t] \in TodoLabels \/ carried[t] # NoNode => old_size[t] # 0
  /\ ~InEnqueue(t) /\ pc[t] \notin {"mark", "answered"} => node[t] = NoNode
  /\ pc[t] \in {"fut_head", "fut_next"} => old_size[t] <= oldCur[t].index + 1
  /\ pc[t] \in Flushing \cup {"enqueued"} => place[node[t]] # "held"
  /\ pc[t] = "answered" /\ node[t] # NoNode => place[node[t]] # "unused"
  /\ before[t] \subseteq settled

\* The size that the consumer grows the table from is the present one.
SoleGrower == \A t \in Threads : old_size[t] # 0 => old_size[t] = dequeue_size

\* The table is larger than dequeue_size only while the consumer makes it so.
SegmentKnown ==
  table_size # dequeue_size =>
    \E t \in Threads : old_size[t] # 0 /\ pc[t] \notin BeforeSegment

\* A popped node belongs beyond what a dequeue may visit, so none is late.
CarriedAhead ==
  /\ \A t \in Threads : carried[t] # NoNode => dequeue_size <= BucketOf(timestamp[carried[t]])
  /\ late = {}

\* No event is in a bucket beyond the table.
BucketsInTable == \A n \in Nodes : place[n] = "bucket" => BucketOf(timestamp[n]) < table_size

\* What a running dequeue() knows of the events it is answerable for, and of its
\* candidate.
SoleKnows(t) ==
  /\ pc[t] = "mark" =>
       /\ place[node[t]] # "unused"
       /\ BucketOf(timestamp[node[t]]) < dequeue_size
  /\ \A y \in before[t] : place[y] = "bucket" =>
       /\ pc[t] = "scan" => oldCur[t].index <= BucketOf(timestamp[y])
       /\ PassedScan(t) => oldCur[t].index < BucketOf(timestamp[y])
       /\ pc[t] = "mark" => timestamp[node[t]] <= timestamp[y]

\* The inductive invariant of the queue with one consumer.
SoleInv ==
  /\ NBIndInv
  /\ \A t \in Threads : RoleOf(t)
  /\ SoleGrower
  /\ SegmentKnown
  /\ CarriedAhead
  /\ BucketsInTable
  /\ \A t \in Threads : SoleKnows(t)
  /\ TakenInOrder
  /\ HonestEmpty

-----------------------------------------------------------------------------
\* A step keeps what its thread holds in line with what it does.
LEMMA RoleStep ==
  ASSUME GrowInv, SettledDone, SoleConsumer, NEW t \in Threads, NBCall(t) \/ NBStep(t), RoleOf(t)
  PROVE  RoleOf(t)'
  <1>1. TypePc /\ TypeLocals /\ TypeNodes
    BY TypeParts DEF GrowInv
  <1> USE <1>1
      DEF RoleOf, SoleConsumer, Seeking, InEnqueue, Enqueuing, Flushing, InsertLabels, TodoLabels,
          TypePc, TypeLocals, TypeNodes, shared, nodes, locals, history, locals2, heads, added, Goto, Set, Forget
  <1>2. ASSUME NEW n \in Nodes, NEW ts \in Timestamps, NBEnqueueCall(t, n, ts) PROVE RoleOf(t)'
    BY <1>2, IdleKnows DEF NBEnqueueCall, AllocateNode
  <1>3. ASSUME InsHead(t) PROVE RoleOf(t)'
    BY <1>3 DEF InsHead
  <1>4. ASSUME InsNext(t) PROVE RoleOf(t)'
    BY <1>4 DEF InsNext
  <1>5. ASSUME InsPush(t) PROVE RoleOf(t)'
    BY <1>5, PushFrame, PushDoes, InHand DEF NodeInHand
  <1>6. ASSUME MoveUnlink(t), UNCHANGED added PROVE RoleOf(t)'
    BY <1>6 DEF MoveUnlink, UnlinkIn
  <1>7. ASSUME Move(t) PROVE RoleOf(t)'
    BY <1>7, InHand DEF Move, GrowInv, HandsOk, CarryOk
  <1>8. ASSUME LoopHead(t) PROVE RoleOf(t)'
    BY <1>8 DEF LoopHead
  <1>9. ASSUME LoopNext(t) PROVE RoleOf(t)'
    BY <1>9 DEF LoopNext
  <1>10. ASSUME LoopEnd(t) PROVE RoleOf(t)'
    BY <1>10 DEF LoopEnd
  <1>11. ASSUME CollaborativeReturn(t) PROVE RoleOf(t)'
    BY <1>11 DEF CollaborativeReturn
  <1>12. ASSUME PopHead(t) PROVE RoleOf(t)'
    BY <1>12 DEF PopHead
  <1>13. ASSUME PopNext(t) PROVE RoleOf(t)'
    BY <1>13 DEF PopNext
  <1>14. ASSUME PopCas(t) PROVE RoleOf(t)'
    BY <1>14, PopFrame, PopDoes
  <1>15. ASSUME Unlink(t), UNCHANGED added PROVE RoleOf(t)'
    BY <1>15 DEF Unlink, UnlinkIn
  <1>16. ASSUME Insert(t), UNCHANGED added PROVE RoleOf(t)'
    BY <1>16, InHand, NotGrowing DEF Insert, DrawMark, Labels
  <1>17. ASSUME FlushRead(t), UNCHANGED added PROVE RoleOf(t)'
    BY <1>17 DEF FlushRead
  <1>18. ASSUME FlushCas(t), UNCHANGED added PROVE RoleOf(t)'
    BY <1>18 DEF FlushCas
  <1>19. ASSUME EnqueueReturn(t), UNCHANGED added, ~Collaborative PROVE RoleOf(t)'
    BY <1>19 DEF EnqueueReturn
  <1>20. ASSUME NBDequeueCall(t) PROVE RoleOf(t)'
    BY <1>20 DEF NBDequeueCall, DequeueCall, Queued
  <1>21. ASSUME DeqRead(t), UNCHANGED added PROVE RoleOf(t)'
    BY <1>21 DEF DeqRead
  <1>22. ASSUME DeqScan(t), UNCHANGED added PROVE RoleOf(t)'
    BY <1>22 DEF DeqScan, Firsts, Bucket
  <1>23. ASSUME DeqMark(t), UNCHANGED added PROVE RoleOf(t)'
    BY <1>23 DEF DeqMark, HandsOk, ReadOk, GrowInv
  <1>24. ASSUME DeqMarkFails(t), UNCHANGED added PROVE RoleOf(t)'
    BY <1>24 DEF DeqMarkFails
  <1>25. ASSUME DeqNextBucket(t), UNCHANGED added PROVE RoleOf(t)'
    BY <1>25 DEF DeqNextBucket
  <1>26. ASSUME DeqAdvance(t), UNCHANGED added PROVE RoleOf(t)'
    BY <1>26 DEF DeqAdvance, DrawMark
  <1>27. ASSUME DequeueReturn(t), UNCHANGED added PROVE RoleOf(t)'
    BY <1>27 DEF DequeueReturn
  <1>28. ASSUME DeqTableEnd(t) PROVE RoleOf(t)'
    BY <1>28, SizesKnown, CoverKnows, NotGrowing DEF DeqTableEnd, Labels, GrowInv, HandsOk, CarryOk
  <1>29. ASSUME DeqFutureHead(t) PROVE RoleOf(t)'
    BY <1>29 DEF DeqFutureHead
  <1>30. ASSUME DeqFutureNext(t) PROVE RoleOf(t)'
    BY <1>30, ExpanderOld DEF DeqFutureNext, GrowInv, HandsOk, CarryOk
  <1>31. ASSUME ExpandCheck(t) PROVE RoleOf(t)'
    BY <1>31, ExpanderOld DEF ExpandCheck, OpenLabels, GrowInv, HandsOk, CarryOk
  <1>32. ASSUME ExpandFuture(t) PROVE RoleOf(t)'
    BY <1>32 DEF ExpandFuture
  <1>33. ASSUME ExpandAlloc(t) PROVE RoleOf(t)'
    BY <1>33 DEF ExpandAlloc
  <1>34. ASSUME ExpandTodo(t) PROVE RoleOf(t)'
    BY <1>34 DEF ExpandTodo
  <1>35. ASSUME ExpandTodoCas(t) PROVE RoleOf(t)'
    BY <1>35 DEF ExpandTodoCas
  <1>36. ASSUME ExpandNewFuture(t) PROVE RoleOf(t)'
    BY <1>36 DEF ExpandNewFuture
  <1>37. ASSUME ExpandMarkHead(t) PROVE RoleOf(t)'
    BY <1>37 DEF ExpandMarkHead
  <1>38. ASSUME ExpandMarkNext(t) PROVE RoleOf(t)'
    BY <1>38, ExpanderOld DEF ExpandMarkNext, MarkLabels
  <1>39. ASSUME ExpandMarkCas(t) PROVE RoleOf(t)'
    BY <1>39, ExpanderOld DEF ExpandMarkCas, MarkLabels
  <1>40. ASSUME ExpandSize(t) PROVE RoleOf(t)'
    BY <1>40, ExpanderOld DEF ExpandSize, GrowInv, HandsOk, CarryOk
  <1> QED
    BY <1>2, <1>3, <1>4, <1>5, <1>6, <1>7, <1>8, <1>9, <1>10, <1>11, <1>12, <1>13, <1>14,
       <1>15, <1>16, <1>17, <1>18, <1>19, <1>20, <1>21, <1>22, <1>23, <1>24, <1>25, <1>26,
       <1>27, <1>28, <1>29, <1>30, <1>31, <1>32, <1>33, <1>34, <1>35, <1>36, <1>37, <1>38,
       <1>39, <1>40
       DEF NBCall, NBStep, NBEnqueueStep, InsertStep, TodoStep, NBDequeueStep, ExpandStep, Unchanged

\* What a step may do to its thread: which steps end a scan, pick a candidate,
\* give an answer, pop a node, and change a size.
SoleMove(t) ==
  /\ old_size'[t] \in {old_size[t], 0} \/ (DeqTableEnd(t) /\ old_size'[t] = dequeue_size)
  /\ carried'[t] # NoNode => carried'[t] = carried[t] \/ PopCas(t)
  /\ old_size[t] # 0 /\ pc[t] \notin BeforeSegment =>
       ExpandSize(t) \/ (old_size'[t] # 0 /\ pc'[t] \notin BeforeSegment)
  /\ pc'[t] = "scan" => DeqRead(t)
  /\ pc'[t] = "mark" => DeqScan(t)
  /\ PassedScan(t)' => DeqScan(t) \/ (PassedScan(t) /\ oldCur'[t] = oldCur[t])
  /\ pc'[t] = "answered" => DeqMark(t) \/ (DeqFutureNext(t) /\ NoFuture(t))
  /\ before'[t] = before[t] \/ pc'[t] \in {"deq_read", "idle"}
  /\ UNCHANGED <<dequeue_size, table_size>> \/ ExpandAlloc(t) \/ ExpandSize(t)
  /\ late' = late \/ Move(t)
  /\ settled \subseteq settled'

\* Every step does no more than that to its thread.
LEMMA StepMoves ==
  ASSUME GrowInv, SoleConsumer, NEW t \in Threads, NBCall(t) \/ NBStep(t), RoleOf(t)
  PROVE  SoleMove(t)
  <1>1. TypePc /\ TypeLocals
    BY TypeParts DEF GrowInv
  <1> USE <1>1
      DEF SoleMove, RoleOf, SoleConsumer, BeforeSegment, PassedScan, InsertLabels, TodoLabels,
          TypePc, TypeLocals, shared, nodes, locals, history, locals2, heads, added, Goto, Set, Forget
  <1>2. ASSUME NEW n \in Nodes, NEW ts \in Timestamps, NBEnqueueCall(t, n, ts)
        PROVE  SoleMove(t)
    BY <1>2, IdleKnows DEF NBEnqueueCall, AllocateNode
  <1>3. ASSUME InsHead(t) PROVE SoleMove(t)
    BY <1>3 DEF InsHead
  <1>4. ASSUME InsNext(t) PROVE SoleMove(t)
    BY <1>4 DEF InsNext, NewOk, Inserting, InEnqueue, Enqueuing, GrowInv, HandsOk
  <1>5. ASSUME InsPush(t) PROVE SoleMove(t)
    BY <1>5, PushFrame, PushDoes
  <1>6. ASSUME MoveUnlink(t), UNCHANGED added PROVE SoleMove(t)
    BY <1>6 DEF MoveUnlink, UnlinkIn
  <1>7. ASSUME Move(t) PROVE SoleMove(t)
    BY <1>7 DEF Move, CarryOk, GrowInv, HandsOk
  <1>8. ASSUME LoopHead(t) PROVE SoleMove(t)
    BY <1>8 DEF LoopHead
  <1>9. ASSUME LoopNext(t) PROVE SoleMove(t)
    BY <1>9 DEF LoopNext
  <1>10. ASSUME LoopEnd(t) PROVE SoleMove(t)
    BY <1>10 DEF LoopEnd
  <1>11. ASSUME CollaborativeReturn(t) PROVE SoleMove(t)
    BY <1>11 DEF CollaborativeReturn
  <1>12. ASSUME PopHead(t) PROVE SoleMove(t)
    BY <1>12 DEF PopHead
  <1>13. ASSUME PopNext(t) PROVE SoleMove(t)
    BY <1>13 DEF PopNext
  <1>14. ASSUME PopCas(t) PROVE SoleMove(t)
    BY <1>14, PopFrame, PopDoes
  <1>15. ASSUME Unlink(t), UNCHANGED added PROVE SoleMove(t)
    BY <1>15 DEF Unlink, UnlinkIn
  <1>16. ASSUME Insert(t), UNCHANGED added PROVE SoleMove(t)
    BY <1>16 DEF Insert, DrawMark, NewOk, Inserting, InEnqueue, Enqueuing, GrowInv, HandsOk
  <1>17. ASSUME FlushRead(t), UNCHANGED added PROVE SoleMove(t)
    BY <1>17, NotGrowing DEF FlushRead, Labels
  <1>18. ASSUME FlushCas(t), UNCHANGED added PROVE SoleMove(t)
    BY <1>18, NotGrowing DEF FlushCas, Labels
  <1>19. ASSUME EnqueueReturn(t), UNCHANGED added, ~Collaborative PROVE SoleMove(t)
    BY <1>19 DEF EnqueueReturn
  <1>20. ASSUME NBDequeueCall(t) PROVE SoleMove(t)
    BY <1>20, IdleKnows DEF NBDequeueCall, DequeueCall, Queued
  <1>21. ASSUME DeqRead(t), UNCHANGED added PROVE SoleMove(t)
    BY <1>21, NotGrowing DEF DeqRead, Labels
  <1>22. ASSUME DeqScan(t), UNCHANGED added PROVE SoleMove(t)
    BY <1>22, NotGrowing DEF DeqScan, Firsts, Bucket, Labels
  <1>23. ASSUME DeqMark(t), UNCHANGED added PROVE SoleMove(t)
    BY <1>23, NotGrowing DEF DeqMark, Labels
  <1>24. ASSUME DeqMarkFails(t), UNCHANGED added PROVE SoleMove(t)
    BY <1>24, NotGrowing DEF DeqMarkFails, Labels
  <1>25. ASSUME DeqNextBucket(t), UNCHANGED added PROVE SoleMove(t)
    BY <1>25 DEF DeqNextBucket
  <1>26. ASSUME DeqAdvance(t), UNCHANGED added PROVE SoleMove(t)
    BY <1>26, NotGrowing DEF DeqAdvance, DrawMark, Labels
  <1>27. ASSUME DequeueReturn(t), UNCHANGED added PROVE SoleMove(t)
    BY <1>27, NotGrowing DEF DequeueReturn, Labels
  <1>28. ASSUME DeqTableEnd(t) PROVE SoleMove(t)
    BY <1>28, NotGrowing DEF DeqTableEnd, Labels
  <1>29. ASSUME DeqFutureHead(t) PROVE SoleMove(t)
    BY <1>29 DEF DeqFutureHead
  <1>30. ASSUME DeqFutureNext(t) PROVE SoleMove(t)
    BY <1>30, ExpanderOld DEF DeqFutureNext
  <1>31. ASSUME ExpandCheck(t) PROVE SoleMove(t)
    BY <1>31, ExpanderOld DEF ExpandCheck
  <1>32. ASSUME ExpandFuture(t) PROVE SoleMove(t)
    BY <1>32 DEF ExpandFuture
  <1>33. ASSUME ExpandAlloc(t) PROVE SoleMove(t)
    BY <1>33 DEF ExpandAlloc
  <1>34. ASSUME ExpandTodo(t) PROVE SoleMove(t)
    BY <1>34 DEF ExpandTodo
  <1>35. ASSUME ExpandTodoCas(t) PROVE SoleMove(t)
    BY <1>35 DEF ExpandTodoCas
  <1>36. ASSUME ExpandNewFuture(t) PROVE SoleMove(t)
    BY <1>36 DEF ExpandNewFuture
  <1>37. ASSUME ExpandMarkHead(t) PROVE SoleMove(t)
    BY <1>37 DEF ExpandMarkHead
  <1>38. ASSUME ExpandMarkNext(t) PROVE SoleMove(t)
    BY <1>38, ExpanderOld DEF ExpandMarkNext, MarkLabels
  <1>39. ASSUME ExpandMarkCas(t) PROVE SoleMove(t)
    BY <1>39, ExpanderOld DEF ExpandMarkCas, MarkLabels
  <1>40. ASSUME ExpandSize(t) PROVE SoleMove(t)
    BY <1>40, ExpanderOld DEF ExpandSize
  <1> QED
    BY <1>2, <1>3, <1>4, <1>5, <1>6, <1>7, <1>8, <1>9, <1>10, <1>11, <1>12, <1>13, <1>14,
       <1>15, <1>16, <1>17, <1>18, <1>19, <1>20, <1>21, <1>22, <1>23, <1>24, <1>25, <1>26,
       <1>27, <1>28, <1>29, <1>30, <1>31, <1>32, <1>33, <1>34, <1>35, <1>36, <1>37, <1>38,
       <1>39, <1>40
       DEF NBCall, NBStep, NBEnqueueStep, InsertStep, TodoStep, NBDequeueStep, ExpandStep, Unchanged

\* empty_todo_list() takes a node out of the to-do list, or fails.
LEMMA PopTakes ==
  ASSUME GrowInv, NEW t \in Threads, PopCas(t)
  PROVE  \/ UNCHANGED <<place, carried>>
         \/ /\ place' = [place EXCEPT ![first[t]] = "carried"] /\ carried' = [carried EXCEPT ![t] = first[t]]
            /\ first[t] \in Nodes /\ place[first[t]] = "future"
  BY PopFrame, PopDoes, InHand DEF Popped, First
\* How node n may go from place p to place q in a step of a thread.
NodeMoves(t, n, p, q) ==
  \/ p = "unused" /\ q = "held"
  \/ p = "held" /\ n = node[t] /\ Inserting(t) /\ (q = "future" \/ (q = "bucket" /\ pc[t] = "insert"))
  \/ p = "future" /\ q = "carried"
  \/ p = "carried" /\ n = carried[t] /\ (q = "future" \/ (q = "bucket" /\ Move(t)))
  \/ p = "bucket" /\ q = "taken" /\ n = node[t] /\ DeqMark(t)
  \/ p = "taken" /\ q = "unlinked"

\* A step moves one node at most, and moves it on.
PlaceMove(t) ==
  \/ UNCHANGED place
  \/ \E n \in Nodes, q \in AllPlaces :
       place' = [place EXCEPT ![n] = q] /\ NodeMoves(t, n, place[n], q)

\* Every step moves nodes so.
LEMMA PlaceStep ==
  ASSUME GrowInv, NEW t \in Threads, NBCall(t) \/ NBStep(t)
  PROVE  PlaceMove(t)
  <1>1. TypePc /\ TypeLocals /\ TypeNodes
    BY TypeParts DEF GrowInv
  <1> USE <1>1
      DEF PlaceMove, NodeMoves, AllPlaces, PlacesHere, nodes
  <1>2. ASSUME NEW n \in Nodes, NEW ts \in Timestamps, NBEnqueueCall(t, n, ts)
        PROVE  PlaceMove(t)
    BY <1>2 DEF NBEnqueueCall, AllocateNode
  <1>3. ASSUME InsHead(t) PROVE PlaceMove(t)
    BY <1>3 DEF InsHead
  <1>4. ASSUME InsNext(t) PROVE PlaceMove(t)
    BY <1>4 DEF InsNext
  <1>5. ASSUME InsPush(t) PROVE PlaceMove(t)
    BY <1>5, PushFrame, PushDoes, InHand DEF NodeInHand, Inserting, InsertLabels
  <1>6. ASSUME MoveUnlink(t), UNCHANGED added PROVE PlaceMove(t)
    BY <1>6 DEF MoveUnlink, UnlinkIn
  <1>7. ASSUME Move(t) PROVE PlaceMove(t)
    BY <1>7, InHand DEF Move
  <1>8. ASSUME LoopHead(t) PROVE PlaceMove(t)
    BY <1>8 DEF LoopHead
  <1>9. ASSUME LoopNext(t) PROVE PlaceMove(t)
    BY <1>9 DEF LoopNext
  <1>10. ASSUME LoopEnd(t) PROVE PlaceMove(t)
    BY <1>10 DEF LoopEnd
  <1>11. ASSUME CollaborativeReturn(t) PROVE PlaceMove(t)
    BY <1>11 DEF CollaborativeReturn
  <1>12. ASSUME PopHead(t) PROVE PlaceMove(t)
    BY <1>12 DEF PopHead
  <1>13. ASSUME PopNext(t) PROVE PlaceMove(t)
    BY <1>13 DEF PopNext
  <1>14. ASSUME PopCas(t) PROVE PlaceMove(t)
    BY <1>14, PopFrame, PopDoes, PopTakes
  <1>15. ASSUME Unlink(t), UNCHANGED added PROVE PlaceMove(t)
    BY <1>15 DEF Unlink, UnlinkIn
  <1>16. ASSUME Insert(t), UNCHANGED added PROVE PlaceMove(t)
    BY <1>16, InHand DEF Insert, Inserting
  <1>17. ASSUME FlushRead(t), UNCHANGED added PROVE PlaceMove(t)
    BY <1>17 DEF FlushRead
  <1>18. ASSUME FlushCas(t), UNCHANGED added PROVE PlaceMove(t)
    BY <1>18 DEF FlushCas
  <1>19. ASSUME EnqueueReturn(t), UNCHANGED added, ~Collaborative PROVE PlaceMove(t)
    BY <1>19 DEF EnqueueReturn
  <1>20. ASSUME NBDequeueCall(t) PROVE PlaceMove(t)
    BY <1>20 DEF NBDequeueCall, DequeueCall, Queued
  <1>21. ASSUME DeqRead(t), UNCHANGED added PROVE PlaceMove(t)
    BY <1>21 DEF DeqRead
  <1>22. ASSUME DeqScan(t), UNCHANGED added PROVE PlaceMove(t)
    BY <1>22 DEF DeqScan, Firsts, Bucket
  <1>23. ASSUME DeqMark(t), UNCHANGED added PROVE PlaceMove(t)
    BY <1>23 DEF DeqMark, HandsOk, ReadOk, GrowInv
  <1>24. ASSUME DeqMarkFails(t), UNCHANGED added PROVE PlaceMove(t)
    BY <1>24 DEF DeqMarkFails
  <1>25. ASSUME DeqNextBucket(t), UNCHANGED added PROVE PlaceMove(t)
    BY <1>25 DEF DeqNextBucket
  <1>26. ASSUME DeqAdvance(t), UNCHANGED added PROVE PlaceMove(t)
    BY <1>26 DEF DeqAdvance, DrawMark
  <1>27. ASSUME DequeueReturn(t), UNCHANGED added PROVE PlaceMove(t)
    BY <1>27 DEF DequeueReturn
  <1>28. ASSUME DeqTableEnd(t) PROVE PlaceMove(t)
    BY <1>28 DEF DeqTableEnd
  <1>29. ASSUME DeqFutureHead(t) PROVE PlaceMove(t)
    BY <1>29 DEF DeqFutureHead
  <1>30. ASSUME DeqFutureNext(t) PROVE PlaceMove(t)
    BY <1>30 DEF DeqFutureNext
  <1>31. ASSUME ExpandCheck(t) PROVE PlaceMove(t)
    BY <1>31 DEF ExpandCheck
  <1>32. ASSUME ExpandFuture(t) PROVE PlaceMove(t)
    BY <1>32 DEF ExpandFuture
  <1>33. ASSUME ExpandAlloc(t) PROVE PlaceMove(t)
    BY <1>33 DEF ExpandAlloc
  <1>34. ASSUME ExpandTodo(t) PROVE PlaceMove(t)
    BY <1>34 DEF ExpandTodo
  <1>35. ASSUME ExpandTodoCas(t) PROVE PlaceMove(t)
    BY <1>35 DEF ExpandTodoCas
  <1>36. ASSUME ExpandNewFuture(t) PROVE PlaceMove(t)
    BY <1>36 DEF ExpandNewFuture
  <1>37. ASSUME ExpandMarkHead(t) PROVE PlaceMove(t)
    BY <1>37 DEF ExpandMarkHead
  <1>38. ASSUME ExpandMarkNext(t) PROVE PlaceMove(t)
    BY <1>38 DEF ExpandMarkNext
  <1>39. ASSUME ExpandMarkCas(t) PROVE PlaceMove(t)
    BY <1>39 DEF ExpandMarkCas
  <1>40. ASSUME ExpandSize(t) PROVE PlaceMove(t)
    BY <1>40 DEF ExpandSize
  <1> QED
    BY <1>2, <1>3, <1>4, <1>5, <1>6, <1>7, <1>8, <1>9, <1>10, <1>11, <1>12, <1>13, <1>14,
       <1>15, <1>16, <1>17, <1>18, <1>19, <1>20, <1>21, <1>22, <1>23, <1>24, <1>25, <1>26,
       <1>27, <1>28, <1>29, <1>30, <1>31, <1>32, <1>33, <1>34, <1>35, <1>36, <1>37, <1>38,
       <1>39, <1>40
       DEF NBCall, NBStep, NBEnqueueStep, InsertStep, TodoStep, NBDequeueStep, ExpandStep, Unchanged

\* The invariant of the queue with one consumer, and a step of thread t.
SoleStep(t) ==
  /\ SoleConsumer
  /\ SoleInv
  /\ NBCall(t) \/ NBStep(t)

\* What the lemmas on such a step need of it.
LEMMA SoleFacts ==
  ASSUME NEW t \in Threads, SoleStep(t)
  PROVE  /\ GrowInv /\ TypePc /\ TypeLocals /\ TypeNodes /\ TypeTable /\ SettledDone
         /\ [NBNext]_allVars /\ SoleConsumer /\ SizesMove
         /\ SoleMove(t) /\ PlaceMove(t) /\ RoleOf(t)'
         /\ \A u \in Threads : RoleOf(u)
         /\ \A u \in Threads \ {t} : UNCHANGED LocalsOf(u)
  <1>1. GrowInv /\ SettledDone /\ SoleConsumer /\ (NBCall(t) \/ NBStep(t)) /\ \A u \in Threads : RoleOf(u)
    BY DEF SoleStep, SoleInv, NBIndInv
  <1>2. TypePc /\ TypeLocals /\ TypeNodes /\ TypeTable
    BY <1>1, TypeParts DEF GrowInv
  <1>3. [NBNext]_allVars
    BY <1>1 DEF NBNext
  <1> QED
    BY <1>1, <1>2, <1>3, StepMoves, PlaceStep, RoleStep, OthersKeep, TableMoves

\* The consumer is the one that seeks, grows the table and carries nodes.
LEMMA OnlyConsumer ==
  ASSUME SoleConsumer, \A u \in Threads : RoleOf(u), NEW t \in Threads, NEW u \in Threads,
         pc[t] \in Seeking \/ old_size[t] # 0 \/ carried[t] # NoNode,
         pc[u] \in Seeking \/ old_size[u] # 0 \/ carried[u] # NoNode
  PROVE  t = u
  BY DEF RoleOf, SoleConsumer

\* A node that is in use, or settled, is not held afresh.
LEMMA HeldIsNew ==
  ASSUME NEW t \in Threads, SoleStep(t), NEW n \in Nodes, place[n] # "unused", place[n] # "held"
  PROVE  place'[n] # "unused" /\ place'[n] # "held"
  BY SoleFacts DEF PlaceMove, NodeMoves, TypeNodes

\* Every thread still does what it may do.
LEMMA RoleAll ==
  ASSUME NEW t \in Threads, SoleStep(t), NEW u \in Threads
  PROVE  RoleOf(u)'
  <1>1. CASE u = t
    BY <1>1, SoleFacts
  <1>2. CASE u # t
    <2>1. UNCHANGED LocalsOf(u) /\ settled \subseteq settled' /\ RoleOf(u)
      BY <1>2, SoleFacts DEF SoleMove
    <2>2. pc[u] \in Flushing \cup {"enqueued"} => place'[node[u]] # "held"
      <3>1. pc[u] \in Flushing \cup {"enqueued"} => InEnqueue(u)
        BY DEF InEnqueue, Enqueuing, Flushing
      <3>2. InEnqueue(u) => node[u] \in Nodes /\ place[node[u]] # "unused"
        BY SoleFacts DEF GrowInv, HandsOk, NewOk, SettledDone
      <3> QED
        BY <2>1, <3>1, <3>2, HeldIsNew DEF RoleOf
    <2>3. InEnqueue(u)' <=> InEnqueue(u)
      BY <2>1 DEF LocalsOf, InEnqueue
    <2>4. pc[u] = "answered" /\ node[u] # NoNode => place'[node[u]] # "unused"
      BY <2>1, SoleFacts, UsedStays DEF RoleOf, TypeLocals, SomeNode
    <2> QED
      BY <2>1, <2>2, <2>3, <2>4 DEF RoleOf, LocalsOf
  <1> QED
    BY <1>1, <1>2

\* The only step that changes dequeue_size, and what it finds.
LEMMA GrowthEnds ==
  ASSUME NEW t \in Threads, SoleStep(t), ExpandSize(t)
  PROVE  /\ old_size[t] # 0 /\ old_size'[t] = 0 /\ pc[t] = "ex_size" /\ carried[t] = NoNode
         /\ old_size[t] = dequeue_size /\ table_size = 2 * dequeue_size
         /\ dequeue_size' = 2 * dequeue_size /\ table_size' = table_size
  <1>1. pc[t] = "ex_size" /\ old_size' = [old_size EXCEPT ![t] = 0] /\ table_size' = table_size
        /\ dequeue_size' = IF dequeue_size = old_size[t] THEN 2 * old_size[t] ELSE dequeue_size
    BY DEF ExpandSize, Set
  <1>2. old_size[t] # 0
    BY <1>1, SoleFacts, ExpanderOld
  <1>3. old_size[t] = dequeue_size
    BY <1>2 DEF SoleStep, SoleInv, SoleGrower
  <1>4. future_list = 2 * dequeue_size
    BY <1>1, <1>2, <1>3, SoleFacts DEF GrowInv, ExpandersKnow, Expander, OpenLabels
  <1>5. table_size = 2 * dequeue_size
    BY <1>4, SoleFacts, SizesKnown DEF GrowInv, TableOk
  <1>6. carried[t] = NoNode
    BY <1>1, SoleFacts DEF GrowInv, HandsOk, CarryOk, InsertLabels
  <1> QED
    BY <1>1, <1>2, <1>3, <1>5, <1>6, SoleFacts DEF TypeLocals

\* The consumer grows the table from its present size.
LEMMA GrowerStep ==
  ASSUME NEW t \in Threads, SoleStep(t)
  PROVE  SoleGrower'
  <1>1. SUFFICES ASSUME NEW u \in Threads, old_size'[u] # 0 PROVE old_size'[u] = dequeue_size'
    BY DEF SoleGrower
  <1>2. CASE ExpandSize(t)
    <2>1. u # t
      BY <1>1, <1>2, GrowthEnds
    <2>2. old_size[u] # 0 /\ old_size[t] # 0
      BY <1>1, <1>2, <2>1, SoleFacts, GrowthEnds DEF LocalsOf
    <2> QED
      BY <2>1, <2>2, SoleFacts, OnlyConsumer
  <1>3. CASE ~ExpandSize(t)
    <2>1. dequeue_size' = dequeue_size
      BY <1>3, SoleFacts DEF SoleMove, ExpandAlloc, shared
    <2>2. old_size'[u] = old_size[u] \/ old_size'[u] = dequeue_size
      BY <1>1, SoleFacts DEF SoleMove, LocalsOf
    <2> QED
      BY <1>1, <2>1, <2>2 DEF SoleStep, SoleInv, SoleGrower
  <1> QED
    BY <1>2, <1>3

\* The table is larger than dequeue_size only while it grows.
LEMMA SegmentStep ==
  ASSUME NEW t \in Threads, SoleStep(t)
  PROVE  SegmentKnown'
  <1>1. CASE ExpandSize(t)
    BY <1>1, GrowthEnds DEF SegmentKnown
  <1>2. CASE ExpandAlloc(t)
    <2>1. pc[t] = "ex_alloc" /\ pc' = [pc EXCEPT ![t] = "ex_todo"] /\ old_size' = old_size
      BY <1>2 DEF ExpandAlloc, Goto, locals2
    <2>2. old_size[t] # 0
      BY <2>1, SoleFacts, ExpanderOld DEF OpenLabels
    <2> QED
      BY <2>1, <2>2, SoleFacts DEF SegmentKnown, BeforeSegment, TypePc
  <1>3. CASE ~ExpandSize(t) /\ ~ExpandAlloc(t)
    <2>1. UNCHANGED <<dequeue_size, table_size>>
      BY <1>3, SoleFacts DEF SoleMove
    <2>2. SUFFICES ASSUME NEW w \in Threads, old_size[w] # 0 /\ pc[w] \notin BeforeSegment
                   PROVE  old_size'[w] # 0 /\ pc'[w] \notin BeforeSegment
      BY <2>1 DEF SegmentKnown, SoleStep, SoleInv
    <2> QED
      BY <1>3, <2>2, SoleFacts DEF SoleMove, LocalsOf
  <1> QED
    BY <1>1, <1>2, <1>3

\* A list that holds nodes is in use, and belongs to a size not yet open.
LEMMA ListedBeyond ==
  ASSUME GrowInv, NEW h \in Heads, list[h] # <<>>
  PROVE  h \in {future_list, todo_list} /\ dequeue_size <= h
  <1>1. h \in {future_list, todo_list}
    BY DEF GrowInv, ClosedOk
  <1>2. dequeue_size <= future_list /\ (todo_list = dequeue_size \/ list[todo_list] = <<>>)
    BY SizesKnown DEF GrowInv, TableOk, Retired
  <1> QED
    BY <1>1, <1>2, SizesKnown

\* An event in the future list or the to-do list lies beyond dequeue_size.
LEMMA FutureBeyond ==
  ASSUME GrowInv, NEW n \in Nodes, place[n] = "future"
  PROVE  /\ dequeue_size <= BucketOf(timestamp[n])
         /\ \E h \in {future_list, todo_list} : list[h] # <<>>
  <1>1. PICK h \in Heads : \E i \in DOMAIN list[h] : list[h][i] = n
    BY DEF GrowInv, LinksOk
  <1>2. list[h] # <<>> /\ h <= BucketOf(timestamp[n]) /\ h \in Nat
    BY <1>1, HeadsAre DEF GrowInv, LinksOk
  <1>3. BucketOf(timestamp[n]) \in Nat
    BY TypeParts, BucketOfNat DEF GrowInv, TypeNodes
  <1> QED
    BY <1>2, <1>3, ListedBeyond, SizesKnown

\* A popped node is ahead of every dequeue, and none is late.
LEMMA CarriedStep ==
  ASSUME NEW t \in Threads, SoleStep(t)
  PROVE  CarriedAhead'
  <1>1. ASSUME NEW u \in Threads, carried'[u] # NoNode
        PROVE  dequeue_size' <= BucketOf(timestamp'[carried'[u]])
    <2>1. CASE PopCas(t) /\ u = t /\ carried'[t] # carried[t]
      <3>1. carried' = [carried EXCEPT ![t] = first[t]] /\ first[t] \in Nodes /\ place[first[t]] = "future"
        BY <2>1, SoleFacts, PopTakes
      <3>2. timestamp'[first[t]] = timestamp[first[t]] /\ dequeue_size' = dequeue_size
        BY <2>1, <3>1, SoleFacts, UsedStays, PopDoes
      <3> QED
        BY <2>1, <3>1, <3>2, SoleFacts, FutureBeyond DEF TypeLocals
    <2>2. CASE carried'[u] = carried[u]
      <3>1. carried[u] \in Nodes /\ place[carried[u]] = "carried"
        BY <1>1, <2>2, SoleFacts DEF GrowInv, HandsOk, CarryOk, TypeLocals, SomeNode
      <3>2. timestamp'[carried[u]] = timestamp[carried[u]]
        BY <3>1, SoleFacts, UsedStays
      <3>3. ~ExpandSize(t)
        <4>1. SUFFICES ASSUME ExpandSize(t) PROVE FALSE
          OBVIOUS
        <4>2. carried[t] = NoNode /\ old_size[t] # 0
          BY <4>1, GrowthEnds
        <4> QED
          BY <1>1, <2>2, <4>2, SoleFacts, OnlyConsumer
      <3>4. dequeue_size' = dequeue_size
        BY <3>3, SoleFacts DEF SoleMove, ExpandAlloc, shared
      <3> QED
        BY <1>1, <2>2, <3>2, <3>4 DEF SoleStep, SoleInv, CarriedAhead
    <2> QED
      BY <1>1, <2>1, <2>2, SoleFacts DEF SoleMove, LocalsOf
  <1>2. late' = {}
    <2>1. CASE Move(t)
      <3>1. pc[t] = "move" /\ late' = IF IndexInHand(t) < dequeue_size THEN late \cup {carried[t]} ELSE late
        BY <2>1 DEF Move
      <3>2. carried[t] # NoNode /\ IndexInHand(t) = BucketOf(timestamp[carried[t]])
        BY <3>1, SoleFacts DEF GrowInv, HandsOk, CarryOk, IndexInHand, NodeInHand
      <3>3. dequeue_size <= IndexInHand(t) /\ IndexInHand(t) \in Nat
        BY <3>2, SoleFacts, BucketOfNat
           DEF SoleStep, SoleInv, CarriedAhead, TypeLocals, TypeNodes, SomeNode
      <3> QED
        BY <3>1, <3>3, SoleFacts, SizesKnown DEF SoleStep, SoleInv, CarriedAhead
    <2>2. CASE ~Move(t)
      BY <2>2, SoleFacts DEF SoleMove, SoleStep, SoleInv, CarriedAhead
    <2> QED
      BY <2>1, <2>2
  <1> QED
    BY <1>1, <1>2 DEF CarriedAhead

\* How an event comes into a bucket: by its enqueue(), or out of the consumer's
\* hands.
LEMMA Arrives ==
  ASSUME NEW t \in Threads, SoleStep(t), NEW n \in Nodes, place'[n] = "bucket", place[n] # "bucket"
  PROVE  \/ pc[t] = "insert" /\ n = node[t] /\ InEnqueue(t)
         \/ Move(t) /\ n = carried[t] /\ carried[t] # NoNode /\ place[n] = "carried"
  <1>1. PICK q \in AllPlaces : place' = [place EXCEPT ![n] = q] /\ NodeMoves(t, n, place[n], q) /\ q = "bucket"
    <2>1. PICK m \in Nodes, q \in AllPlaces : place' = [place EXCEPT ![m] = q] /\ NodeMoves(t, m, place[m], q)
      BY SoleFacts DEF PlaceMove
    <2>2. m = n /\ q = "bucket"
      BY <2>1, SoleFacts DEF TypeNodes
    <2> QED
      BY <2>1, <2>2
  <1>2. (n = node[t] /\ Inserting(t) /\ pc[t] = "insert") \/ (place[n] = "carried" /\ n = carried[t] /\ Move(t))
    BY <1>1 DEF NodeMoves
  <1>3. Inserting(t) => InEnqueue(t)
    BY SoleFacts DEF GrowInv, HandsOk, NewOk
  <1>4. Move(t) => carried[t] # NoNode
    BY SoleFacts DEF Move, GrowInv, HandsOk, CarryOk
  <1> QED
    BY <1>2, <1>3, <1>4

\* No event comes into a bucket beyond the table.
LEMMA InTableStep ==
  ASSUME NEW t \in Threads, SoleStep(t)
  PROVE  BucketsInTable'
  <1>1. SUFFICES ASSUME NEW n \in Nodes, place'[n] = "bucket"
                 PROVE  BucketOf(timestamp'[n]) < table_size'
    BY DEF BucketsInTable
  <1>2. place[n] # "unused" /\ BucketOf(timestamp[n]) < table_size
    <2>1. CASE place[n] = "bucket"
      BY <2>1 DEF SoleStep, SoleInv, BucketsInTable
    <2>2. CASE place[n] # "bucket"
      <3>1. pc[t] = "insert" => carried[t] = NoNode
        BY SoleFacts DEF GrowInv, HandsOk, CarryOk, InsertLabels
      <3>2. pc[t] \in {"insert", "move"} /\ n = NodeInHand(t) /\ place[n] # "unused"
        BY <1>1, <2>2, <3>1, Arrives, SoleFacts DEF NodeInHand, SettledDone, Move
      <3> QED
        BY <3>2, SoleFacts DEF GrowInv, HeadsKnown, HeadsOf, IndexInHand
    <2> QED
      BY <2>1, <2>2
  <1>3. timestamp'[n] = timestamp[n] /\ table_size <= table_size' /\ table_size' \in Nat
    BY <1>2, SoleFacts, UsedStays DEF SizesMove
  <1>4. BucketOf(timestamp[n]) \in Nat /\ table_size \in Nat
    BY SoleFacts, SizesKnown, BucketOfNat DEF TypeNodes
  <1> QED
    BY <1>2, <1>3, <1>4

\* A scan finds the first event of its bucket, so no event at or after the
\* bucket is smaller.
LEMMA NBScanFindsFirst ==
  ASSUME TypePc, TypeLocals, TypeNodes, NEW t \in Threads, DeqScan(t),
         NEW y \in Nodes, place[y] = "bucket", oldCur[t].index <= BucketOf(timestamp[y])
  PROVE  /\ pc'[t] \in {"tail", "mark"}
         /\ pc'[t] = "tail" => oldCur[t].index < BucketOf(timestamp[y])
         /\ pc'[t] = "mark" => timestamp[node'[t]] <= timestamp[y]
  <1> DEFINE i == oldCur[t].index
  <1>1. /\ i \in Nat /\ timestamp[y] \in Nat /\ BucketOf(timestamp[y]) \in Nat
        /\ \A n \in Nodes : timestamp[n] \in Nat
    BY BucketOfNat DEF TypeLocals, TypeNodes, Cursors
  <1>2. y \notin Bucket(i) => i < BucketOf(timestamp[y])
    BY <1>1 DEF Bucket
  <1>3. CASE Bucket(i) = {} /\ Goto(t, "tail")
    BY <1>2, <1>3 DEF Goto, TypePc
  <1>4. ASSUME NEW n \in Firsts(i), node' = [node EXCEPT ![t] = n], Goto(t, "mark")
        PROVE  pc'[t] = "mark" /\ node'[t] = n /\ timestamp[n] <= timestamp[y]
    <2>1. n \in Nodes /\ BucketOf(timestamp[n]) = i /\ pc'[t] = "mark" /\ node'[t] = n
      BY <1>4 DEF Firsts, Bucket, Goto, TypePc, TypeLocals
    <2>2. CASE y \in Bucket(i)
      BY <2>1, <2>2 DEF Firsts
    <2>3. CASE y \notin Bucket(i)
      <3>1. timestamp[n] < timestamp[y]
        BY <1>1, <1>2, <2>1, <2>3, BucketOfMonotone
      <3> QED
        BY <1>1, <2>1, <3>1
    <2> QED
      BY <2>2, <2>3
  <1> QED
    BY <1>3, <1>4 DEF DeqScan

\* The candidate of a scan is in a bucket a dequeue may visit.
LEMMA CandidateKnown ==
  ASSUME TypePc, TypeLocals, NEW t \in Threads, DeqScan(t), pc'[t] = "mark"
  PROVE  node'[t] \in Nodes /\ place[node'[t]] = "bucket" /\ BucketOf(timestamp[node'[t]]) = oldCur[t].index
  BY DEF DeqScan, Firsts, Bucket, Goto, TypePc, TypeLocals

\* A settled event has no flush to come.
LEMMA SettledCovered ==
  ASSUME SoleInv, NEW y \in settled, place[y] = "bucket"
  PROVE  y \in Nodes /\ current.index <= BucketOf(timestamp[y])
  <1>1. y \in Nodes
    BY TypeParts DEF SoleInv, NBIndInv, GrowInv, TypeNodes
  <1>2. ~Pending(y)
    <2>1. \A t \in Threads : pc[t] \in Flushing => InEnqueue(t)
      BY DEF Flushing, InEnqueue, Enqueuing
    <2> QED
      BY <2>1 DEF SoleInv, NBIndInv, SettledDone, Pending
  <1> QED
    BY <1>1, <1>2 DEF SoleInv, NBIndInv, TableCovered, Settling, CarriedAhead

\* An event a running dequeue() is answerable for, if it was in its bucket before
\* the step.
LEMMA KnownStays ==
  ASSUME NEW t \in Threads, SoleStep(t), NEW u \in Threads,
         NEW y \in before[u], y \in Nodes, place[y] = "bucket", timestamp'[y] = timestamp[y]
  PROVE  /\ pc'[u] = "scan" => oldCur'[u].index <= BucketOf(timestamp'[y])
         /\ PassedScan(u)' => oldCur'[u].index < BucketOf(timestamp'[y])
         /\ pc'[u] = "mark" => timestamp'[node'[u]] <= timestamp'[y]
  <1>1. SoleKnows(u)
    BY DEF SoleStep, SoleInv
  <1>2. ASSUME pc'[u] = "mark", pc[u] = "mark", node'[u] = node[u]
        PROVE  timestamp'[node'[u]] = timestamp[node[u]]
    <2>1. node[u] \in Nodes
      BY <1>2, SoleFacts DEF GrowInv, HandsOk, ReadOk
    <2> QED
      BY <1>1, <1>2, <2>1, SoleFacts, UsedStays DEF SoleKnows
  <1>3. CASE u # t
    <2>1. UNCHANGED LocalsOf(u)
      BY <1>3, SoleFacts
    <2>2. pc'[u] = pc[u] /\ oldCur'[u] = oldCur[u] /\ node'[u] = node[u] /\ (PassedScan(u)' <=> PassedScan(u))
      BY <2>1 DEF LocalsOf, PassedScan
    <2> QED
      BY <1>1, <1>2, <2>2 DEF SoleKnows
  <1>4. CASE u = t /\ DeqScan(t)
    <2>1. oldCur' = oldCur /\ timestamp' = timestamp /\ pc[t] = "scan"
      BY <1>4 DEF DeqScan, nodes
    <2>2. oldCur[t].index <= BucketOf(timestamp[y])
      BY <1>1, <1>4, <2>1 DEF SoleKnows
    <2>3. /\ pc'[t] \in {"tail", "mark"}
          /\ pc'[t] = "tail" => oldCur[t].index < BucketOf(timestamp[y])
          /\ pc'[t] = "mark" => timestamp[node'[t]] <= timestamp[y]
      BY <1>4, <2>2, SoleFacts, NBScanFindsFirst
    <2>4. PassedScan(t)' => pc'[t] = "tail"
      <3>1. old_size[t] = 0
        BY <2>1, SoleFacts, NotGrowing DEF Labels
      <3>2. old_size'[t] = 0
        BY <2>1, <3>1, SoleFacts DEF SoleMove, DeqTableEnd
      <3> QED
        BY <2>3, <3>2 DEF PassedScan
    <2> QED
      BY <1>4, <2>1, <2>3, <2>4
  <1>5. CASE u = t /\ DeqRead(t)
    <2>1. oldCur'[t] = current /\ pc'[t] = "scan" /\ pc[t] = "deq_read" /\ timestamp' = timestamp
      BY <1>5, SoleFacts DEF DeqRead, Goto, TypePc, TypeLocals, nodes
    <2>2. y \in settled
      BY SoleFacts DEF RoleOf
    <2>3. ~PassedScan(t)'
      <3>1. old_size[t] = 0
        BY <2>1, SoleFacts, NotGrowing DEF Labels
      <3>2. old_size'[t] = 0
        BY <2>1, <3>1, SoleFacts DEF SoleMove, DeqTableEnd
      <3> QED
        BY <2>1, <3>2 DEF PassedScan
    <2> QED
      BY <1>5, <2>1, <2>2, <2>3, SettledCovered DEF SoleStep
  <1>6. CASE u = t /\ ~DeqScan(t) /\ ~DeqRead(t)
    BY <1>1, <1>6, SoleFacts DEF SoleMove, SoleKnows
  <1> QED
    BY <1>3, <1>4, <1>5, <1>6

\* An event the consumer puts in a bucket while it grows the table lies ahead of it.
LEMMA MovedKnown ==
  ASSUME NEW t \in Threads, SoleStep(t), NEW u \in Threads, NEW y \in Nodes,
         Move(t), y = carried[t], carried[t] # NoNode, place[y] = "carried"
  PROVE  /\ pc'[u] \notin {"scan", "mark"}
         /\ PassedScan(u)' => oldCur'[u].index < BucketOf(timestamp'[y])
  <1>1. old_size[t] # 0 /\ old_size[t] = dequeue_size
    BY SoleFacts DEF RoleOf, SoleStep, SoleInv, SoleGrower
  <1>2. oldCur[t].index < dequeue_size /\ dequeue_size <= BucketOf(timestamp[y])
    BY <1>1, SoleFacts DEF GrowInv, ExpandersKnow, Expander, SoleStep, SoleInv, CarriedAhead
  <1>3. timestamp' = timestamp /\ oldCur' = oldCur /\ old_size' = old_size /\ pc' = [pc EXCEPT ![t] = "todo_head"]
    BY <1>1 DEF Move, Goto, locals
  <1>4. oldCur[t].index \in Nat /\ dequeue_size \in Nat /\ BucketOf(timestamp[y]) \in Nat
    BY SoleFacts, SizesKnown, CoverKnows
  <1>5. CASE u = t
    BY <1>2, <1>3, <1>4, <1>5, SoleFacts DEF TypePc
  <1>6. CASE u # t
    <2>1. pc'[u] = pc[u] /\ old_size'[u] = old_size[u]
      BY <1>3, <1>6, SoleFacts DEF TypePc
    <2>2. pc[u] \notin Seeking /\ old_size[u] = 0
      BY <1>1, <1>6, SoleFacts, OnlyConsumer
    <2> QED
      BY <2>1, <2>2 DEF Seeking, PassedScan
  <1> QED
    BY <1>5, <1>6

\* Every step keeps what a running dequeue() knows.
LEMMA KnowsStep ==
  ASSUME NEW t \in Threads, SoleStep(t), NEW u \in Threads
  PROVE  SoleKnows(u)'
  <1>1. ASSUME pc'[u] = "mark"
        PROVE  place'[node'[u]] # "unused" /\ BucketOf(timestamp'[node'[u]]) < dequeue_size'
    <2>1. node'[u] \in Nodes /\ place[node'[u]] # "unused" /\ BucketOf(timestamp[node'[u]]) < dequeue_size
      <3>1. CASE u = t
        <4>1. DeqScan(t) /\ pc[t] = "scan"
          BY <1>1, <3>1, SoleFacts DEF SoleMove, DeqScan
        <4> QED
          BY <1>1, <3>1, <4>1, SoleFacts, CandidateKnown DEF GrowInv, CursorInside, CursorOf
      <3>2. CASE u # t
        BY <1>1, <3>2, SoleFacts
           DEF LocalsOf, SoleStep, SoleInv, SoleKnows, GrowInv, HandsOk, ReadOk
      <3> QED
        BY <3>1, <3>2
    <2>2. place'[node'[u]] # "unused" /\ timestamp'[node'[u]] = timestamp[node'[u]]
      BY <2>1, SoleFacts, UsedStays
    <2>3. dequeue_size <= dequeue_size' /\ dequeue_size' \in Nat /\ dequeue_size \in Nat
      BY SoleFacts, SizesKnown DEF SizesMove
    <2>4. BucketOf(timestamp[node'[u]]) \in Nat
      BY <2>1, SoleFacts, CoverKnows
    <2> QED
      BY <2>1, <2>2, <2>3, <2>4
  <1>2. ASSUME NEW y \in before'[u], place'[y] = "bucket"
        PROVE  /\ pc'[u] = "scan" => oldCur'[u].index <= BucketOf(timestamp'[y])
               /\ PassedScan(u)' => oldCur'[u].index < BucketOf(timestamp'[y])
               /\ pc'[u] = "mark" => timestamp'[node'[u]] <= timestamp'[y]
    <2>1. CASE before'[u] = before[u]
      <3>1. y \in settled /\ y \in Nodes
        BY <1>2, <2>1, SoleFacts DEF RoleOf, TypeNodes
      <3>2. CASE place[y] = "bucket"
        <4>1. timestamp'[y] = timestamp[y]
          BY <3>1, <3>2, SoleFacts, UsedStays
        <4> QED
          BY <1>2, <2>1, <3>1, <3>2, <4>1, KnownStays
      <3>3. CASE place[y] # "bucket"
        <4>1. Move(t) /\ y = carried[t] /\ carried[t] # NoNode /\ place[y] = "carried"
          BY <1>2, <3>1, <3>3, Arrives, SoleFacts DEF SettledDone
        <4> QED
          BY <3>1, <4>1, MovedKnown
      <3> QED
        BY <3>2, <3>3
    <2>2. CASE before'[u] # before[u]
      <3>1. u = t /\ pc'[t] \in {"deq_read", "idle"}
        BY <2>2, SoleFacts DEF SoleMove, LocalsOf
      <3>2. old_size'[t] = 0
        <4>1. GrowInv'
          BY SoleFacts, GrowStep
        <4> QED
          BY <3>1, <4>1 DEF GrowInv, ExpandersKnow, Expander, InsertLabels, TodoLabels, OpenLabels, MarkLabels
      <3> QED
        BY <3>1, <3>2 DEF PassedScan
    <2> QED
      BY <2>1, <2>2
  <1> QED
    BY <1>1, <1>2 DEF SoleKnows

\* A settled event that is queued after a step was queued before it.
LEMMA QueuedBefore ==
  ASSUME NEW t \in Threads, SoleStep(t), NEW y \in settled, Queued(y)'
  PROVE  y \in Nodes /\ Queued(y) /\ timestamp'[y] = timestamp[y]
  <1>1. y \in Nodes /\ place[y] # "unused"
    BY SoleFacts DEF TypeNodes, SettledDone
  <1>2. timestamp'[y] = timestamp[y]
    BY <1>1, SoleFacts, UsedStays
  <1>3. ~(Inserting(t) /\ y = node[t])
    BY SoleFacts DEF GrowInv, HandsOk, NewOk, SettledDone
  <1>4. Queued(y)
    BY <1>1, <1>3, SoleFacts DEF PlaceMove, NodeMoves, Queued, TypeNodes
  <1> QED
    BY <1>1, <1>2, <1>4

\* The candidate that the consumer takes is no larger than any event it is
\* answerable for: what is not in the table lies beyond it.
LEMMA TakenIsFirst ==
  ASSUME SoleConsumer, SoleInv, NEW t \in Threads, pc[t] = "mark", place[node[t]] = "bucket",
         NEW y \in before[t], y \in Nodes, Queued(y)
  PROVE  timestamp[node[t]] <= timestamp[y]
  <1>1. GrowInv /\ TypeNodes /\ (\A u \in Threads : RoleOf(u)) /\ SoleKnows(t)
    BY TypeParts DEF SoleInv, NBIndInv, GrowInv
  <1>2. node[t] \in Nodes /\ BucketOf(timestamp[node[t]]) < dequeue_size
    BY <1>1 DEF GrowInv, HandsOk, ReadOk, SoleKnows
  <1>3. CASE place[y] = "bucket"
    BY <1>1, <1>3 DEF SoleKnows
  <1>4. CASE place[y] = "future"
    <2>1. dequeue_size <= BucketOf(timestamp[y])
      BY <1>1, <1>4, FutureBeyond
    <2>2. timestamp[y] \in Nat /\ timestamp[node[t]] \in Nat /\ dequeue_size \in Nat
          /\ BucketOf(timestamp[y]) \in Nat /\ BucketOf(timestamp[node[t]]) \in Nat
      BY <1>1, <1>2, SizesKnown, CoverKnows DEF TypeNodes
    <2>3. BucketOf(timestamp[node[t]]) < BucketOf(timestamp[y])
      BY <1>2, <2>1, <2>2
    <2>4. timestamp[node[t]] < timestamp[y]
      BY <2>2, <2>3, BucketOfMonotone
    <2> QED
      BY <2>2, <2>4
  <1>5. CASE place[y] = "carried"
    <2>1. PICK u \in Threads : carried[u] = y
      BY <1>1, <1>5 DEF GrowInv, HandsOk, CarryOk
    <2>2. carried[u] # NoNode
      BY <2>1, CalendarAssumption
    <2>3. u = t
      BY <1>1, <2>2, OnlyConsumer DEF Seeking
    <2> QED
      BY <1>1, <2>2, <2>3 DEF GrowInv, HandsOk, CarryOk, InsertLabels
  <1> QED
    BY <1>3, <1>4, <1>5 DEF Queued

\* The consumer reports an empty queue only when no event it is answerable for is
\* left: the table is not growing, and both lists are empty.
LEMMA EmptyIsHonest ==
  ASSUME SoleConsumer, SoleInv, NEW t \in Threads, pc[t] = "fut_next", NoFuture(t),
         NEW y \in before[t], y \in Nodes
  PROVE  ~Queued(y)
  <1>1. GrowInv /\ TypeNodes /\ TypeLocals /\ (\A u \in Threads : RoleOf(u)) /\ SoleKnows(t)
    BY TypeParts DEF SoleInv, NBIndInv, GrowInv
  <1>2. old_size[t] # 0 /\ old_size[t] = dequeue_size
    BY <1>1, ExpanderOld DEF SoleInv, SoleGrower
  <1>3. table_size = dequeue_size
    BY <1>1, <1>2, OnlyConsumer DEF SoleInv, SegmentKnown, BeforeSegment
  <1>4. future_list = dequeue_size
    BY <1>1, <1>3, SizesKnown DEF GrowInv, TableOk
  <1>5. \A h \in {future_list, todo_list} : list[h] = <<>>
    BY <1>1, <1>2, <1>4 DEF NoFuture, GrowInv, TableOk, Retired
  <1>6. place[y] # "bucket"
    <2>1. SUFFICES ASSUME place[y] = "bucket" PROVE FALSE
      OBVIOUS
    <2>2. oldCur[t].index < BucketOf(timestamp[y]) /\ BucketOf(timestamp[y]) < table_size
      BY <1>1, <1>2, <2>1 DEF SoleKnows, PassedScan, SoleInv, BucketsInTable
    <2>3. old_size[t] <= oldCur[t].index + 1
      BY <1>1 DEF RoleOf
    <2> QED
      BY <1>1, <1>2, <1>3, <2>2, <2>3, SizesKnown, CoverKnows
  <1>7. place[y] # "future"
    BY <1>1, <1>5, FutureBeyond
  <1>8. place[y] # "carried"
    <2>1. SUFFICES ASSUME NEW u \in Threads, carried[u] = y PROVE FALSE
      BY <1>1 DEF GrowInv, HandsOk, CarryOk
    <2>2. carried[u] # NoNode
      BY <2>1, CalendarAssumption
    <2>3. u = t
      BY <1>1, <1>2, <2>2, OnlyConsumer
    <2> QED
      BY <1>1, <2>2, <2>3 DEF GrowInv, HandsOk, CarryOk, InsertLabels
  <1> QED
    BY <1>6, <1>7, <1>8 DEF Queued

\* Every answer is right when it is given, and stays right until it is returned.
LEMMA SoleAnswersStep ==
  ASSUME NEW t \in Threads, SoleStep(t)
  PROVE  TakenInOrder' /\ HonestEmpty'
  <1>1. SUFFICES ASSUME NEW u \in Threads, pc'[u] = "answered", NEW y \in before'[u], Queued(y)'
                 PROVE  node'[u] # NoNode /\ timestamp'[node'[u]] <= timestamp'[y]
    BY DEF TakenInOrder, HonestEmpty
  <1>2. SoleConsumer /\ SoleInv
    BY DEF SoleStep
  <1>3. before'[u] = before[u]
    BY <1>1, SoleFacts DEF SoleMove, LocalsOf
  <1>4. y \in settled
    BY <1>1, <1>3, SoleFacts DEF RoleOf
  <1>5. y \in Nodes /\ Queued(y) /\ timestamp'[y] = timestamp[y]
    BY <1>1, <1>4, QueuedBefore
  <1>6. CASE u = t /\ DeqMark(t)
    <2>1. pc[t] = "mark" /\ place[node[t]] = "bucket" /\ node' = node /\ timestamp' = timestamp
      BY <1>6 DEF DeqMark
    <2>2. node[t] # NoNode
      BY <2>1, SoleFacts, CalendarAssumption DEF GrowInv, HandsOk, ReadOk
    <2> QED
      BY <1>2, <1>3, <1>5, <1>6, <2>1, <2>2, TakenIsFirst
  <1>7. CASE u = t /\ DeqFutureNext(t) /\ NoFuture(t)
    <2>1. pc[t] = "fut_next"
      BY <1>7 DEF DeqFutureNext
    <2> QED
      BY <1>2, <1>3, <1>5, <1>7, <2>1, EmptyIsHonest
  <1>8. CASE u # t
    <2>1. pc[u] = "answered" /\ node'[u] = node[u]
      BY <1>1, <1>8, SoleFacts DEF LocalsOf
    <2>2. node[u] # NoNode /\ timestamp[node[u]] <= timestamp[y]
      BY <1>1, <1>2, <1>3, <1>5, <2>1 DEF SoleInv, TakenInOrder, HonestEmpty
    <2>3. node[u] \in Nodes /\ place[node[u]] # "unused"
      BY <2>1, <2>2, SoleFacts DEF RoleOf, TypeLocals, SomeNode
    <2>4. timestamp'[node[u]] = timestamp[node[u]]
      BY <2>3, SoleFacts, UsedStays
    <2> QED
      BY <1>5, <2>1, <2>2, <2>4
  <1> QED
    BY <1>1, <1>6, <1>7, <1>8, SoleFacts DEF SoleMove

\* The initial states satisfy the invariant.
LEMMA SoleInit == NBInit => SoleInv
  <1> SUFFICES ASSUME NBInit PROVE SoleInv
    OBVIOUS
  <1>1. NBIndInv
    BY NBIndInit
  <1>2. \A t \in Threads : RoleOf(t)
    BY DEF NBInit, Init, RoleOf, Seeking, TodoLabels, Flushing
  <1>3. SoleGrower /\ SegmentKnown /\ CarriedAhead /\ BucketsInTable
    BY DEF NBInit, Init, SoleGrower, SegmentKnown, CarriedAhead, BucketsInTable
  <1>4. \A t \in Threads : SoleKnows(t)
    BY DEF NBInit, Init, SoleKnows
  <1>5. TakenInOrder /\ HonestEmpty
    BY DEF NBInit, Init, TakenInOrder, HonestEmpty
  <1> QED
    BY <1>1, <1>2, <1>3, <1>4, <1>5 DEF SoleInv

\* A step that changes nothing keeps the invariant.
LEMMA SoleStutter == SoleInv /\ NBIndInv' /\ UNCHANGED allVars => SoleInv'
  <1> SUFFICES ASSUME SoleInv, NBIndInv', UNCHANGED allVars PROVE SoleInv'
    OBVIOUS
  <1> USE DEF SoleInv, allVars, vars, shared, nodes, locals, history, added, heads, locals2
  <1>1. (\A t \in Threads : RoleOf(t))'
    BY DEF RoleOf, InEnqueue
  <1>2. SoleGrower' /\ SegmentKnown' /\ CarriedAhead' /\ BucketsInTable'
    BY DEF SoleGrower, SegmentKnown, CarriedAhead, BucketsInTable
  <1>3. (\A t \in Threads : SoleKnows(t))'
    BY DEF SoleKnows, PassedScan
  <1>4. TakenInOrder' /\ HonestEmpty'
    BY DEF TakenInOrder, HonestEmpty, Queued
  <1> QED
    BY <1>1, <1>2, <1>3, <1>4

\* Every step keeps the invariant, as long as one thread dequeues.
LEMMA SoleIndStep ==
  MarksDistinct /\ InitMarkUndrawn /\ SoleConsumer /\ SoleInv /\ [NBNext]_allVars => SoleInv'
  <1> SUFFICES ASSUME MarksDistinct, InitMarkUndrawn, SoleConsumer, SoleInv, [NBNext]_allVars
               PROVE  SoleInv'
    OBVIOUS
  <1>1. NBIndInv'
    BY NBIndStep DEF SoleInv
  <1>2. ASSUME NEW t \in Threads, NBCall(t) \/ NBStep(t) PROVE SoleInv'
    <2>1. SoleStep(t)
      BY <1>2 DEF SoleStep
    <2>2. (\A u \in Threads : RoleOf(u)') /\ SoleGrower' /\ SegmentKnown' /\ CarriedAhead' /\ BucketsInTable'
      BY <2>1, RoleAll, GrowerStep, SegmentStep, CarriedStep, InTableStep
    <2>3. (\A u \in Threads : SoleKnows(u)') /\ TakenInOrder' /\ HonestEmpty'
      BY <2>1, KnowsStep, SoleAnswersStep
    <2> QED
      BY <1>1, <2>2, <2>3 DEF SoleInv
  <1> QED
    BY <1>1, <1>2, SoleStutter DEF NBNext

\* The invariant of the queue when one thread dequeues.
THEOREM SoleInvariance == ASSUME MarksDistinct, InitMarkUndrawn, SoleConsumer
                          PROVE NBSpec => []SoleInv
  <1>1. NBInit => SoleInv
    BY SoleInit
  <1>2. SoleInv /\ [NBNext]_allVars => SoleInv'
    BY SoleIndStep
  <1> QED
    BY <1>1, <1>2, PTL DEF NBSpec

\* One consumer never gets an event larger than one it is answerable for, even
\* while it grows the table.
THEOREM SoleOrder == ASSUME MarksDistinct, InitMarkUndrawn, SoleConsumer
                     PROVE NBSpec => []TakenInOrder
  <1>1. SoleInv => TakenInOrder
    BY DEF SoleInv
  <1> QED
    BY <1>1, SoleInvariance, PTL

\* One consumer never reports an empty queue while an event it is answerable for
\* is left.
THEOREM SoleEmpty == ASSUME MarksDistinct, InitMarkUndrawn, SoleConsumer
                     PROVE NBSpec => []HonestEmpty
  <1>1. SoleInv => HonestEmpty
    BY DEF SoleInv
  <1> QED
    BY <1>1, SoleInvariance, PTL

-----------------------------------------------------------------------------
\* The pool sees nothing of the step of thread t.
PoolStill(t) ==
  /\ \A m \in Nodes : PoolPlace(m)' = PoolPlace(m)
  /\ NBPoolOp(t)' = NBPoolOp(t)
  /\ NBPoolNode(t)' = NBPoolNode(t)
  /\ UNCHANGED <<timestamp, settled, before>>

\* The steps that the pool sees.
PoolSees(t) ==
  \/ \E n \in Nodes, ts \in Timestamps : NBEnqueueCall(t, n, ts)
  \/ Insert(t) \/ (InsPush(t) /\ Inserting(t) /\ ~UNCHANGED place)
  \/ EnqueueReturn(t)
  \/ NBDequeueCall(t)
  \/ DeqMark(t) \/ (DeqFutureNext(t) /\ NoFuture(t))
  \/ DequeueReturn(t)

\* A step is one of those, or the pool sees nothing of it.
LEMMA PoolKinds ==
  ASSUME GrowInv, SoleConsumer, NEW t \in Threads, NBCall(t) \/ NBStep(t), RoleOf(t)
  PROVE  PoolSees(t) \/ PoolStill(t)
  <1>1. TypePc /\ TypeLocals /\ TypeNodes
    BY TypeParts DEF GrowInv
  <1>2. InEnqueue(t) => node[t] \in Nodes /\ node[t] # NoNode
    BY CalendarAssumption DEF GrowInv, HandsOk, NewOk
  <1>3. \A n \in Nodes : n # NoNode
    BY CalendarAssumption
  <1> USE <1>1, <1>2, <1>3
      DEF PoolStill, PoolSees, PoolPlace, NBPoolOp, NBPoolNode, Queued, RoleOf, SoleConsumer, InEnqueue,
          Enqueuing, Flushing, InsertLabels, TodoLabels, TypePc, TypeLocals, TypeNodes,
          nodes, locals, history, locals2, added, Goto, Set, Forget
  <1>4. ASSUME NEW n \in Nodes, NEW ts \in Timestamps, NBEnqueueCall(t, n, ts)
        PROVE  PoolSees(t) \/ PoolStill(t)
    BY <1>4 DEF NBEnqueueCall, AllocateNode
  <1>5. ASSUME InsHead(t) PROVE PoolSees(t) \/ PoolStill(t)
    BY <1>5 DEF InsHead
  <1>6. ASSUME InsNext(t) PROVE PoolSees(t) \/ PoolStill(t)
    BY <1>6 DEF InsNext
  <1>7. ASSUME InsPush(t) PROVE PoolSees(t) \/ PoolStill(t)
    BY <1>7, PushFrame, PushDoes, InHand DEF NodeInHand, Inserting
  <1>8. ASSUME MoveUnlink(t), UNCHANGED added PROVE PoolSees(t) \/ PoolStill(t)
    BY <1>8 DEF MoveUnlink, UnlinkIn
  <1>9. ASSUME Move(t) PROVE PoolSees(t) \/ PoolStill(t)
    BY <1>9, InHand DEF Move
  <1>10. ASSUME LoopHead(t) PROVE PoolSees(t) \/ PoolStill(t)
    BY <1>10 DEF LoopHead
  <1>11. ASSUME LoopNext(t) PROVE PoolSees(t) \/ PoolStill(t)
    BY <1>11 DEF LoopNext
  <1>12. ASSUME LoopEnd(t) PROVE PoolSees(t) \/ PoolStill(t)
    BY <1>12 DEF LoopEnd
  <1>13. ASSUME CollaborativeReturn(t) PROVE PoolSees(t) \/ PoolStill(t)
    BY <1>13 DEF CollaborativeReturn
  <1>14. ASSUME PopHead(t) PROVE PoolSees(t) \/ PoolStill(t)
    BY <1>14 DEF PopHead
  <1>15. ASSUME PopNext(t) PROVE PoolSees(t) \/ PoolStill(t)
    BY <1>15 DEF PopNext
  <1>16. ASSUME PopCas(t) PROVE PoolSees(t) \/ PoolStill(t)
    <2>1. pc[t] = "pop_cas" /\ node' = node /\ UNCHANGED <<timestamp, settled, before>>
      BY <1>16, PopFrame
    <2>2. UNCHANGED place \/ (place' = [place EXCEPT ![first[t]] = "carried"] /\ place[first[t]] = "future")
      BY <1>16, PopTakes
    <2>3. pc'[t] \in {"ins_head", "pop_next"} /\ node[t] = NoNode
      BY <1>16, <2>1, PopDoes
    <2>4. \A m \in Nodes : PoolPlace(m)' = PoolPlace(m)
      BY <2>2
    <2> QED
      BY <2>1, <2>3, <2>4
  <1>17. ASSUME Unlink(t), UNCHANGED added PROVE PoolSees(t) \/ PoolStill(t)
    BY <1>17 DEF Unlink, UnlinkIn
  <1>18. ASSUME Insert(t), UNCHANGED added PROVE PoolSees(t) \/ PoolStill(t)
    BY <1>18 DEF Insert, DrawMark
  <1>19. ASSUME FlushRead(t), UNCHANGED added PROVE PoolSees(t) \/ PoolStill(t)
    BY <1>19 DEF FlushRead
  <1>20. ASSUME FlushCas(t), UNCHANGED added PROVE PoolSees(t) \/ PoolStill(t)
    BY <1>20 DEF FlushCas
  <1>21. ASSUME EnqueueReturn(t), UNCHANGED added, ~Collaborative
        PROVE  PoolSees(t) \/ PoolStill(t)
    BY <1>21 DEF EnqueueReturn
  <1>22. ASSUME NBDequeueCall(t) PROVE PoolSees(t) \/ PoolStill(t)
    BY <1>22 DEF NBDequeueCall, DequeueCall, Queued
  <1>23. ASSUME DeqRead(t), UNCHANGED added PROVE PoolSees(t) \/ PoolStill(t)
    BY <1>23 DEF DeqRead
  <1>24. ASSUME DeqScan(t), UNCHANGED added PROVE PoolSees(t) \/ PoolStill(t)
    BY <1>24 DEF DeqScan
  <1>25. ASSUME DeqMark(t), UNCHANGED added PROVE PoolSees(t) \/ PoolStill(t)
    BY <1>25 DEF DeqMark
  <1>26. ASSUME DeqMarkFails(t), UNCHANGED added PROVE PoolSees(t) \/ PoolStill(t)
    BY <1>26 DEF DeqMarkFails
  <1>27. ASSUME DeqNextBucket(t), UNCHANGED added PROVE PoolSees(t) \/ PoolStill(t)
    BY <1>27 DEF DeqNextBucket
  <1>28. ASSUME DeqAdvance(t), UNCHANGED added PROVE PoolSees(t) \/ PoolStill(t)
    BY <1>28 DEF DeqAdvance, DrawMark
  <1>29. ASSUME DequeueReturn(t), UNCHANGED added PROVE PoolSees(t) \/ PoolStill(t)
    BY <1>29 DEF DequeueReturn
  <1>30. ASSUME DeqTableEnd(t) PROVE PoolSees(t) \/ PoolStill(t)
    BY <1>30 DEF DeqTableEnd
  <1>31. ASSUME DeqFutureHead(t) PROVE PoolSees(t) \/ PoolStill(t)
    BY <1>31 DEF DeqFutureHead
  <1>32. ASSUME DeqFutureNext(t) PROVE PoolSees(t) \/ PoolStill(t)
    BY <1>32 DEF DeqFutureNext
  <1>33. ASSUME ExpandCheck(t) PROVE PoolSees(t) \/ PoolStill(t)
    BY <1>33 DEF ExpandCheck
  <1>34. ASSUME ExpandFuture(t) PROVE PoolSees(t) \/ PoolStill(t)
    BY <1>34 DEF ExpandFuture
  <1>35. ASSUME ExpandAlloc(t) PROVE PoolSees(t) \/ PoolStill(t)
    BY <1>35 DEF ExpandAlloc
  <1>36. ASSUME ExpandTodo(t) PROVE PoolSees(t) \/ PoolStill(t)
    BY <1>36 DEF ExpandTodo
  <1>37. ASSUME ExpandTodoCas(t) PROVE PoolSees(t) \/ PoolStill(t)
    BY <1>37 DEF ExpandTodoCas
  <1>38. ASSUME ExpandNewFuture(t) PROVE PoolSees(t) \/ PoolStill(t)
    BY <1>38 DEF ExpandNewFuture
  <1>39. ASSUME ExpandMarkHead(t) PROVE PoolSees(t) \/ PoolStill(t)
    BY <1>39 DEF ExpandMarkHead
  <1>40. ASSUME ExpandMarkNext(t) PROVE PoolSees(t) \/ PoolStill(t)
    BY <1>40 DEF ExpandMarkNext
  <1>41. ASSUME ExpandMarkCas(t) PROVE PoolSees(t) \/ PoolStill(t)
    BY <1>41 DEF ExpandMarkCas
  <1>42. ASSUME ExpandSize(t) PROVE PoolSees(t) \/ PoolStill(t)
    BY <1>42 DEF ExpandSize
  <1> QED
    BY <1>4, <1>5, <1>6, <1>7, <1>8, <1>9, <1>10, <1>11, <1>12, <1>13, <1>14, <1>15,
       <1>16, <1>17, <1>18, <1>19, <1>20, <1>21, <1>22, <1>23, <1>24, <1>25, <1>26, <1>27,
       <1>28, <1>29, <1>30, <1>31, <1>32, <1>33, <1>34, <1>35, <1>36, <1>37, <1>38, <1>39,
       <1>40, <1>41, <1>42
       DEF NBCall, NBStep, NBEnqueueStep, InsertStep, TodoStep, NBDequeueStep, ExpandStep, Unchanged

\* The pool sees nothing of the other threads.
LEMMA OthersOp ==
  ASSUME NEW t \in Threads, SoleStep(t), NEW u \in Threads \ {t}
  PROVE  NBPoolOp(u)' = NBPoolOp(u) /\ NBPoolNode(u)' = NBPoolNode(u)
  <1>1. pc'[u] = pc[u] /\ node'[u] = node[u] /\ RoleOf(u)
    BY SoleFacts DEF LocalsOf
  <1>2. ASSUME InEnqueue(u) PROVE (place'[node[u]] = "held") <=> (place[node[u]] = "held")
    <2>1. node[u] \in Nodes /\ place[node[u]] # "unused"
      BY <1>2, SoleFacts DEF GrowInv, HandsOk, NewOk, SettledDone
    <2>2. ~(Inserting(t) /\ node[u] = node[t])
      BY <1>2, SoleFacts DEF GrowInv, HandsOk, NewOk, SettledDone
    <2>3. place[node[u]] = "held" => place'[node[u]] = "held"
      BY <2>1, <2>2, SoleFacts DEF PlaceMove, NodeMoves, TypeNodes
    <2> QED
      BY <2>1, <2>3, HeldIsNew
  <1> QED
    BY <1>1, <1>2 DEF NBPoolOp, NBPoolNode, RoleOf

\* What the pool knows of a thread and of a node.
LEMMA PoolReads ==
  ASSUME NEW t \in Threads, SoleStep(t)
  PROVE  /\ pc[t] \in {"idle", "answered"} => NBPoolOp(t) = pc[t]
         /\ Inserting(t) => NBPoolOp(t) = "enqueue" /\ NBPoolNode(t) = node[t] /\ node[t] \in Nodes /\ place[node[t]] = "held"
         /\ pc[t] = "enqueued" => NBPoolOp(t) = "inserted" /\ NBPoolNode(t) = node[t] /\ node[t] \in Nodes
         /\ pc[t] \in {"mark", "fut_next"} => NBPoolOp(t) = "dequeue" /\ NBPoolNode(t) = NoNode
         /\ pc[t] = "fut_next" => node[t] = NoNode
         /\ pc[t] = "idle" => node[t] = NoNode
         /\ \A n \in Nodes : PoolPlace(n) = "queued" <=> Queued(n)
  <1>1. InEnqueue(t) => node[t] \in Nodes /\ node[t] # NoNode
    BY SoleFacts, CalendarAssumption DEF GrowInv, HandsOk, NewOk
  <1>2. Inserting(t) => InEnqueue(t) /\ place[node[t]] = "held" /\ pc[t] \notin {"idle", "answered", "mark"}
    BY SoleFacts DEF GrowInv, HandsOk, NewOk, Inserting, InsertLabels
  <1>3. pc[t] = "enqueued" => InEnqueue(t) /\ place[node[t]] # "held"
    BY SoleFacts DEF RoleOf, InEnqueue, Enqueuing
  <1>4. pc[t] \in {"idle", "fut_next"} => ~InEnqueue(t)
    BY DEF InEnqueue, Enqueuing, InsertLabels, TodoLabels
  <1>5. pc[t] \in {"idle", "fut_next"} => node[t] = NoNode
    BY <1>4, SoleFacts DEF RoleOf
  <1>6. \A n \in Nodes : PoolPlace(n) = "queued" <=> Queued(n)
    BY SoleFacts DEF PoolPlace, Queued, TypeNodes, AllPlaces, PlacesHere
  <1> QED
    BY <1>1, <1>2, <1>3, <1>5, <1>6 DEF NBPoolOp, NBPoolNode

\* A step of the queue with one consumer is a step of the pool, or none.
LEMMA NBPoolStep ==
  ASSUME NEW t \in Threads, SoleStep(t)
  PROVE  [NBPool!Next]_(NBPool!vars)
  <1>1. TypePc /\ TypeLocals /\ TypeNodes
    BY SoleFacts
  <1>2. \A u \in Threads \ {t} : NBPoolOp(u)' = NBPoolOp(u) /\ NBPoolNode(u)' = NBPoolNode(u)
    BY OthersOp
  <1> USE <1>1 DEF TypePc, TypeLocals, TypeNodes, shared, nodes, locals, history, Goto, Forget, Set
  <1>3. ASSUME PoolStill(t) PROVE UNCHANGED NBPool!vars
    <2>1. \A m \in Nodes : PoolPlace(m)' = PoolPlace(m)
      BY <1>3 DEF PoolStill
    <2>2. \A u \in Threads : NBPoolOp(u)' = NBPoolOp(u) /\ NBPoolNode(u)' = NBPoolNode(u)
      BY <1>2, <1>3 DEF PoolStill
    <2>3. UNCHANGED <<timestamp, settled, before>>
      BY <1>3 DEF PoolStill
    <2> QED
      BY ONLY <2>1, <2>2, <2>3 DEF NBPool!vars
  <1>4. ASSUME NEW n \in Nodes, NEW ts \in Timestamps, NBEnqueueCall(t, n, ts)
        PROVE  NBPool!EnqueueCall(t, n, ts)
    <2>1. pc[t] = "idle" /\ pc'[t] = "ins_head" /\ node' = [node EXCEPT ![t] = n] /\ place[n] = "unused"
          /\ place' = [place EXCEPT ![n] = "held"]
      BY <1>4 DEF NBEnqueueCall, AllocateNode
    <2>2. NBPoolOp(t) = "idle"
      BY <2>1, PoolReads
    <2>3. NBPoolOp(t)' = "enqueue" /\ NBPoolNode(t)' = n
      BY <2>1, CalendarAssumption DEF NBPoolOp, NBPoolNode
    <2>4. \A m \in Nodes : PoolPlace(m)' = IF m = n THEN "held" ELSE PoolPlace(m)
      BY <2>1 DEF PoolPlace, Queued
    <2>5. PoolPlace(n) = "unused"
      BY <2>1 DEF PoolPlace, Queued
    <2>6. timestamp' = [timestamp EXCEPT ![n] = ts] /\ UNCHANGED <<settled, before>>
      BY <1>4 DEF NBEnqueueCall, AllocateNode
    <2>7. t \in Threads /\ n \in Nodes
      OBVIOUS
    <2> QED
      BY ONLY <1>2, <2>2, <2>3, <2>4, <2>5, <2>6, <2>7 DEF NBPool!EnqueueCall
  <1>5. ASSUME Insert(t) \/ (InsPush(t) /\ Inserting(t) /\ ~UNCHANGED place)
        PROVE  NBPool!Insert(t)
    <2>1. Inserting(t)
      BY <1>5 DEF Insert, Inserting
    <2>2. NBPoolOp(t) = "enqueue" /\ NBPoolNode(t) = node[t] /\ node[t] \in Nodes /\ node[t] # NoNode
      BY <2>1, PoolReads, CalendarAssumption
    <2>3. /\ place' = [place EXCEPT ![node[t]] = "bucket"] \/ place' = [place EXCEPT ![node[t]] = "future"]
          /\ pc'[t] \in {"flush_read", "enqueued"} /\ node' = node
          /\ UNCHANGED <<timestamp, settled, before>>
      <3>1. CASE Insert(t)
        BY <3>1 DEF Insert
      <3>2. CASE InsPush(t) /\ ~UNCHANGED place
        <4>1. pc[t] = "ins_push"
          BY <3>2, PushFrame
        <4>2. carried[t] = NoNode
          BY <2>1, <4>1 DEF Inserting
        <4>3. old_size[t] = 0
          BY <2>1, <4>1, SoleFacts DEF GrowInv, HandsOk, NewOk, InEnqueue, Enqueuing
        <4> QED
          BY <3>2, <4>2, <4>3, SoleFacts, PushDoes, PushFrame DEF NodeInHand
      <3> QED
        BY <1>5, <3>1, <3>2
    <2>4. NBPoolOp(t)' = "inserted" /\ NBPoolNode(t)' = node[t]
      BY <2>2, <2>3 DEF NBPoolOp, NBPoolNode
    <2>5. \A m \in Nodes : PoolPlace(m)' = IF m = node[t] THEN "queued" ELSE PoolPlace(m)
      BY <2>3 DEF PoolPlace, Queued
    <2>6. t \in Threads
      OBVIOUS
    <2> QED
      BY ONLY <1>2, <2>2, <2>3, <2>4, <2>5, <2>6 DEF NBPool!Insert
  <1>6. ASSUME EnqueueReturn(t) PROVE NBPool!EnqueueReturn(t)
    <2>1. pc[t] = "enqueued" /\ pc'[t] = "idle" /\ node' = [node EXCEPT ![t] = NoNode] /\ place' = place
          /\ settled' = settled \cup {node[t]} /\ UNCHANGED <<timestamp, before>>
      BY <1>6 DEF EnqueueReturn
    <2>2. NBPoolOp(t) = "inserted" /\ NBPoolNode(t) = node[t]
      BY <2>1, PoolReads
    <2>3. NBPoolOp(t)' = "idle" /\ NBPoolNode(t)' = NoNode
      BY <2>1 DEF NBPoolOp, NBPoolNode
    <2>4. \A m \in Nodes : PoolPlace(m)' = PoolPlace(m)
      BY <2>1 DEF PoolPlace, Queued
    <2>5. t \in Threads
      OBVIOUS
    <2> QED
      BY ONLY <1>2, <2>1, <2>2, <2>3, <2>4, <2>5 DEF NBPool!EnqueueReturn
  <1>7. ASSUME NBDequeueCall(t) PROVE NBPool!DequeueCall(t)
    <2>1. pc[t] = "idle" /\ pc'[t] = "deq_read" /\ node' = node /\ place' = place
          /\ before' = [before EXCEPT ![t] = {m \in settled : Queued(m)}] /\ UNCHANGED <<timestamp, settled>>
      BY <1>7 DEF NBDequeueCall, DequeueCall
    <2>2. NBPoolOp(t) = "idle" /\ node[t] = NoNode
      BY <2>1, PoolReads
    <2>3. NBPoolOp(t)' = "dequeue" /\ NBPoolNode(t)' = NBPoolNode(t)
      BY <2>1, <2>2 DEF NBPoolOp, NBPoolNode
    <2>4. \A m \in Nodes : PoolPlace(m)' = PoolPlace(m)
      BY <2>1 DEF PoolPlace, Queued
    <2>5. {m \in settled : Queued(m)} = {m \in settled : PoolPlace(m) = "queued"} /\ settled \subseteq Nodes
      BY PoolReads
    <2>6. t \in Threads
      OBVIOUS
    <2> QED
      BY ONLY <1>2, <2>1, <2>2, <2>3, <2>4, <2>5, <2>6 DEF NBPool!DequeueCall, NBPool!Queued
  <1>8. ASSUME DeqMark(t) PROVE node[t] \in Nodes /\ NBPool!Take(t, node[t])
    <2>1. pc[t] = "mark" /\ pc'[t] = "answered" /\ node' = node /\ place[node[t]] = "bucket"
          /\ place' = [place EXCEPT ![node[t]] = "taken"] /\ UNCHANGED <<timestamp, settled, before>>
      BY <1>8 DEF DeqMark
    <2>2. node[t] \in Nodes
      BY <2>1, SoleFacts DEF GrowInv, HandsOk, ReadOk
    <2>3. NBPoolOp(t) = "dequeue"
      BY <2>1, PoolReads
    <2>4. NBPoolOp(t)' = "answered" /\ NBPoolNode(t)' = node[t]
      BY <2>1 DEF NBPoolOp, NBPoolNode
    <2>5. \A m \in Nodes : PoolPlace(m)' = IF m = node[t] THEN "taken" ELSE PoolPlace(m)
      BY <2>1 DEF PoolPlace, Queued
    <2>6. PoolPlace(node[t]) = "queued"
      BY <2>1 DEF PoolPlace, Queued
    <2>7. \A y \in before[t] : y \in Nodes /\ (PoolPlace(y) = "queued" => timestamp[node[t]] <= timestamp[y])
      BY <2>1, PoolReads, TakenIsFirst DEF SoleStep
    <2>8. t \in Threads
      OBVIOUS
    <2>9. NBPool!Take(t, node[t])
      BY ONLY <1>2, <2>1, <2>2, <2>3, <2>4, <2>5, <2>6, <2>7, <2>8 DEF NBPool!Take, NBPool!Queued
    <2> QED
      BY <2>2, <2>9
  <1>9. ASSUME DeqFutureNext(t), NoFuture(t) PROVE NBPool!Empty(t)
    <2>1. pc[t] = "fut_next" /\ pc'[t] = "answered" /\ node' = node /\ place' = place /\ UNCHANGED <<timestamp, settled, before>>
      BY <1>9 DEF DeqFutureNext
    <2>2. NBPoolOp(t) = "dequeue" /\ NBPoolNode(t) = NoNode /\ node[t] = NoNode
      BY <2>1, PoolReads
    <2>3. NBPoolOp(t)' = "answered" /\ NBPoolNode(t)' = NBPoolNode(t)
      BY <2>1, <2>2 DEF NBPoolOp, NBPoolNode
    <2>4. \A m \in Nodes : PoolPlace(m)' = PoolPlace(m)
      BY <2>1 DEF PoolPlace, Queued
    <2>5. \A y \in before[t] : y \in Nodes /\ PoolPlace(y) # "queued"
      BY <1>9, <2>1, PoolReads, EmptyIsHonest DEF SoleStep
    <2>6. t \in Threads
      OBVIOUS
    <2> QED
      BY ONLY <1>2, <2>1, <2>2, <2>3, <2>4, <2>5, <2>6 DEF NBPool!Empty, NBPool!Queued
  <1>10. ASSUME DequeueReturn(t) PROVE NBPool!DequeueReturn(t)
    <2>1. pc[t] = "answered" /\ pc'[t] = "idle" /\ node' = [node EXCEPT ![t] = NoNode] /\ place' = place
          /\ before' = [before EXCEPT ![t] = {}] /\ UNCHANGED <<timestamp, settled>>
      BY <1>10 DEF DequeueReturn
    <2>2. NBPoolOp(t) = "answered"
      BY <2>1, PoolReads
    <2>3. NBPoolOp(t)' = "idle" /\ NBPoolNode(t)' = NoNode
      BY <2>1 DEF NBPoolOp, NBPoolNode
    <2>4. \A m \in Nodes : PoolPlace(m)' = PoolPlace(m)
      BY <2>1 DEF PoolPlace, Queued
    <2>5. t \in Threads
      OBVIOUS
    <2> QED
      BY ONLY <1>2, <2>1, <2>2, <2>3, <2>4, <2>5 DEF NBPool!DequeueReturn
  <1>11. PoolSees(t) \/ PoolStill(t)
    BY SoleFacts, PoolKinds DEF SoleStep
  <1>12. NBPool!Next \/ UNCHANGED NBPool!vars
    BY ONLY t \in Threads, <1>3, <1>4, <1>5, <1>6, <1>7, <1>8, <1>9, <1>10, <1>11 DEF PoolSees, NBPool!Next
  <1> QED
    BY <1>12

\* queue_init() gives an empty pool.
LEMMA NBPoolInit == NBInit => NBPool!Init
  BY DEF NBInit, Init, NBPool!Init, PoolPlace, NBPoolOp, NBPoolNode, Queued

\* With one consumer the whole queue, growing table included, implements the pool.
THEOREM NBRefinement == ASSUME MarksDistinct, InitMarkUndrawn, SoleConsumer
                        PROVE NBSpec => NBImplementsPool
  <1>1. SoleInv /\ [NBNext]_allVars => [NBPool!Next]_(NBPool!vars)
    <2>1. ASSUME SoleInv, NBNext PROVE [NBPool!Next]_(NBPool!vars)
      BY <2>1, NBPoolStep DEF NBNext, SoleStep
    <2>2. ASSUME UNCHANGED allVars PROVE UNCHANGED NBPool!vars
      BY <2>2 DEF allVars, vars, nodes, history, NBPool!vars, PoolPlace, NBPoolOp, NBPoolNode, Queued
    <2> QED
      BY <2>1, <2>2
  <1> QED
    BY <1>1, SoleInvariance, NBPoolInit, PTL DEF NBSpec, NBImplementsPool, NBPool!Spec

\* With lids from 1 on and marks below 2^32, one consumer sees the pool.
THEOREM NBRefinementFromLidOne == ASSUME NoMarkLost, 0 \notin Threads, SoleConsumer
                                  PROVE NBSpec => NBImplementsPool
  BY MarksAboveInit, MarksStayDistinct, NBRefinement
=============================================================================
