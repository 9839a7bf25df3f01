--------------------------- MODULE CalendarProofs ---------------------------
(***************************************************************************)
(* Proofs about modules Marks and Calendar: the marks do not repeat, and   *)
(* the invariant that makes the cursor protocol work, for any number of    *)
(* threads, nodes and buckets.                                             *)
(***************************************************************************)
EXTENDS Calendar, NumberLemmas

-----------------------------------------------------------------------------
\* The marks.  generate_mark() before its 32-bit mask never repeats itself:
\* Cantor's pairing function is injective.  Two equal marks are therefore the
\* work of the mask alone.

\* A pair can be read back from its Cantor number.
LEMMA CantorInjective ==
  ASSUME NEW a \in Nat, NEW b \in Nat, NEW c \in Nat, NEW d \in Nat,
         Cantor(a, b) = Cantor(c, d)
  PROVE  a = c /\ b = d
  <1>1. Cantor(a, b) = PairNumber(a, b) /\ Cantor(c, d) = PairNumber(c, d)
    BY DEF Cantor, Triangle, PairNumber, PairRow
  <1> QED
    BY <1>1, PairsApart

\* A Cantor number is a natural.
LEMMA CantorNat ==
  ASSUME NEW a \in Nat, NEW b \in Nat
  PROVE  Cantor(a, b) \in Nat
  BY PairsApart DEF Cantor, Triangle, PairNumber, PairRow

\* As long as the mask drops no bit, the marks of two calls of
\* generate_mark() differ: by another thread, or by the same one later.
THEOREM MarksUnique ==
  ASSUME MarkRange \in Nat \ {0},
         NEW t \in Nat, NEW k \in Nat, Cantor(t, k) < MarkRange,
         NEW u \in Nat, NEW j \in Nat, Cantor(u, j) < MarkRange,
         GenerateMark(t, k) = GenerateMark(u, j)
  PROVE  t = u /\ k = j
  <1>1. \A m \in Nat : m < MarkRange => m % MarkRange = m
    OBVIOUS
  <1>2. Cantor(t, k) = Cantor(u, j)
    BY <1>1, CantorNat DEF GenerateMark
  <1> QED
    BY <1>2, CantorInjective

-----------------------------------------------------------------------------
\* The cursor.

\* Two calls of generate_mark() return different marks.
MarksDistinct ==
  \A t, u \in Threads : \A i, j \in 0 .. MaxMarks - 1 :
    GenerateMark(t, i) = GenerateMark(u, j) => t = u /\ i = j

Enqueuing == {"insert", "flush_read", "flush_cas", "enqueued"}
Flushing  == {"flush_read", "flush_cas"}
Looking   == {"scan", "tail", "advance"}

\* A node is in the hands of one enqueue(), and is linked once.
NodesOwned ==
  /\ \A t \in Threads : pc[t] \in Enqueuing =>
       /\ node[t] \in Nodes \ settled
       /\ BucketOf(timestamp[node[t]]) < InitSize
       /\ pc[t] = "insert" => place[node[t]] = "held"
       /\ pc[t] # "insert" => place[node[t]] \in {"bucket", "taken", "unlinked"}
  /\ \A t, u \in Threads :
       pc[t] \in Enqueuing /\ pc[u] \in Enqueuing /\ node[t] = node[u] => t = u

\* The nodes that other parts of the state speak of have been linked.
NodesLinked ==
  /\ \A n \in settled : place[n] \in {"bucket", "taken", "unlinked"}
  /\ \A n \in Nodes : place[n] = "bucket" => BucketOf(timestamp[n]) < InitSize
  /\ \A t \in Threads : before[t] \subseteq settled
  /\ \A t \in Threads :
       /\ pc[t] = "mark" => node[t] \in Nodes /\ place[node[t]] \in {"bucket", "taken", "unlinked"}
       /\ pc[t] = "answered" => node[t] = NoNode \/ place[node[t]] \in {"taken", "unlinked"}
       /\ pc[t] \in Looking \cup {"idle", "deq_read"} => node[t] = NoNode

\* A mark some thread has drawn.
Drawn(m) == \E p \in Threads : \E k \in 0 .. marks[p] - 1 : m = GenerateMark(p, k)

\* A cursor from which dequeue() can move on carries a drawn mark, and none
\* carries the mark of a flush that is still to be published.
MarksFresh ==
  /\ \A t \in Threads : marks[t] <= MaxMarks
  /\ current.index < InitSize
  /\ current.index + 1 < InitSize => Drawn(current.mark)
  /\ \A t \in Threads : pc[t] \in Looking /\ oldCur[t].index + 1 < InitSize =>
       Drawn(oldCur[t].mark)
  /\ \A t \in Threads : pc[t] \in Flushing =>
       /\ Drawn(newCur[t].mark)
       /\ current.index + 1 < InitSize => current.mark # newCur[t].mark
       /\ \A u \in Threads : pc[u] \in Looking /\ oldCur[u].index + 1 < InitSize =>
            oldCur[u].mark # newCur[t].mark
       /\ \A u \in Threads \ {t} : pc[u] \in Flushing => newCur[u].mark # newCur[t].mark

\* flush_current() writes the bucket of its node, below the index it read.
FlushTarget ==
  \A t \in Threads :
    /\ pc[t] \in Flushing => newCur[t].index = BucketOf(timestamp[node[t]])
    /\ pc[t] = "flush_cas" => newCur[t].index <= oldCur[t].index

\* The nodes flush_current() is done with.
Flushed == settled \cup {node[t] : t \in {u \in Threads : pc[u] = "enqueued"}}

FlushedCovered ==
  \A n \in Flushed : place[n] = "bucket" => current.index <= BucketOf(timestamp[n])

\* A dequeue that found its bucket empty, and whose CAS would still succeed,
\* has missed no flushed node of that bucket.
StaleScanHarmless ==
  \A t \in Threads :
    pc[t] \in {"tail", "advance"} /\ oldCur[t].index + 1 < InitSize /\ oldCur[t] = current =>
      \A n \in Flushed : place[n] = "bucket" => BucketOf(timestamp[n]) # current.index

\* What a running dequeue knows of the nodes it is answerable for.
DequeueKnows ==
  \A t \in Threads : \A y \in before[t] : place[y] = "bucket" =>
    /\ pc[t] = "scan" => oldCur[t].index <= BucketOf(timestamp[y])
    /\ pc[t] \in {"tail", "advance"} => oldCur[t].index < BucketOf(timestamp[y])
    /\ pc[t] = "mark" => timestamp[node[t]] <= timestamp[y]

\* A thread about to move current on can do so.
AdvanceInTable ==
  \A t \in Threads : pc[t] = "advance" => oldCur[t].index + 1 < InitSize

\* The part of the invariant that does not depend on the marks.
Owned == TypeOK /\ NodesOwned /\ NodesLinked

\* The inductive invariant.
IndInv ==
  /\ Owned
  /\ MarksFresh
  /\ FlushTarget
  /\ FlushedCovered
  /\ StaleScanHarmless
  /\ DequeueKnows
  /\ AdvanceInTable
  /\ TakenInOrder
  /\ HonestEmpty

-----------------------------------------------------------------------------
\* No mark that can be drawn is cut by the 32-bit mask.
NoMarkLost == \A t \in Threads : \A k \in 0 .. MaxMarks - 1 : Cantor(t, k) < MarkRange

\* While the mask cuts nothing, the marks of all threads are distinct.
THEOREM MarksStayDistinct == ASSUME NoMarkLost PROVE MarksDistinct
  <1> SUFFICES ASSUME NEW t \in Threads, NEW u \in Threads,
                      NEW i \in 0 .. MaxMarks - 1, NEW j \in 0 .. MaxMarks - 1,
                      GenerateMark(t, i) = GenerateMark(u, j)
               PROVE  t = u /\ i = j
    BY DEF MarksDistinct
  <1>1. t \in Nat /\ u \in Nat /\ i \in Nat /\ j \in Nat /\ MarkRange \in Nat \ {0}
    BY CalendarAssumption
  <1>2. Cantor(t, i) < MarkRange /\ Cantor(u, j) < MarkRange
    BY DEF NoMarkLost
  <1> QED
    BY <1>1, <1>2, MarksUnique

\* A timestamp has a bucket.
LEMMA BucketOfNat == \A a \in Nat : BucketOf(a) \in Nat
  BY CalendarAssumption DEF BucketOf

\* hash() never puts an earlier timestamp in a later bucket.
LEMMA BucketOfMonotone ==
  \A a, b \in Nat : BucketOf(a) < BucketOf(b) => a < b
  BY CalendarAssumption DEF BucketOf

\* A mark is a natural number.
LEMMA MarkNat == \A t \in Threads : \A k \in Nat : GenerateMark(t, k) \in Nat
  <1> TAKE t \in Threads
  <1> TAKE k \in Nat
  <1>1. t + k \in Nat
    BY CalendarAssumption
  <1>2. \A w \in Nat : Triangle(w) \in Nat
    BY DEF Triangle
  <1>3. Cantor(t, k) \in Nat
    BY <1>1, <1>2 DEF Cantor
  <1> QED
    BY <1>3, CalendarAssumption DEF GenerateMark

\* queue_init() owns no node.
LEMMA OwnedInit == Init => Owned
  BY CalendarAssumption
     DEF Init, Owned, TypeOK, NodesOwned, NodesLinked, Cursors, NoCursor, InitMark,
         PlacesHere, Labels, Enqueuing, Looking

\* Every step keeps types and the ownership of nodes, whatever the marks.
LEMMA OwnedStep == Owned /\ [Next]_vars => Owned'
  <1> SUFFICES ASSUME Owned, [Next]_vars PROVE Owned'
    OBVIOUS
  <1> USE CalendarAssumption, BucketOfNat
      DEF Owned, TypeOK, NodesOwned, NodesLinked, Cursors, NoCursor, InitMark, PlacesHere,
          Labels, Enqueuing, Looking, shared, nodes, locals, history, Goto, Forget
  <1>1. ASSUME NEW t \in Threads, NEW n \in Nodes, NEW ts \in Timestamps, EnqueueCall(t, n, ts)
        PROVE Owned'
    BY <1>1 DEF EnqueueCall, AllocateNode
  <1>2. ASSUME NEW t \in Threads, Insert(t) PROVE Owned'
    <2>1. node[t] \in Nodes /\ BucketOf(timestamp[node[t]]) \in Nat /\ NextMark(t) \in Nat
      BY <1>2, MarkNat DEF Insert, NextMark
    <2>2. marks' \in [Threads -> Nat] /\ newCur' \in [Threads -> Cursors]
      BY <1>2, <2>1 DEF Insert, DrawMark
    <2>3. TypeOK'
      BY <1>2, <2>1, <2>2 DEF Insert
    <2>4. NodesOwned'
      BY <1>2, <2>1 DEF Insert
    <2>5. NodesLinked'
      BY <1>2, <2>1 DEF Insert
    <2> QED
      BY <2>3, <2>4, <2>5
  <1>3. ASSUME NEW t \in Threads, FlushRead(t) PROVE Owned'
    <2>1. UNCHANGED <<current, dequeue_size, place, timestamp, node, marks, seen, settled, before>>
      BY <1>3 DEF FlushRead
    <2>2. /\ pc[t] = "flush_read" /\ pc' = [pc EXCEPT ![t] = pc'[t]]
          /\ pc'[t] \in {"flush_cas", "enqueued"}
      BY <1>3 DEF FlushRead
    <2>3. oldCur' \in [Threads -> Cursors] /\ newCur' \in [Threads -> Cursors]
      BY <1>3 DEF FlushRead
    <2>4. TypeOK'
      <3>1. pc' \in [Threads -> Labels]
        BY <2>2
      <3> HIDE DEF Labels, Cursors
      <3> QED
        BY <2>1, <2>3, <3>1
    <2>5. NodesOwned' /\ NodesLinked'
      BY <2>1, <2>2
    <2> QED
      BY <2>4, <2>5
  <1>4. ASSUME NEW t \in Threads, FlushCas(t) PROVE Owned'
    BY <1>4 DEF FlushCas
  <1>5. ASSUME NEW t \in Threads, EnqueueReturn(t) PROVE Owned'
    BY <1>5 DEF EnqueueReturn
  <1>6. ASSUME NEW t \in Threads, DequeueCall(t) PROVE Owned'
    BY <1>6 DEF DequeueCall, Queued
  <1>7. ASSUME NEW t \in Threads, DeqRead(t) PROVE Owned'
    BY <1>7 DEF DeqRead
  <1>8. ASSUME NEW t \in Threads, DeqScan(t) PROVE Owned'
    BY <1>8 DEF DeqScan, Firsts, Bucket
  <1>9. ASSUME NEW t \in Threads, DeqMark(t) PROVE Owned'
    BY <1>9 DEF DeqMark
  <1>10. ASSUME NEW t \in Threads, DeqMarkFails(t) PROVE Owned'
    BY <1>10 DEF DeqMarkFails
  <1>11. ASSUME NEW t \in Threads, DeqNextBucket(t) PROVE Owned'
    BY <1>11 DEF DeqNextBucket
  <1>12. ASSUME NEW t \in Threads, DeqEmpty(t) PROVE Owned'
    BY <1>12 DEF DeqEmpty
  <1>13. ASSUME NEW t \in Threads, DeqAdvance(t) PROVE Owned'
    BY <1>13, MarkNat DEF DeqAdvance, DrawMark, NextMark
  <1>14. ASSUME NEW t \in Threads, DequeueReturn(t) PROVE Owned'
    BY <1>14 DEF DequeueReturn
  <1>15. ASSUME NEW t \in Threads, Unlink(t) PROVE Owned'
    BY <1>15 DEF Unlink, UnlinkIn
  <1>16. CASE UNCHANGED vars
    BY <1>16 DEF vars
  <1> QED
    BY <1>1, <1>2, <1>3, <1>4, <1>5, <1>6, <1>7, <1>8, <1>9, <1>10, <1>11, <1>12, <1>13,
       <1>14, <1>15, <1>16
       DEF Next, Call, Step, EnqueueStep, DequeueStep


\* A mark drawn stays drawn.
LEMMA DrawnStays ==
  ASSUME TypeOK, [Next]_vars
  PROVE  \A m : Drawn(m) => Drawn(m)'
  <1> SUFFICES ASSUME NEW m, Drawn(m) PROVE Drawn(m)'
    OBVIOUS
  <1>1. \A p \in Threads : marks'[p] \in Nat /\ marks'[p] >= marks[p]
    BY DEF TypeOK, Next, Call, Step, EnqueueStep, DequeueStep, vars, locals, DrawMark,
           EnqueueCall, AllocateNode, Unlink, UnlinkIn, Insert, FlushRead, FlushCas,
           EnqueueReturn, DequeueCall, DeqRead, DeqScan, DeqMark, DeqMarkFails, DeqNextBucket,
           DeqEmpty, DeqAdvance, DequeueReturn
  <1>2. PICK p \in Threads : \E k \in 0 .. marks[p] - 1 : m = GenerateMark(p, k)
    BY DEF Drawn
  <1>3. PICK k \in 0 .. marks[p] - 1 : m = GenerateMark(p, k)
    BY <1>2
  <1>4. k \in 0 .. marks'[p] - 1
    BY <1>1, <1>3 DEF TypeOK
  <1> QED
    BY <1>3, <1>4 DEF Drawn

\* The mark a thread draws next was drawn by nobody.
LEMMA NextMarkFresh ==
  ASSUME MarksDistinct, TypeOK, MarksFresh, NEW t \in Threads, DrawMark(t)
  PROVE  \A m : m = NextMark(t) => ~Drawn(m) /\ Drawn(m)'
  <1>1. marks[t] \in 0 .. MaxMarks - 1 /\ marks[t] \in 0 .. marks'[t] - 1
    BY CalendarAssumption DEF TypeOK, DrawMark
  <1>2. ASSUME NEW p \in Threads, NEW k \in 0 .. (marks[p] - 1),
               NextMark(t) = GenerateMark(p, k)
        PROVE  FALSE
    <2>1. k \in 0 .. MaxMarks - 1
      BY CalendarAssumption DEF TypeOK, MarksFresh
    <2>2. p = t /\ k = marks[t]
      BY <1>1, <1>2, <2>1 DEF MarksDistinct, NextMark
    <2> QED
      BY <2>2 DEF TypeOK
  <1>3. ~Drawn(NextMark(t))
    BY <1>2 DEF Drawn
  <1>4. ASSUME NEW m, m = NextMark(t) PROVE Drawn(m)'
    BY <1>1, <1>4 DEF Drawn, NextMark
  <1> QED
    BY <1>3, <1>4

\* Every step keeps the marks of flushes apart from those of cursors.
LEMMA MarksStep == MarksDistinct /\ IndInv /\ Owned' /\ [Next]_vars => MarksFresh'
  <1> SUFFICES ASSUME MarksDistinct, IndInv, Owned', [Next]_vars PROVE MarksFresh'
    OBVIOUS
  <1> USE CalendarAssumption, DrawnStays, NextMarkFresh
      DEF IndInv, Owned, TypeOK, NodesOwned, NodesLinked, Cursors, NoCursor, InitMark,
          PlacesHere, Labels, Enqueuing, Looking, Flushing, shared, nodes, locals, history,
          Goto, Forget, MarksFresh, AdvanceInTable, FlushTarget
  <1>1. ASSUME NEW t \in Threads, NEW n \in Nodes, NEW ts \in Timestamps, EnqueueCall(t, n, ts)
        PROVE MarksFresh'
    BY <1>1 DEF EnqueueCall, AllocateNode
  <1>2. ASSUME NEW t \in Threads, Insert(t) PROVE MarksFresh'
    <2>1. PICK m : m = NextMark(t)
      OBVIOUS
    <2>2. ~Drawn(m) /\ Drawn(m)'
      BY <1>2, <2>1, NextMarkFresh DEF Insert
    <2>3. newCur'[t].mark = m /\ \A u \in Threads \ {t} : newCur'[u] = newCur[u]
      BY <1>2, <2>1 DEF Insert
    <2>4. \A u \in Threads \ {t} : pc'[u] \in Flushing => pc[u] \in Flushing
      BY <1>2 DEF Insert
    <2>5. \A u \in Threads \ {t} : pc'[u] \in Flushing =>
            /\ Drawn(newCur[u].mark)'
            /\ newCur'[u].mark # m
      BY <2>2, <2>3, <2>4
    <2>6. \A u \in Threads : pc'[u] \in Looking => pc[u] \in Looking
      BY <1>2 DEF Insert
    <2>7. \A u \in Threads : pc'[u] \in Looking /\ oldCur[u].index + 1 < InitSize =>
            Drawn(oldCur[u].mark) /\ oldCur[u].mark # m
      BY <2>2, <2>6
    <2>8. \A u \in Threads : marks'[u] <= MaxMarks
      BY <1>2 DEF Insert, DrawMark
    <2> QED
      BY <1>2, <2>2, <2>3, <2>4, <2>5, <2>6, <2>7, <2>8 DEF Insert
  <1>3. ASSUME NEW t \in Threads, FlushRead(t) PROVE MarksFresh'
    BY <1>3 DEF FlushRead
  <1>4. ASSUME NEW t \in Threads, FlushCas(t) PROVE MarksFresh'
    BY <1>4 DEF FlushCas
  <1>5. ASSUME NEW t \in Threads, EnqueueReturn(t) PROVE MarksFresh'
    BY <1>5 DEF EnqueueReturn
  <1>6. ASSUME NEW t \in Threads, DequeueCall(t) PROVE MarksFresh'
    BY <1>6 DEF DequeueCall, Queued
  <1>7. ASSUME NEW t \in Threads, DeqRead(t) PROVE MarksFresh'
    BY <1>7 DEF DeqRead
  <1>8. ASSUME NEW t \in Threads, DeqScan(t) PROVE MarksFresh'
    BY <1>8 DEF DeqScan, Firsts, Bucket
  <1>9. ASSUME NEW t \in Threads, DeqMark(t) PROVE MarksFresh'
    BY <1>9 DEF DeqMark
  <1>10. ASSUME NEW t \in Threads, DeqMarkFails(t) PROVE MarksFresh'
    BY <1>10 DEF DeqMarkFails
  <1>11. ASSUME NEW t \in Threads, DeqNextBucket(t) PROVE MarksFresh'
    BY <1>11 DEF DeqNextBucket
  <1>12. ASSUME NEW t \in Threads, DeqEmpty(t) PROVE MarksFresh'
    BY <1>12 DEF DeqEmpty
  <1>13. ASSUME NEW t \in Threads, DeqAdvance(t) PROVE MarksFresh'
    <2>1. PICK m : m = NextMark(t)
      OBVIOUS
    <2>2. ~Drawn(m) /\ Drawn(m)'
      BY <1>13, <2>1, NextMarkFresh DEF DeqAdvance
    <2>3. current' = IF current = oldCur[t]
                       THEN [index |-> oldCur[t].index + 1, mark |-> m]
                       ELSE current
      BY <1>13, <2>1 DEF DeqAdvance
    <2>4. oldCur[t].index + 1 < InitSize /\ pc[t] \in Looking /\ current \in Cursors
      BY <1>13 DEF DeqAdvance
    <2>5. current'.index < InitSize
      BY <2>3, <2>4
    <2>6. \A u \in Threads : pc'[u] \in Flushing =>
            newCur'[u] = newCur[u] /\ pc[u] \in Flushing /\ newCur[u].mark # m
      BY <1>13, <2>2 DEF DeqAdvance
    <2>7. \A u \in Threads : pc'[u] \in Looking =>
            oldCur'[u] = oldCur[u] /\ pc[u] \in Looking
      BY <1>13 DEF DeqAdvance
    <2>8. \A u \in Threads : marks'[u] <= MaxMarks
      BY <1>13 DEF DeqAdvance, DrawMark
    <2>9. current'.index + 1 < InitSize => Drawn(current.mark)'
      BY <1>13, <2>2, <2>3 DEF DeqAdvance
    <2>10. \A u \in Threads : pc'[u] \in Flushing /\ current'.index + 1 < InitSize =>
             current'.mark # newCur'[u].mark
      BY <2>3, <2>6
    <2> QED
      BY <1>13, <2>5, <2>6, <2>7, <2>8, <2>9, <2>10 DEF DeqAdvance
  <1>14. ASSUME NEW t \in Threads, DequeueReturn(t) PROVE MarksFresh'
    BY <1>14 DEF DequeueReturn
  <1>15. ASSUME NEW t \in Threads, Unlink(t) PROVE MarksFresh'
    BY <1>15 DEF Unlink, UnlinkIn
  <1>16. CASE UNCHANGED vars
    BY <1>16 DEF vars
  <1> QED
    BY <1>1, <1>2, <1>3, <1>4, <1>5, <1>6, <1>7, <1>8, <1>9, <1>10, <1>11, <1>12, <1>13,
       <1>14, <1>15, <1>16
       DEF Next, Call, Step, EnqueueStep, DequeueStep

\* Every step keeps what flush_current() is about to write.
LEMMA FlushTargetStep == IndInv /\ [Next]_vars => FlushTarget'
  <1> SUFFICES ASSUME IndInv, [Next]_vars PROVE FlushTarget'
    OBVIOUS
  <1> USE CalendarAssumption
      DEF IndInv, Owned, TypeOK, NodesOwned, NodesLinked, Cursors, NoCursor, PlacesHere,
          Labels, Enqueuing, Looking, Flushing, shared, nodes, locals, history, Goto, Forget,
          FlushTarget
  <1>1. ASSUME NEW t \in Threads, NEW n \in Nodes, NEW ts \in Timestamps, EnqueueCall(t, n, ts)
        PROVE FlushTarget'
    BY <1>1 DEF EnqueueCall, AllocateNode
  <1>2. ASSUME NEW t \in Threads, Insert(t) PROVE FlushTarget'
    BY <1>2 DEF Insert, DrawMark
  <1>3. ASSUME NEW t \in Threads, FlushRead(t) PROVE FlushTarget'
    BY <1>3 DEF FlushRead
  <1>4. ASSUME NEW t \in Threads, FlushCas(t) PROVE FlushTarget'
    BY <1>4 DEF FlushCas
  <1>5. ASSUME NEW t \in Threads, EnqueueReturn(t) PROVE FlushTarget'
    BY <1>5 DEF EnqueueReturn
  <1>6. ASSUME NEW t \in Threads, DequeueCall(t) PROVE FlushTarget'
    BY <1>6 DEF DequeueCall, Queued
  <1>7. ASSUME NEW t \in Threads, DeqRead(t) PROVE FlushTarget'
    BY <1>7 DEF DeqRead
  <1>8. ASSUME NEW t \in Threads, DeqScan(t) PROVE FlushTarget'
    BY <1>8 DEF DeqScan, Firsts, Bucket
  <1>9. ASSUME NEW t \in Threads, DeqMark(t) PROVE FlushTarget'
    BY <1>9 DEF DeqMark
  <1>10. ASSUME NEW t \in Threads, DeqMarkFails(t) PROVE FlushTarget'
    BY <1>10 DEF DeqMarkFails
  <1>11. ASSUME NEW t \in Threads, DeqNextBucket(t) PROVE FlushTarget'
    BY <1>11 DEF DeqNextBucket
  <1>12. ASSUME NEW t \in Threads, DeqEmpty(t) PROVE FlushTarget'
    BY <1>12 DEF DeqEmpty
  <1>13. ASSUME NEW t \in Threads, DeqAdvance(t) PROVE FlushTarget'
    BY <1>13 DEF DeqAdvance, DrawMark
  <1>14. ASSUME NEW t \in Threads, DequeueReturn(t) PROVE FlushTarget'
    BY <1>14 DEF DequeueReturn
  <1>15. ASSUME NEW t \in Threads, Unlink(t) PROVE FlushTarget'
    BY <1>15 DEF Unlink, UnlinkIn
  <1>16. CASE UNCHANGED vars
    BY <1>16 DEF vars
  <1> QED
    BY <1>1, <1>2, <1>3, <1>4, <1>5, <1>6, <1>7, <1>8, <1>9, <1>10, <1>11, <1>12, <1>13,
       <1>14, <1>15, <1>16
       DEF Next, Call, Step, EnqueueStep, DequeueStep

\* The flushed nodes stay the same while no enqueue passes "enqueued".
LEMMA FlushedFrame ==
  ASSUME settled' = settled,
         \A u \in Threads : pc'[u] = "enqueued" <=> pc[u] = "enqueued",
         \A u \in Threads : pc[u] = "enqueued" => node'[u] = node[u]
  PROVE  Flushed' = Flushed
  BY DEF Flushed

\* Steps that write neither current nor a flushed node keep both properties,
\* unless they end a scan.
LEMMA CoveredFrame ==
  ASSUME FlushedCovered, StaleScanHarmless, Flushed' = Flushed, current' = current,
         \A n \in Flushed : place'[n] = "bucket" =>
           place[n] = "bucket" /\ timestamp'[n] = timestamp[n],
         \A u \in Threads : pc'[u] \in {"tail", "advance"} =>
           pc[u] \in {"tail", "advance"} /\ oldCur'[u] = oldCur[u]
  PROVE  FlushedCovered' /\ StaleScanHarmless'
  BY DEF FlushedCovered, StaleScanHarmless

\* No step leaves a flushed node behind current, nor makes a stale scan harmful.
LEMMA CoveredStep == MarksDistinct /\ IndInv /\ [Next]_vars => FlushedCovered' /\ StaleScanHarmless'
  <1> SUFFICES ASSUME MarksDistinct, IndInv, [Next]_vars
               PROVE  FlushedCovered' /\ StaleScanHarmless'
    OBVIOUS
  <1> USE CalendarAssumption, BucketOfNat, NextMarkFresh
      DEF IndInv, Owned, TypeOK, NodesOwned, NodesLinked, Cursors, NoCursor, InitMark,
          PlacesHere, Labels, Enqueuing, Looking, Flushing, shared, nodes, locals, history,
          Goto, Forget, MarksFresh, AdvanceInTable, FlushTarget, FlushedCovered,
          StaleScanHarmless, Flushed
  <1>1. ASSUME NEW t \in Threads, NEW n \in Nodes, NEW ts \in Timestamps, EnqueueCall(t, n, ts)
        PROVE FlushedCovered' /\ StaleScanHarmless'
    <2>1. n \notin Flushed /\ Flushed \subseteq Nodes
      <3>1. place[n] = "unused"
        BY <1>1 DEF EnqueueCall, AllocateNode
      <3>2. \A m \in Flushed : m \in Nodes /\ place[m] \in {"bucket", "taken", "unlinked"}
        OBVIOUS
      <3> QED
        BY <3>1, <3>2
    <2>2. Flushed' = Flushed
      <3> HIDE DEF Flushed
      <3> QED
        BY <1>1, FlushedFrame DEF EnqueueCall, AllocateNode
    <2>3. \A m \in Flushed : place'[m] = place[m] /\ timestamp'[m] = timestamp[m]
      BY <1>1, <2>1 DEF EnqueueCall, AllocateNode
    <2>4. \A u \in Threads : pc'[u] \in {"tail", "advance"} =>
            pc[u] \in {"tail", "advance"} /\ oldCur'[u] = oldCur[u]
      BY <1>1 DEF EnqueueCall, AllocateNode
    <2>5. current' = current
      BY <1>1 DEF EnqueueCall, AllocateNode
    <2> HIDE DEF Flushed, FlushedCovered, StaleScanHarmless
    <2> QED
      BY <2>2, <2>3, <2>4, <2>5, CoveredFrame
  <1>2. ASSUME NEW t \in Threads, Insert(t) PROVE FlushedCovered' /\ StaleScanHarmless'
    BY <1>2 DEF Insert, DrawMark
  <1>3. ASSUME NEW t \in Threads, FlushRead(t) PROVE FlushedCovered' /\ StaleScanHarmless'
    <2>1. CASE newCur[t].index <= current.index
      <3>1. Flushed' = Flushed
        BY <1>3, <2>1 DEF FlushRead
      <3>2. \A u \in Threads : pc'[u] \in {"tail", "advance"} =>
              pc[u] \in {"tail", "advance"} /\ oldCur'[u] = oldCur[u]
        BY <1>3, <2>1 DEF FlushRead
      <3>3. UNCHANGED <<current, place, timestamp>>
        BY <1>3, <2>1 DEF FlushRead
      <3> QED
        BY <3>1, <3>2, <3>3
    <2>2. CASE ~(newCur[t].index <= current.index)
      <3>1. Flushed' \subseteq Flushed \cup {node[t]}
        BY <1>3, <2>2 DEF FlushRead
      <3>2. current.index < BucketOf(timestamp[node[t]])
        BY <1>3, <2>2 DEF FlushRead
      <3>3. \A u \in Threads : pc'[u] \in {"tail", "advance"} => pc[u] \in {"tail", "advance"}
        BY <1>3, <2>2 DEF FlushRead
      <3> QED
        BY <1>3, <2>2, <3>1, <3>2, <3>3 DEF FlushRead
    <2> QED
      BY <2>1, <2>2
  <1>4. ASSUME NEW t \in Threads, FlushCas(t) PROVE FlushedCovered' /\ StaleScanHarmless'
    <2>1. CASE current = oldCur[t]
      <3>1. Flushed' \subseteq Flushed \cup {node[t]}
        BY <1>4, <2>1 DEF FlushCas
      <3>2. current' = newCur[t] /\ newCur[t].index = BucketOf(timestamp[node[t]])
        BY <1>4, <2>1 DEF FlushCas
      <3>3. newCur[t].index <= current.index /\ current \in Cursors /\ newCur[t] \in Cursors
        BY <1>4, <2>1 DEF FlushCas
      <3>4. FlushedCovered'
        <4>1. SUFFICES ASSUME NEW n \in Flushed', place[n] = "bucket"
                       PROVE  newCur[t].index <= BucketOf(timestamp[n])
          BY <1>4, <3>2 DEF FlushCas
        <4>2. CASE n = node[t]
          BY <3>2, <3>3, <4>2
        <4>3. CASE n \in Flushed
          <5>1. n \in Nodes /\ current.index <= BucketOf(timestamp[n])
            BY <4>1, <4>3
          <5> QED
            BY <3>3, <5>1
        <4> QED
          BY <3>1, <4>2, <4>3
      <3>5. \A u \in Threads : pc'[u] \in {"tail", "advance"} /\ oldCur'[u].index + 1 < InitSize
              => oldCur'[u] # current'
        <4>1. SUFFICES ASSUME NEW u \in Threads, pc'[u] \in {"tail", "advance"},
                              oldCur'[u].index + 1 < InitSize
                       PROVE  oldCur'[u].mark # newCur[t].mark
          BY <3>2
        <4>2. u # t /\ pc[u] \in {"tail", "advance"} /\ oldCur'[u] = oldCur[u]
          BY <1>4, <4>1 DEF FlushCas
        <4> QED
          BY <1>4, <4>1, <4>2 DEF FlushCas
      <3> QED
        BY <3>4, <3>5
    <2>2. CASE current # oldCur[t]
      <3>1. Flushed' = Flushed
        BY <1>4, <2>2 DEF FlushCas
      <3>2. \A u \in Threads : pc'[u] \in {"tail", "advance"} =>
              pc[u] \in {"tail", "advance"} /\ oldCur'[u] = oldCur[u]
        BY <1>4, <2>2 DEF FlushCas
      <3> QED
        BY <1>4, <2>2, <3>1, <3>2 DEF FlushCas
    <2> QED
      BY <2>1, <2>2
  <1>5. ASSUME NEW t \in Threads, EnqueueReturn(t) PROVE FlushedCovered' /\ StaleScanHarmless'
    BY <1>5 DEF EnqueueReturn
  <1>6. ASSUME NEW t \in Threads, DequeueCall(t) PROVE FlushedCovered' /\ StaleScanHarmless'
    BY <1>6 DEF DequeueCall, Queued
  <1>7. ASSUME NEW t \in Threads, DeqRead(t) PROVE FlushedCovered' /\ StaleScanHarmless'
    BY <1>7 DEF DeqRead
  <1>8. ASSUME NEW t \in Threads, DeqScan(t) PROVE FlushedCovered' /\ StaleScanHarmless'
    <2>1. Flushed' = Flushed
      <3> HIDE DEF Flushed
      <3> QED
        BY <1>8, FlushedFrame DEF DeqScan
    <2>2. pc'[t] = "tail" => \A n \in Nodes : place[n] = "bucket" =>
            BucketOf(timestamp[n]) # oldCur[t].index
      BY <1>8 DEF DeqScan, Bucket
    <2>3. \A u \in Threads \ {t} : pc'[u] = pc[u]
      BY <1>8 DEF DeqScan
    <2>4. pc'[t] # "advance"
      BY <1>8 DEF DeqScan
    <2>5. Flushed \subseteq Nodes
      OBVIOUS
    <2>6. FlushedCovered'
      <3>1. UNCHANGED <<current, place, timestamp>>
        BY <1>8 DEF DeqScan
      <3> QED
        BY <2>1, <3>1
    <2>7. StaleScanHarmless'
      <3>1. SUFFICES ASSUME NEW u \in Threads, pc'[u] \in {"tail", "advance"},
                            oldCur[u].index + 1 < InitSize, oldCur[u] = current,
                            NEW n \in Flushed, place[n] = "bucket"
                     PROVE  BucketOf(timestamp[n]) # current.index
        BY <1>8, <2>1 DEF DeqScan
      <3>2. CASE u = t
        BY <2>2, <2>4, <2>5, <3>1, <3>2
      <3>3. CASE u # t
        BY <2>3, <3>1, <3>3
      <3> QED
        BY <3>2, <3>3
    <2> QED
      BY <2>6, <2>7
  <1>9. ASSUME NEW t \in Threads, DeqMark(t) PROVE FlushedCovered' /\ StaleScanHarmless'
    BY <1>9 DEF DeqMark
  <1>10. ASSUME NEW t \in Threads, DeqMarkFails(t) PROVE FlushedCovered' /\ StaleScanHarmless'
    BY <1>10 DEF DeqMarkFails
  <1>11. ASSUME NEW t \in Threads, DeqNextBucket(t) PROVE FlushedCovered' /\ StaleScanHarmless'
    BY <1>11 DEF DeqNextBucket
  <1>12. ASSUME NEW t \in Threads, DeqEmpty(t) PROVE FlushedCovered' /\ StaleScanHarmless'
    BY <1>12 DEF DeqEmpty
  <1>13. ASSUME NEW t \in Threads, DeqAdvance(t) PROVE FlushedCovered' /\ StaleScanHarmless'
    <2>1. PICK m : m = NextMark(t)
      OBVIOUS
    <2>2. ~Drawn(m)
      BY <1>13, <2>1, NextMarkFresh DEF DeqAdvance
    <2>3. Flushed' = Flushed
      BY <1>13 DEF DeqAdvance
    <2>4. \A u \in Threads : pc'[u] \in {"tail", "advance"} =>
            pc[u] \in {"tail", "advance"} /\ oldCur'[u] = oldCur[u]
      BY <1>13 DEF DeqAdvance
    <2>5. oldCur[t].index + 1 < InitSize
      BY <1>13 DEF DeqAdvance
    <2>6. CASE current = oldCur[t]
      <3>1. current' = [index |-> current.index + 1, mark |-> m]
        BY <1>13, <2>1, <2>6 DEF DeqAdvance
      <3>2. \A n \in Flushed : place[n] = "bucket" => current.index + 1 <= BucketOf(timestamp[n])
        <4>1. SUFFICES ASSUME NEW n \in Flushed, place[n] = "bucket"
                       PROVE  current.index + 1 <= BucketOf(timestamp[n])
          OBVIOUS
        <4>2. BucketOf(timestamp[n]) # current.index
          BY <1>13, <2>5, <2>6, <4>1 DEF DeqAdvance
        <4>3. current.index <= BucketOf(timestamp[n])
          BY <4>1
        <4>4. BucketOf(timestamp[n]) \in Nat /\ current.index \in Nat
          OBVIOUS
        <4> QED
          BY ONLY <4>2, <4>3, <4>4
      <3>3. \A u \in Threads : pc'[u] \in {"tail", "advance"} /\ oldCur'[u].index + 1 < InitSize
              => oldCur'[u] # current'
        BY <2>2, <2>4, <3>1
      <3> QED
        BY <1>13, <2>3, <3>1, <3>2, <3>3 DEF DeqAdvance
    <2>7. CASE current # oldCur[t]
      BY <1>13, <2>3, <2>4, <2>7 DEF DeqAdvance
    <2> QED
      BY <2>6, <2>7
  <1>14. ASSUME NEW t \in Threads, DequeueReturn(t) PROVE FlushedCovered' /\ StaleScanHarmless'
    BY <1>14 DEF DequeueReturn
  <1>15. ASSUME NEW t \in Threads, Unlink(t) PROVE FlushedCovered' /\ StaleScanHarmless'
    BY <1>15 DEF Unlink, UnlinkIn
  <1>16. CASE UNCHANGED vars
    BY <1>16 DEF vars
  <1> QED
    BY <1>1, <1>2, <1>3, <1>4, <1>5, <1>6, <1>7, <1>8, <1>9, <1>10, <1>11, <1>12, <1>13,
       <1>14, <1>15, <1>16
       DEF Next, Call, Step, EnqueueStep, DequeueStep

\* What a scan has found says something about every node of its bucket.
LEMMA ScanFindsFirst ==
  ASSUME TypeOK, NEW t \in Threads, DeqScan(t),
         NEW y \in Nodes, place[y] = "bucket", oldCur[t].index <= BucketOf(timestamp[y])
  PROVE  /\ pc'[t] \in {"tail", "mark"}
         /\ pc'[t] = "tail" => oldCur[t].index < BucketOf(timestamp[y])
         /\ pc'[t] = "mark" => timestamp[node'[t]] <= timestamp[y]
  <1> DEFINE i == oldCur[t].index
  <1>1. /\ i \in Nat /\ timestamp[y] \in Nat /\ BucketOf(timestamp[y]) \in Nat
        /\ \A n \in Nodes : timestamp[n] \in Nat
    BY BucketOfNat DEF TypeOK, Cursors
  <1>2. y \notin Bucket(i) => i < BucketOf(timestamp[y])
    BY <1>1 DEF Bucket
  <1>3. CASE Bucket(i) = {} /\ Goto(t, "tail")
    BY <1>2, <1>3 DEF Goto, TypeOK
  <1>4. ASSUME NEW n \in Firsts(i), node' = [node EXCEPT ![t] = n], Goto(t, "mark")
        PROVE  pc'[t] = "mark" /\ node'[t] = n /\ timestamp[n] <= timestamp[y]
    <2>1. n \in Nodes /\ BucketOf(timestamp[n]) = i
      BY DEF Firsts, Bucket
    <2>2. CASE y \in Bucket(i)
      BY <1>4, <2>2 DEF Firsts, Goto, TypeOK
    <2>3. CASE y \notin Bucket(i)
      <3>1. timestamp[n] < timestamp[y]
        BY <1>1, <1>2, <2>1, <2>3, BucketOfMonotone
      <3> QED
        BY <1>1, <1>4, <2>1, <3>1 DEF Goto, TypeOK
    <2> QED
      BY <2>2, <2>3
  <1> QED
    BY <1>3, <1>4 DEF DeqScan

\* Every step keeps what a running dequeue() knows.
LEMMA DequeueStepKnows == IndInv /\ [Next]_vars => DequeueKnows' /\ AdvanceInTable'
  <1> SUFFICES ASSUME IndInv, [Next]_vars PROVE DequeueKnows' /\ AdvanceInTable'
    OBVIOUS
  <1> USE CalendarAssumption, BucketOfNat, BucketOfMonotone
      DEF IndInv, Owned, TypeOK, NodesOwned, NodesLinked, Cursors, NoCursor, InitMark,
          PlacesHere, Labels, Enqueuing, Looking, Flushing, shared, nodes, locals, history,
          Goto, Forget, AdvanceInTable, FlushedCovered, Flushed, DequeueKnows
  <1>1. ASSUME NEW t \in Threads, NEW n \in Nodes, NEW ts \in Timestamps, EnqueueCall(t, n, ts)
        PROVE DequeueKnows' /\ AdvanceInTable'
    BY <1>1 DEF EnqueueCall, AllocateNode
  <1>2. ASSUME NEW t \in Threads, Insert(t) PROVE DequeueKnows' /\ AdvanceInTable'
    BY <1>2 DEF Insert, DrawMark
  <1>3. ASSUME NEW t \in Threads, FlushRead(t) PROVE DequeueKnows' /\ AdvanceInTable'
    <2>1. \A u \in Threads : pc'[u] \in Looking \cup {"mark"} =>
            pc[u] = pc'[u] /\ oldCur'[u] = oldCur[u]
      BY <1>3 DEF FlushRead
    <2>2. UNCHANGED <<timestamp, place, before, node>>
      BY <1>3 DEF FlushRead
    <2> QED
      BY <2>1, <2>2
  <1>4. ASSUME NEW t \in Threads, FlushCas(t) PROVE DequeueKnows' /\ AdvanceInTable'
    BY <1>4 DEF FlushCas
  <1>5. ASSUME NEW t \in Threads, EnqueueReturn(t) PROVE DequeueKnows' /\ AdvanceInTable'
    BY <1>5 DEF EnqueueReturn
  <1>6. ASSUME NEW t \in Threads, DequeueCall(t) PROVE DequeueKnows' /\ AdvanceInTable'
    BY <1>6 DEF DequeueCall, Queued
  <1>7. ASSUME NEW t \in Threads, DeqRead(t) PROVE DequeueKnows' /\ AdvanceInTable'
    BY <1>7 DEF DeqRead
  <1>8. ASSUME NEW t \in Threads, DeqScan(t) PROVE DequeueKnows' /\ AdvanceInTable'
    <2>1. \A u \in Threads \ {t} :
            pc'[u] = pc[u] /\ node'[u] = node[u] /\ oldCur'[u] = oldCur[u]
      BY <1>8 DEF DeqScan
    <2>2. timestamp' = timestamp /\ place' = place /\ before' = before /\ oldCur' = oldCur
      BY <1>8 DEF DeqScan
    <2>3. ASSUME NEW y \in before[t], place[y] = "bucket"
          PROVE  /\ pc'[t] \in {"tail", "mark"}
                 /\ pc'[t] = "tail" => oldCur[t].index < BucketOf(timestamp[y])
                 /\ pc'[t] = "mark" => timestamp[node'[t]] <= timestamp[y]
      <3>1. oldCur[t].index <= BucketOf(timestamp[y]) /\ y \in Nodes
        BY <1>8, <2>3 DEF DeqScan
      <3> QED
        BY <1>8, <2>3, <3>1, ScanFindsFirst
    <2>4. DequeueKnows'
      <3>1. SUFFICES ASSUME NEW u \in Threads, NEW y \in before[u], place[y] = "bucket"
                     PROVE  /\ pc'[u] = "scan" => oldCur[u].index <= BucketOf(timestamp[y])
                            /\ pc'[u] \in {"tail",
                                "advance"} => oldCur[u].index < BucketOf(timestamp[y])
                            /\ pc'[u] = "mark" => timestamp[node'[u]] <= timestamp[y]
        BY <2>2
      <3>2. CASE u = t
        BY <2>3, <3>1, <3>2
      <3>3. CASE u # t
        BY <2>1, <3>1, <3>3
      <3> QED
        BY <3>2, <3>3
    <2>5. AdvanceInTable'
      BY <1>8 DEF DeqScan
    <2> QED
      BY <2>4, <2>5
  <1>9. ASSUME NEW t \in Threads, DeqMark(t) PROVE DequeueKnows' /\ AdvanceInTable'
    BY <1>9 DEF DeqMark
  <1>10. ASSUME NEW t \in Threads, DeqMarkFails(t) PROVE DequeueKnows' /\ AdvanceInTable'
    BY <1>10 DEF DeqMarkFails
  <1>11. ASSUME NEW t \in Threads, DeqNextBucket(t) PROVE DequeueKnows' /\ AdvanceInTable'
    BY <1>11 DEF DeqNextBucket
  <1>12. ASSUME NEW t \in Threads, DeqEmpty(t) PROVE DequeueKnows' /\ AdvanceInTable'
    BY <1>12 DEF DeqEmpty
  <1>13. ASSUME NEW t \in Threads, DeqAdvance(t) PROVE DequeueKnows' /\ AdvanceInTable'
    BY <1>13 DEF DeqAdvance, DrawMark
  <1>14. ASSUME NEW t \in Threads, DequeueReturn(t) PROVE DequeueKnows' /\ AdvanceInTable'
    BY <1>14 DEF DequeueReturn
  <1>15. ASSUME NEW t \in Threads, Unlink(t) PROVE DequeueKnows' /\ AdvanceInTable'
    BY <1>15 DEF Unlink, UnlinkIn
  <1>16. CASE UNCHANGED vars
    BY <1>16 DEF vars
  <1> QED
    BY <1>1, <1>2, <1>3, <1>4, <1>5, <1>6, <1>7, <1>8, <1>9, <1>10, <1>11, <1>12, <1>13,
       <1>14, <1>15, <1>16
       DEF Next, Call, Step, EnqueueStep, DequeueStep

\* Every answer a dequeue() gives is right, and stays right until it returns.
LEMMA AnswersStep == IndInv /\ [Next]_vars => TakenInOrder' /\ HonestEmpty'
  <1> SUFFICES ASSUME IndInv, [Next]_vars PROVE TakenInOrder' /\ HonestEmpty'
    OBVIOUS
  <1> USE CalendarAssumption, BucketOfNat
      DEF IndInv, Owned, TypeOK, NodesOwned, NodesLinked, Cursors, PlacesHere, Labels,
          Enqueuing, Looking, shared, nodes, locals, history, Goto, Forget, DequeueKnows,
          TakenInOrder, HonestEmpty, Queued
  <1>1. ASSUME NEW t \in Threads, NEW n \in Nodes, NEW ts \in Timestamps, EnqueueCall(t, n, ts)
        PROVE TakenInOrder' /\ HonestEmpty'
    BY <1>1 DEF EnqueueCall, AllocateNode
  <1>2. ASSUME NEW t \in Threads, Insert(t) PROVE TakenInOrder' /\ HonestEmpty'
    BY <1>2 DEF Insert, DrawMark
  <1>3. ASSUME NEW t \in Threads, FlushRead(t) PROVE TakenInOrder' /\ HonestEmpty'
    BY <1>3 DEF FlushRead
  <1>4. ASSUME NEW t \in Threads, FlushCas(t) PROVE TakenInOrder' /\ HonestEmpty'
    BY <1>4 DEF FlushCas
  <1>5. ASSUME NEW t \in Threads, EnqueueReturn(t) PROVE TakenInOrder' /\ HonestEmpty'
    BY <1>5 DEF EnqueueReturn
  <1>6. ASSUME NEW t \in Threads, DequeueCall(t) PROVE TakenInOrder' /\ HonestEmpty'
    BY <1>6 DEF DequeueCall, Queued
  <1>7. ASSUME NEW t \in Threads, DeqRead(t) PROVE TakenInOrder' /\ HonestEmpty'
    BY <1>7 DEF DeqRead
  <1>8. ASSUME NEW t \in Threads, DeqScan(t) PROVE TakenInOrder' /\ HonestEmpty'
    BY <1>8 DEF DeqScan
  <1>9. ASSUME NEW t \in Threads, DeqMark(t) PROVE TakenInOrder' /\ HonestEmpty'
    BY <1>9 DEF DeqMark
  <1>10. ASSUME NEW t \in Threads, DeqMarkFails(t) PROVE TakenInOrder' /\ HonestEmpty'
    BY <1>10 DEF DeqMarkFails
  <1>11. ASSUME NEW t \in Threads, DeqNextBucket(t) PROVE TakenInOrder' /\ HonestEmpty'
    BY <1>11 DEF DeqNextBucket
  <1>12. ASSUME NEW t \in Threads, DeqEmpty(t) PROVE TakenInOrder' /\ HonestEmpty'
    BY <1>12 DEF DeqEmpty
  <1>13. ASSUME NEW t \in Threads, DeqAdvance(t) PROVE TakenInOrder' /\ HonestEmpty'
    BY <1>13 DEF DeqAdvance, DrawMark
  <1>14. ASSUME NEW t \in Threads, DequeueReturn(t) PROVE TakenInOrder' /\ HonestEmpty'
    BY <1>14 DEF DequeueReturn
  <1>15. ASSUME NEW t \in Threads, Unlink(t) PROVE TakenInOrder' /\ HonestEmpty'
    BY <1>15 DEF Unlink, UnlinkIn
  <1>16. CASE UNCHANGED vars
    BY <1>16 DEF vars
  <1> QED
    BY <1>1, <1>2, <1>3, <1>4, <1>5, <1>6, <1>7, <1>8, <1>9, <1>10, <1>11, <1>12, <1>13,
       <1>14, <1>15, <1>16
       DEF Next, Call, Step, EnqueueStep, DequeueStep

\* The invariant holds after queue_init().
LEMMA IndInvInit == Init => IndInv
  BY OwnedInit, CalendarAssumption
     DEF Init, IndInv, MarksFresh, FlushTarget, FlushedCovered, StaleScanHarmless,
         DequeueKnows, AdvanceInTable, TakenInOrder, HonestEmpty, Flushed, Looking, Flushing

\* Every step keeps the invariant.
LEMMA IndInvStep == MarksDistinct /\ IndInv /\ [Next]_vars => IndInv'
  <1> SUFFICES ASSUME MarksDistinct, IndInv, [Next]_vars PROVE IndInv'
    OBVIOUS
  <1>1. Owned'
    BY OwnedStep DEF IndInv
  <1>2. MarksFresh' /\ FlushTarget'
    BY <1>1, MarksStep, FlushTargetStep
  <1>3. FlushedCovered' /\ StaleScanHarmless'
    BY CoveredStep
  <1>4. DequeueKnows' /\ AdvanceInTable' /\ TakenInOrder' /\ HonestEmpty'
    BY DequeueStepKnows, AnswersStep
  <1> QED
    BY <1>1, <1>2, <1>3, <1>4 DEF IndInv

-----------------------------------------------------------------------------
\* Every reachable state is well typed, whatever the marks are.
THEOREM TypeCorrect == Spec => []TypeOK
  <1>1. Spec => []Owned
    BY OwnedInit, OwnedStep, PTL DEF Spec
  <1>2. Owned => TypeOK
    BY DEF Owned
  <1> QED
    BY <1>1, <1>2, PTL

\* The inductive invariant holds in every reachable state.
THEOREM Invariance == ASSUME MarksDistinct PROVE Spec => []IndInv
  <1>1. IndInv /\ [Next]_vars => IndInv'
    BY IndInvStep
  <1> QED
    BY IndInvInit, <1>1, PTL DEF Spec

\* flush_current() and the CAS of dequeue() never leave an inserted event
\* behind the cursor.
THEOREM CursorSafe == ASSUME MarksDistinct PROVE Spec => []CursorCovers
  <1>1. IndInv => CursorCovers
    BY DEF IndInv, FlushedCovered, Flushed, CursorCovers
  <1> QED
    BY Invariance, <1>1, PTL

\* dequeue() returns in the order its callers may rely on.
THEOREM OrderSafe == ASSUME MarksDistinct PROVE Spec => []TakenInOrder
  <1>1. IndInv => TakenInOrder
    BY DEF IndInv
  <1> QED
    BY Invariance, <1>1, PTL

\* dequeue() reports an empty queue only when its caller may believe it.
THEOREM EmptySafe == ASSUME MarksDistinct PROVE Spec => []HonestEmpty
  <1>1. IndInv => HonestEmpty
    BY DEF IndInv
  <1> QED
    BY Invariance, <1>1, PTL

-----------------------------------------------------------------------------
\* queue_init() gives an empty pool.
LEMMA PoolInit == Init => Pool!Init
  BY DEF Init, Pool!Init, PoolPlace, PoolOp, PoolNode, Queued

\* Every step of the table is a step of the pool, or none.
LEMMA PoolStep == IndInv /\ [Next]_vars => [Pool!Next]_(Pool!vars)
  <1> SUFFICES ASSUME IndInv, [Next]_vars PROVE [Pool!Next]_(Pool!vars)
    OBVIOUS
  <1> USE CalendarAssumption
      DEF IndInv, Owned, TypeOK, NodesOwned, NodesLinked, PlacesHere, Labels, Enqueuing,
          Looking, shared, nodes, locals, history, Goto, Forget
  <1>1. ASSUME NEW t \in Threads, NEW n \in Nodes, NEW ts \in Timestamps, EnqueueCall(t, n, ts)
        PROVE Pool!EnqueueCall(t, n, ts)
    <2>1. \A u \in Threads : PoolOp(u)' = IF u = t THEN "enqueue" ELSE PoolOp(u)
      BY <1>1 DEF EnqueueCall, AllocateNode, PoolOp
    <2>2. PoolOp(t) = "idle"
      BY <1>1 DEF EnqueueCall, AllocateNode, PoolOp
    <2>3. \A m \in Nodes : PoolPlace(m)' = IF m = n THEN "held" ELSE PoolPlace(m)
      BY <1>1 DEF EnqueueCall, AllocateNode, PoolPlace, Queued
    <2>4. \A u \in Threads : PoolNode(u)' = IF u = t THEN n ELSE PoolNode(u)
      BY <1>1 DEF EnqueueCall, AllocateNode, PoolNode, PoolOp
    <2>5. PoolPlace(n) = "unused"
      BY <1>1 DEF EnqueueCall, AllocateNode, PoolPlace, Queued
    <2>6. timestamp' = [timestamp EXCEPT ![n] = ts] /\ UNCHANGED <<settled, before>>
      BY <1>1 DEF EnqueueCall, AllocateNode
    <2>7. t \in Threads /\ n \in Nodes
      BY <1>1
    <2> QED
      BY ONLY <2>1, <2>2, <2>3, <2>4, <2>5, <2>6, <2>7 DEF Pool!EnqueueCall, Pool!Queued
  <1>2. ASSUME NEW t \in Threads, Insert(t) PROVE Pool!Insert(t)
    <2>1. \A u \in Threads : PoolOp(u)' = IF u = t THEN "inserted" ELSE PoolOp(u)
      BY <1>2 DEF Insert, PoolOp
    <2>2. PoolOp(t) = "enqueue"
      BY <1>2 DEF Insert, PoolOp
    <2>3. \A m \in Nodes : PoolPlace(m)' = IF m = node[t] THEN "queued" ELSE PoolPlace(m)
      BY <1>2 DEF Insert, PoolPlace, Queued
    <2>4. \A u \in Threads : PoolNode(u)' = PoolNode(u)
      BY <1>2 DEF Insert, PoolNode, PoolOp
    <2>5. PoolNode(t) = node[t] /\ node[t] \in Nodes
      BY <1>2 DEF Insert, PoolNode, PoolOp
    <2>6. UNCHANGED <<timestamp, settled, before>>
      BY <1>2 DEF Insert
    <2>7. t \in Threads /\ node[t] \in Nodes
      BY <1>2 DEF Insert
    <2> QED
      BY ONLY <2>1, <2>2, <2>3, <2>4, <2>5, <2>6, <2>7 DEF Pool!Insert, Pool!Queued
  <1>3. ASSUME NEW t \in Threads, FlushRead(t) PROVE UNCHANGED Pool!vars
    BY <1>3 DEF FlushRead, Pool!vars, PoolPlace, PoolOp, PoolNode, Queued
  <1>4. ASSUME NEW t \in Threads, FlushCas(t) PROVE UNCHANGED Pool!vars
    BY <1>4 DEF FlushCas, Pool!vars, PoolPlace, PoolOp, PoolNode, Queued
  <1>5. ASSUME NEW t \in Threads, EnqueueReturn(t) PROVE Pool!EnqueueReturn(t)
    <2>1. \A u \in Threads : PoolOp(u)' = IF u = t THEN "idle" ELSE PoolOp(u)
      BY <1>5 DEF EnqueueReturn, PoolOp
    <2>2. PoolOp(t) = "inserted"
      BY <1>5 DEF EnqueueReturn, PoolOp
    <2>3. \A m \in Nodes : PoolPlace(m)' = PoolPlace(m)
      BY <1>5 DEF EnqueueReturn, PoolPlace, Queued
    <2>4. \A u \in Threads : PoolNode(u)' = IF u = t THEN NoNode ELSE PoolNode(u)
      BY <1>5 DEF EnqueueReturn, PoolNode, PoolOp
    <2>5. PoolNode(t) = node[t] /\ node[t] \in Nodes
      BY <1>5 DEF EnqueueReturn, PoolNode, PoolOp
    <2>6. settled' = settled \cup {node[t]} /\ UNCHANGED <<timestamp, before>>
      BY <1>5 DEF EnqueueReturn
    <2>7. t \in Threads
      BY <1>5
    <2> QED
      BY ONLY <2>1, <2>2, <2>3, <2>4, <2>5, <2>6, <2>7 DEF Pool!EnqueueReturn, Pool!Queued
  <1>6. ASSUME NEW t \in Threads, DequeueCall(t) PROVE Pool!DequeueCall(t)
    <2>1. \A u \in Threads : PoolOp(u)' = IF u = t THEN "dequeue" ELSE PoolOp(u)
      BY <1>6 DEF DequeueCall, PoolOp
    <2>2. PoolOp(t) = "idle"
      BY <1>6 DEF DequeueCall, PoolOp
    <2>3. \A m \in Nodes : PoolPlace(m)' = PoolPlace(m)
      BY <1>6 DEF DequeueCall, PoolPlace, Queued
    <2>4. \A u \in Threads : PoolNode(u)' = PoolNode(u)
      BY <1>6 DEF DequeueCall, PoolNode, PoolOp
    <2>5. \A m \in Nodes : PoolPlace(m) = "queued" <=> Queued(m)
      BY DEF PoolPlace, Queued
    <2>6. before' = [before EXCEPT ![t] = {m \in settled : Queued(m)}] /\ UNCHANGED <<timestamp, settled>>
      BY <1>6 DEF DequeueCall
    <2>7. t \in Threads /\ settled \subseteq Nodes
      BY <1>6
    <2>8. {m \in settled : Queued(m)} = {m \in settled : PoolPlace(m) = "queued"}
      BY <2>5
    <2> QED
      BY ONLY <2>1, <2>2, <2>3, <2>4, <2>5, <2>8, <2>6, <2>7 DEF Pool!DequeueCall, Pool!Queued
  <1>7. ASSUME NEW t \in Threads, DeqRead(t) PROVE UNCHANGED Pool!vars
    BY <1>7 DEF DeqRead, Pool!vars, PoolPlace, PoolOp, PoolNode, Queued
  <1>8. ASSUME NEW t \in Threads, DeqScan(t) PROVE UNCHANGED Pool!vars
    BY <1>8 DEF DeqScan, Pool!vars, PoolPlace, PoolOp, PoolNode, Queued
  <1>9. ASSUME NEW t \in Threads, DeqMark(t) PROVE node[t] \in Nodes /\ Pool!Take(t, node[t])
    <2>1. \A u \in Threads : PoolOp(u)' = IF u = t THEN "answered" ELSE PoolOp(u)
      BY <1>9 DEF DeqMark, PoolOp
    <2>2. PoolOp(t) = "dequeue"
      BY <1>9 DEF DeqMark, PoolOp
    <2>3. \A m \in Nodes : PoolPlace(m)' = IF m = node[t] THEN "taken" ELSE PoolPlace(m)
      BY <1>9 DEF DeqMark, PoolPlace, Queued
    <2>4. \A u \in Threads : PoolNode(u)' = IF u = t THEN node[t] ELSE PoolNode(u)
      BY <1>9 DEF DeqMark, PoolNode, PoolOp
    <2>5. PoolPlace(node[t]) = "queued" /\ node[t] \in Nodes
      BY <1>9 DEF DeqMark, PoolPlace, Queued
    <2>6. \A y \in before[t] : y \in Nodes /\ (PoolPlace(y) = "queued" => timestamp[node[t]] <= timestamp[y])
      BY <1>9 DEF DeqMark, PoolPlace, Queued, DequeueKnows
    <2>7. UNCHANGED <<timestamp, settled, before>>
      BY <1>9 DEF DeqMark
    <2>8. t \in Threads /\ node[t] \in Nodes
      BY <1>9 DEF DeqMark
    <2> QED
      BY ONLY <2>1, <2>2, <2>3, <2>4, <2>5, <2>6, <2>7, <2>8 DEF Pool!Take, Pool!Queued
  <1>10. ASSUME NEW t \in Threads, DeqMarkFails(t) PROVE UNCHANGED Pool!vars
    BY <1>10 DEF DeqMarkFails, Pool!vars, PoolPlace, PoolOp, PoolNode, Queued
  <1>11. ASSUME NEW t \in Threads, DeqNextBucket(t) PROVE UNCHANGED Pool!vars
    BY <1>11 DEF DeqNextBucket, Pool!vars, PoolPlace, PoolOp, PoolNode, Queued
  <1>12. ASSUME NEW t \in Threads, DeqEmpty(t) PROVE Pool!Empty(t)
    <2>1. \A u \in Threads : PoolOp(u)' = IF u = t THEN "answered" ELSE PoolOp(u)
      BY <1>12 DEF DeqEmpty, PoolOp
    <2>2. PoolOp(t) = "dequeue"
      BY <1>12 DEF DeqEmpty, PoolOp
    <2>3. \A m \in Nodes : PoolPlace(m)' = PoolPlace(m)
      BY <1>12 DEF DeqEmpty, PoolPlace, Queued
    <2>4. \A u \in Threads : PoolNode(u)' = PoolNode(u)
      BY <1>12 DEF DeqEmpty, PoolNode, PoolOp
    <2>5. \A y \in before[t] : y \in Nodes /\ PoolPlace(y) # "queued"
      BY <1>12, BucketOfNat DEF DeqEmpty, PoolPlace, Queued, DequeueKnows, Cursors
    <2>6. UNCHANGED <<timestamp, settled, before>>
      BY <1>12 DEF DeqEmpty
    <2>7. t \in Threads
      BY <1>12
    <2> QED
      BY ONLY <2>1, <2>2, <2>3, <2>4, <2>5, <2>6, <2>7 DEF Pool!Empty, Pool!Queued
  <1>13. ASSUME NEW t \in Threads, DeqAdvance(t) PROVE UNCHANGED Pool!vars
    BY <1>13 DEF DeqAdvance, Pool!vars, PoolPlace, PoolOp, PoolNode, Queued
  <1>14. ASSUME NEW t \in Threads, DequeueReturn(t) PROVE Pool!DequeueReturn(t)
    <2>1. \A u \in Threads : PoolOp(u)' = IF u = t THEN "idle" ELSE PoolOp(u)
      BY <1>14 DEF DequeueReturn, PoolOp
    <2>2. PoolOp(t) = "answered"
      BY <1>14 DEF DequeueReturn, PoolOp
    <2>3. \A m \in Nodes : PoolPlace(m)' = PoolPlace(m)
      BY <1>14 DEF DequeueReturn, PoolPlace, Queued
    <2>4. \A u \in Threads : PoolNode(u)' = IF u = t THEN NoNode ELSE PoolNode(u)
      BY <1>14 DEF DequeueReturn, PoolNode, PoolOp
    <2>5. before' = [before EXCEPT ![t] = {}] /\ UNCHANGED <<timestamp, settled>>
      BY <1>14 DEF DequeueReturn
    <2>6. t \in Threads
      BY <1>14
    <2> QED
      BY ONLY <2>1, <2>2, <2>3, <2>4, <2>5, <2>6 DEF Pool!DequeueReturn, Pool!Queued
  <1>15. ASSUME NEW t \in Threads, Unlink(t) PROVE UNCHANGED Pool!vars
    BY <1>15 DEF Unlink, UnlinkIn, Pool!vars, PoolPlace, PoolOp, PoolNode, Queued
  <1>16. CASE UNCHANGED vars
    BY <1>16 DEF vars, Pool!vars, PoolPlace, PoolOp, PoolNode, Queued
  <1>17. Pool!Next \/ UNCHANGED Pool!vars
    BY ONLY [Next]_vars, <1>1, <1>2, <1>3, <1>4, <1>5, <1>6, <1>7, <1>8, <1>9, <1>10, <1>11,
       <1>12, <1>13, <1>14, <1>15, <1>16
       DEF Next, Call, Step, EnqueueStep, DequeueStep, Pool!Next
  <1> QED
    BY <1>17

\* The cursor protocol implements the abstract pool.
THEOREM Refinement == ASSUME MarksDistinct PROVE Spec => ImplementsPool
  <1> QED
    BY Invariance, PoolInit, PoolStep, PTL DEF Spec, ImplementsPool, Pool!Spec
=============================================================================
