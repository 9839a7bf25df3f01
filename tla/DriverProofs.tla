---------------------------- MODULE DriverProofs ----------------------------
(***************************************************************************)
(* Proofs about module Driver, for any number of threads, any timestamps,  *)
(* table sizes and periods.                                                *)
(*                                                                         *)
(* Of the whole program, expansions and late insertions included: the      *)
(* types, the layout of the table, that the waits for the cells of array[] *)
(* never close a cycle, that GVT never goes back and prune() is alone      *)
(* below its threshold, how many operations are done, and that CHECK is    *)
(* what is left in the queue.                                              *)
(*                                                                         *)
(* While the table has not grown (NotGrown) and no mark is cut             *)
(* (MarksKept): that the program never stops itself and that nothing is    *)
(* left.  The heart of it is Guarded: as long as an event is in the table, *)
(* some thread is bound to meet it before it takes a later one.  Without   *)
(* the two conditions the code strands events behind current.  A step      *)
(* lemma has one case per action of Driver.                                *)
(***************************************************************************)
EXTENDS Driver, NumberLemmas

-----------------------------------------------------------------------------
\* The marks, before generate_mark()'s mask, do not repeat.

\* A pair can be read back from its Cantor number.
LEMMA CantorInjective ==
  ASSUME NEW a \in Nat, NEW b \in Nat, NEW c \in Nat, NEW d \in Nat,
         Cantor(a, b) = Cantor(c, d)
  PROVE  a = c /\ b = d
  <1>1. Cantor(a, b) = PairNumber(a, b) /\ Cantor(c, d) = PairNumber(c, d)
    BY DEF Cantor, Triangle, PairNumber, PairRow
  <1> QED
    BY <1>1, PairsApart

\* A Cantor number is a natural.
LEMMA CantorNat ==
  ASSUME NEW a \in Nat, NEW b \in Nat
  PROVE  Cantor(a, b) \in Nat
  BY PairsApart DEF Cantor, Triangle, PairNumber, PairRow

\* As long as the mask drops no bit, the marks of two calls of
\* generate_mark() differ: by another thread, or by the same one later.
LEMMA MarksUnique ==
  ASSUME MarkRange \in Nat \ {0},
         NEW t \in Nat, NEW k \in Nat, Cantor(t, k) < MarkRange,
         NEW u \in Nat, NEW l \in Nat, Cantor(u, l) < MarkRange,
         GenerateMark(t, k) = GenerateMark(u, l)
  PROVE  t = u /\ k = l
  <1>1. \A m \in Nat : m < MarkRange => m % MarkRange = m
    OBVIOUS
  <1>2. Cantor(t, k) = Cantor(u, l)
    BY <1>1, CantorNat DEF GenerateMark
  <1> QED
    BY <1>2, CantorInjective

\* INIT_SIZE is a power of two that an unsigned int holds.
InitSizeFits == \E e \in 0 .. (WordBits - 1) : InitSize = 2^e

\* No bucket index is cut by the conversion to an unsigned int.
TimestampsFit == \A ts \in Timestamps : ts \div BucketWidth < 2^WordBits

-----------------------------------------------------------------------------
\* The table.

\* The bit scan finds the highest bit.
LEMMA HighestBitFound ==
  ASSUME NEW b \in 0 .. (WordBits - 1), NEW v \in Nat, 2^b <= v, v < 2^(b + 1)
  PROVE  ibsr_x86(v) = b
  <1>1. WordBits \in Nat /\ b \in Nat
    BY WordAssumption
  <1>2. v # 0
    <2>1. 2^b \in Nat /\ b < 2^b
      BY <1>1, PowerAbove
    <2> QED
      BY <1>1, <2>1
  <1>3. \A c \in 0 .. (WordBits - 1) : 2^c <= v /\ v < 2^(c + 1) => c = b
    <2> SUFFICES ASSUME NEW c \in 0 .. (WordBits - 1), 2^c <= v, v < 2^(c + 1) PROVE c = b
      OBVIOUS
    <2>1. c \in Nat
      BY <1>1
    <2> QED
      BY <1>1, <2>1, OneBit
  <1> DEFINE Fits(c) == 2^c <= v /\ v < 2^(c + 1)
  <1>4. Fits(b) /\ \A c \in 0 .. (WordBits - 1) : Fits(c) => c = b
    BY <1>3
  <1>5. ibsr_x86(v) = CHOOSE c \in 0 .. (WordBits - 1) : Fits(c)
    BY <1>2 DEF ibsr_x86
  <1> HIDE DEF Fits
  <1> QED
    BY <1>4, <1>5

\* Where an index past the first segment lies.
LEMMA CellOf ==
  ASSUME NEW e \in 0 .. (WordBits - 1), InitSize = 2^e,
         NEW i \in Nat, InitSize <= i, i < 2^WordBits
  PROVE  \E b \in e .. (WordBits - 1) :
           /\ 2^b <= i /\ i < 2^(b + 1)
           /\ firstIndex(i, InitSize) = b - e + 1
           /\ access_hashtable(i, InitSize) = <<b - e + 1, i - 2^b>>
  <1>1. WordBits \in Nat /\ e \in Nat /\ e + 1 \in Nat
    BY WordAssumption
  <1>2. 2^e \in Nat /\ e < 2^e /\ 2^(e + 1) = 2 * 2^e
    BY <1>1, PowerAbove, Doubled
  <1>3. 0 < i /\ 2^e < 2^(e + 1)
    BY <1>1, <1>2
  <1>4. PICK b \in 0 .. (WordBits - 1) : 2^b <= i /\ i < 2^(b + 1)
    BY <1>1, <1>3, HighestBit
  <1>5. ibsr_x86(i) = b
    BY <1>4, HighestBitFound
  <1>6. ibsr_x86(InitSize) = e
    BY <1>2, <1>3, HighestBitFound
  <1>7. b \in Nat /\ 2^b \in Nat
    BY <1>1, PowerAbove
  <1>8. e <= b
    <2> SUFFICES ASSUME b < e PROVE FALSE
      BY <1>1, <1>7
    <2>1. 2^(b + 1) <= 2^e
      BY <1>1, <1>7, PowerGrows
    <2>2. 2^(b + 1) \in Nat
      <3>1. b + 1 \in Nat
        BY <1>7
      <3> QED
        BY <3>1, PowerAbove
    <2> QED
      BY <1>2, <1>4, <2>1, <2>2
  <1>9. b \in e .. (WordBits - 1)
    BY <1>1, <1>7, <1>8
  <1>10. firstIndex(i, InitSize) = b - e + 1
    BY <1>5, <1>6 DEF firstIndex
  <1>11. access_hashtable(i, InitSize) = <<b - e + 1, i - 2^b>>
    BY <1>5, <1>10 DEF access_hashtable
  <1> QED
    BY <1>4, <1>9, <1>10, <1>11

\* Two indices of a word never have the same bucket.
LEMMA CellsApart ==
  ASSUME InitSizeFits, NEW i \in Nat, NEW k \in Nat, i < 2^WordBits, k < 2^WordBits,
         access_hashtable(i, InitSize) = access_hashtable(k, InitSize)
  PROVE  i = k
  <1>1. PICK e \in 0 .. (WordBits - 1) : InitSize = 2^e
    BY DEF InitSizeFits
  <1>2. InitSize \in Nat /\ e \in Nat
    BY DriverAssumption
  <1>3. \A n \in Nat : n < InitSize => access_hashtable(n, InitSize) = <<0, n>>
    BY <1>2 DEF access_hashtable
  <1>4. \A n \in Nat : InitSize <= n /\ n < 2^WordBits =>
          \E b \in e .. (WordBits - 1) :
            b \in Nat /\ 2^b \in Nat /\ access_hashtable(n, InitSize) = <<b - e + 1, n - 2^b>>
    <2> SUFFICES ASSUME NEW n \in Nat, InitSize <= n, n < 2^WordBits
                 PROVE  \E b \in e .. (WordBits - 1) :
                          b \in Nat /\ 2^b \in Nat
                            /\ access_hashtable(n, InitSize) = <<b - e + 1, n - 2^b>>
      OBVIOUS
    <2>1. PICK b \in e .. (WordBits - 1) : access_hashtable(n, InitSize) = <<b - e + 1, n - 2^b>>
      BY <1>1, CellOf
    <2>2. b \in Nat
      BY <1>2
    <2>3. 2^b \in Nat
      BY <2>2, PowerAbove
    <2> QED
      BY <2>1, <2>2, <2>3
  <1>5. CASE i < InitSize /\ k < InitSize
    BY <1>3, <1>5
  <1>6. CASE i < InitSize /\ InitSize <= k
    BY <1>2, <1>3, <1>4, <1>6
  <1>7. CASE InitSize <= i /\ k < InitSize
    BY <1>2, <1>3, <1>4, <1>7
  <1>8. CASE InitSize <= i /\ InitSize <= k
    BY <1>2, <1>4, <1>8
  <1> QED
    BY <1>2, <1>5, <1>6, <1>7, <1>8

\* A size the table can have: a power of two that a word can index.
Size(n) == \E k \in 0 .. WordBits : n = 2^k

\* A size of the table fits in a word.
LEMMA SizeInWord ==
  ASSUME NEW n \in Nat, Size(n)
  PROVE  n <= 2^WordBits
  <1>1. PICK k \in 0 .. WordBits : n = 2^k
    BY DEF Size
  <1>2. WordBits \in Nat /\ k \in Nat
    BY WordAssumption
  <1>3. 2^k \in Nat /\ 2^WordBits \in Nat
    BY <1>2, PowerAbove
  <1>4. CASE k = WordBits
    BY <1>1, <1>3, <1>4
  <1>5. CASE k < WordBits
    <2>1. k + 1 \in Nat
      BY <1>2
    <2>2. 2^(k + 1) <= 2^WordBits /\ 2^(k + 1) = 2 * 2^k
      BY <1>2, <1>5, PowerGrows, Doubled
    <2> QED
      BY <1>1, <1>3, <2>2
  <1> QED
    BY <1>2, <1>4, <1>5

\* At such a size every index has a bucket of its own in an allocated segment.
LEMMA LayoutIsExact ==
  ASSUME InitSizeFits, NEW n \in Nat, Size(n), InitSize <= n
  PROVE  LayoutExact(n, InitSize)
  <1>1. PICK e \in 0 .. (WordBits - 1) : InitSize = 2^e
    BY DEF InitSizeFits
  <1>2. PICK k \in 0 .. WordBits : n = 2^k
    BY DEF Size
  <1>3. WordBits \in Nat /\ e \in Nat /\ k \in Nat /\ InitSize \in Nat
    BY WordAssumption, DriverAssumption
  <1>4. 2^k \in Nat /\ 2^WordBits \in Nat
    BY <1>3, PowerAbove
  <1>5. n <= 2^WordBits
    BY SizeInWord
  <1>6. ASSUME NEW i \in 0 .. (n - 1)
        PROVE \E seg \in Segments(n, InitSize) :
                access_hashtable(i, InitSize)[1] = seg[1] /\ access_hashtable(i, InitSize)[2] < seg[2]
    <2>1. i \in Nat /\ i < n /\ i < 2^WordBits
      BY <1>4, <1>5
    <2>2. CASE i < InitSize
      <3>1. access_hashtable(i, InitSize) = <<0, i>>
        BY <1>3, <2>1, <2>2 DEF access_hashtable
      <3>2. <<0, InitSize>> \in Segments(n, InitSize)
        BY DEF Segments
      <3> QED
        BY <2>2, <3>1, <3>2
    <2>3. CASE InitSize <= i
      <3>1. PICK b \in e .. (WordBits - 1) :
              /\ 2^b <= i /\ i < 2^(b + 1)
              /\ access_hashtable(i, InitSize) = <<b - e + 1, i - 2^b>>
        BY <1>1, <2>1, <2>3, CellOf
      <3>2. b \in Nat /\ b - e \in 0 .. WordBits /\ b - e \in Nat /\ e + (b - e) = b
            /\ b \in 0 .. (WordBits - 1)
        BY <1>3
      <3>3. 2^b \in Nat /\ 2^(b + 1) = 2 * 2^b /\ b < 2^b
        BY <3>2, PowerAbove, Doubled
      <3>4. InitSize * 2^(b - e) = 2^b
        <4>1. 2^(e + (b - e)) = 2^e * 2^(b - e)
          BY <1>3, <3>2, PowerAdds
        <4> QED
          BY <1>1, <3>2, <4>1
      <3>5. 2^b \in 0 .. (n - 1)
        BY <2>1, <3>1, <3>3
      <3>6. InitSize <= 2^b
        <4>1. CASE b = e
          BY <1>1, <1>3, <4>1
        <4>2. CASE e < b
          <5>1. 2^(e + 1) <= 2^b /\ 2^(e + 1) = 2 * 2^e /\ 2^e \in Nat
            BY <1>3, <3>2, <4>2, PowerGrows, Doubled
          <5> QED
            BY <1>1, <3>3, <5>1
        <4> QED
          BY <1>3, <3>2, <4>1, <4>2
      <3>7. firstIndex(2^b, InitSize) = b - e + 1
        <4>1. ibsr_x86(2^b) = b
          <5>1. 2^b <= 2^b /\ 2^b < 2^(b + 1)
            BY <3>2, <3>3
          <5> QED
            BY <3>2, <3>3, <5>1, HighestBitFound
        <4>2. ibsr_x86(InitSize) = e
          <5>1. 2^e \in Nat /\ 2^(e + 1) = 2 * 2^e /\ e < 2^e
            BY <1>3, PowerAbove, Doubled
          <5>2. 2^e <= InitSize /\ InitSize < 2^(e + 1)
            BY <1>1, <1>3, <5>1
          <5> QED
            BY <1>3, <5>2, HighestBitFound
        <4> QED
          BY <3>6, <4>1, <4>2 DEF firstIndex
      <3>8. <<b - e + 1, 2^b>> \in Segments(n, InitSize)
        <4>1. 2^b \in {InitSize * 2^m : m \in 0 .. WordBits} \cap 0 .. (n - 1)
          BY <3>2, <3>4, <3>5
        <4> QED
          BY <3>7, <4>1 DEF Segments
      <3>9. i - 2^b < 2^b
        BY <2>1, <3>1, <3>3
      <3> QED
        BY <3>1, <3>8, <3>9
    <2> QED
      BY <1>3, <2>1, <2>2, <2>3
  <1>7. ASSUME NEW i \in 0 .. (n - 1), NEW m \in 0 .. (n - 1),
               access_hashtable(i, InitSize) = access_hashtable(m, InitSize)
        PROVE  i = m
    <2>1. i \in Nat /\ m \in Nat /\ i < 2^WordBits /\ m < 2^WordBits
      BY <1>4, <1>5
    <2> QED
      BY <1>7, <2>1, CellsApart
  <1> QED
    BY <1>6, <1>7 DEF LayoutExact

-----------------------------------------------------------------------------
\* Types.

\* The times the program handles.
Times == Reached \cup {INFTY}

\* The types of the queue, of the cells, of the locations, of the loops and of
\* what a thread owns.
Cursors == [index : Nat, mark : 0 .. (MarkRange - 1)]

TypeQueue ==
  /\ dequeue_size \in Nat \ {0} /\ table_size \in {dequeue_size, 2 * dequeue_size}
  /\ current \in Cursors /\ current.index < dequeue_size
  /\ marks \in [Threads -> Nat]
  /\ live \in [Timestamps -> Nat]
  /\ future \in [Timestamps -> Nat] /\ todo \in [Timestamps -> Nat]
  /\ pending \subseteq {t \in Threads : pc[t] = "flush"}
  /\ closed \in BOOLEAN
  /\ oldCur \in [Threads -> Cursors]
  /\ \A t \in Threads : oldCur[t].index < dequeue_size

\* How far an expansion is: the lists are swapped with the table doubled, and
\* dequeue_size is doubled when the to-do list is closed and empty.
TableInv ==
  /\ ~closed => table_size = 2 * dequeue_size /\ \E t \in Threads : pc[t] = "close"
  /\ todo # NoEvents => table_size = 2 * dequeue_size
  /\ \A t \in Threads :
       /\ pc[t] = "expand" => dequeue_size = old_size(t) \/ dequeue_size >= 2 * old_size(t)
       /\ pc[t] \in {"close", "empty", "move"} => table_size >= 2 * old_size(t)
       /\ pc[t] \in {"empty", "move"} /\ dequeue_size = old_size(t) => closed

TypeCells ==
  /\ array \in [Threads -> Times]
  /\ GVT \in Reached
  /\ ops_count \in [Threads -> Nat]
  /\ ops \in [Threads -> Int]

TypePc ==
  /\ pc \in [Threads -> Locations]
  /\ draining \in [Threads -> BOOLEAN]

TypeLoop ==
  /\ others \in [Threads -> SUBSET Threads]
  /\ acc \in [Threads -> Nat]
  /\ j \in [Threads -> Nat]
  /\ \A t \in Threads : t \notin others[t]
  /\ \A t \in Threads : others[t] # {} => pc[t] \in {"wait", "min", "sum"}
  /\ \A t \in Threads : pc[t] = "sum" => others[t] # {}
  /\ \A t \in Threads : j[t] <= acc[t] /\ (j[t] > 0 => pc[t] = "prune")

InHand == {"insert", "flush", "help_move", "move", "take", "publish", "check", "wait"}

TypeOwn ==
  /\ timestamp \in [Threads -> Reached]
  /\ local_min \in [Threads -> Reached]
  /\ balance \in [Threads -> Int]
  /\ \A t \in Threads : pc[t] \in InHand =>
       timestamp[t] \in Timestamps

\* DriverTypeOK with the types of all variables.
TypeInv == TypeQueue /\ TableInv /\ TypeCells /\ TypePc /\ TypeLoop /\ TypeOwn

\* Min is the least element.
LEMMA MinIs ==
  ASSUME NEW S \in SUBSET Nat, S # {}
  PROVE  Min(S) \in S /\ \A x \in S : Min(S) <= x
  <1>1. PICK n \in S : \A m \in S : n <= m
    BY LeastNat
  <1> DEFINE Least(n_) == \A m \in S : n_ <= m
  <1>2. Min(S) = CHOOSE x \in S : Least(x)
    BY DEF Min
  <1>3. n \in S /\ Least(n)
    BY <1>1
  <1> HIDE DEF Least
  <1>4. Min(S) \in S /\ Least(Min(S))
    BY <1>2, <1>3
  <1> QED
    BY <1>4 DEF Least

\* What the assumption on the constants says of times.
LEMMA TimesNat == Reached \subseteq Nat /\ Times \subseteq Nat /\ INFTY \in Nat /\ 0 \in Reached
                  /\ \A x \in Reached : x \in Times
  BY DriverAssumption DEF Reached, Times

\* hash() yields an unsigned int, at most the quotient.
LEMMA HashNat ==
  ASSUME NEW x \in Nat, NEW w \in Nat \ {0}
  PROVE  /\ hash(x, w) \in Nat
         /\ hash(x, w) < 2^WordBits
         /\ hash(x, w) <= x \div w
  <1>1. 2^WordBits \in Nat /\ WordBits < 2^WordBits
    BY WordAssumption, PowerAbove
  <1>2. x \div w \in Nat
    OBVIOUS
  <1>3. \A m, p \in Nat : 0 < p => m % p \in Nat /\ m % p < p /\ m % p <= m
    OBVIOUS
  <1>4. 0 < 2^WordBits
    BY <1>1, WordAssumption
  <1> QED
    BY <1>1, <1>2, <1>3, <1>4, Zenon DEF hash

\* The index at which prune() stops.
LEMMA EndIndexNat == \A m \in Nat : EndIndex(m) \in Nat
  <1> TAKE m \in Nat
  <1>1. m * ThresholdNum \in Nat /\ ThresholdDen * BucketWidth \in Nat \ {0}
    BY DriverAssumption
  <1> QED
    BY <1>1, HashNat DEF EndIndex

\* The bucket of a timestamp.
LEMMA BucketNat == \A ts \in Reached : BucketOf(ts) \in Nat
  BY HashNat, TimesNat, DriverAssumption DEF BucketOf

\* There are other threads.
LEMMA OthersThere == \A t \in Threads : Others(t) # {} /\ Others(t) \subseteq Threads /\ t \notin Others(t)
  <1> TAKE t \in Threads
  <1>1. Others(t) # {}
    <2> SUFFICES ASSUME Others(t) = {} PROVE FALSE
      OBVIOUS
    <2>1. Threads = {t}
      BY DEF Others
    <2>2. Cardinality(Threads) = 1
      BY <2>1, FS_Singleton
    <2> QED
      BY <2>2, DriverAssumption
  <1> QED
    BY <1>1 DEF Others

\* The minimum of two numbers.
LEMMA MinOfTwo ==
  ASSUME NEW a \in Nat, NEW b \in Nat
  PROVE  Min({a, b}) \in {a, b} /\ Min({a, b}) \in Nat /\ Min({a, b}) <= a /\ Min({a, b}) <= b
  <1>1. {a, b} \in SUBSET Nat /\ {a, b} # {}
    OBVIOUS
  <1>2. Min({a, b}) \in {a, b} /\ \A x \in {a, b} : Min({a, b}) <= x
    BY <1>1, MinIs
  <1> QED
    BY <1>2

\* The next thread a loop reads.
LEMMA MinThread ==
  ASSUME NEW S \in SUBSET Threads, S # {}
  PROVE  Min(S) \in S /\ Min(S) \in Threads /\ \A x \in S : Min(S) <= x
  <1>1. S \in SUBSET Nat
    BY DriverAssumption
  <1> QED
    BY <1>1, MinIs

\* After an operation, a thread goes on to the minimum or to the count.
LEMMA AfterOperationIs ==
  ASSUME NEW t \in Threads, AfterOperation(t)
  PROVE  \/ /\ pc' = [pc EXCEPT ![t] = "min"]
            /\ others' = [others EXCEPT ![t] = Others(t)]
            /\ acc' = [acc EXCEPT ![t] = array'[t]]
         \/ /\ pc' = [pc EXCEPT ![t] = "count"]
            /\ others' = others
            /\ acc' = acc
  <1>1. CASE ops_count[t] % PrunePeriod = 0
    BY <1>1, Zenon DEF AfterOperation, Goto, Set
  <1>2. CASE ~(ops_count[t] % PrunePeriod = 0)
    BY <1>2, Zenon DEF AfterOperation, Goto, Set
  <1> QED
    BY <1>1, <1>2

\* The end of an enqueue: the loop of a collaborative one, or the operation's.
LEMMA EndEnqueueIs ==
  ASSUME NEW t \in Threads, EndEnqueue(t)
  PROVE  /\ timestamp' = [timestamp EXCEPT ![t] = 0]
         /\ local_min' = [local_min EXCEPT ![t] = timestamp[t]]
         /\ balance' = [balance EXCEPT ![t] = balance[t] - 1]
         /\ \/ pc' = [pc EXCEPT ![t] = "help"] /\ others' = others /\ acc' = acc
            \/ AfterOperation(t)
  <1>1. CASE Collaborative
    BY <1>1, Zenon DEF EndEnqueue, Goto, Set
  <1>2. CASE ~Collaborative
    BY <1>2, Zenon DEF EndEnqueue, Goto, Set
  <1> QED
    BY <1>1, <1>2

\* What the insertion of an event in a list of the queue leaves alone.
LEMMA InsertFutureIs ==
  ASSUME NEW t \in Threads, InsertFuture(t)
  PROVE  /\ pc[t] = "insert" /\ Push(timestamp[t]) /\ EndEnqueue(t)
         /\ UNCHANGED <<current, marks, dequeue_size, table_size, live, pending, closed>>
         /\ UNCHANGED <<array, GVT, ops_count, ops, oldCur, j, draining, outcome, check>>
  BY DEF InsertFuture, cursor, sizes, cells

\* The steps of expand_array(), and of the loop of a collaborative enqueue().
Growth(t) ==
  DeqExpand(t) \/ ExpandSwap(t) \/ ExpandClose(t) \/ Pop(t) \/ Move(t) \/ ExpandSize(t)

\* They move the events of the queue and the one in the thread's hand.
LEMMA GrowthIs ==
  ASSUME NEW t \in Threads, Growth(t)
  PROVE  /\ UNCHANGED <<current, marks, pending, array, GVT, ops_count, ops, oldCur>>
         /\ UNCHANGED <<others, acc, j, draining, local_min, balance, outcome, check>>
         /\ timestamp' = timestamp \/ \E x \in Reached : timestamp' = [timestamp EXCEPT ![t] = x]
         /\ \/ /\ pc[t] \in {"advance", "expand", "close", "empty", "move"}
               /\ \E l \in {"advance", "expand", "close", "empty", "move"} : pc' = [pc EXCEPT ![t] = l]
            \/ /\ pc[t] \in {"help", "help_move"}
               /\ \E l \in {"help", "help_move"} : pc' = [pc EXCEPT ![t] = l]
  <1> USE DEF queue, cursor, sizes, lists, cells, loop, own, Goto, Set
  <1>1. CASE DeqExpand(t)
    BY <1>1 DEF DeqExpand
  <1>2. CASE ExpandSwap(t)
    BY <1>2 DEF ExpandSwap
  <1>3. CASE ExpandClose(t)
    BY <1>3 DEF ExpandClose
  <1>4. CASE Pop(t)
    BY <1>4 DEF Pop, Reached
  <1>5. CASE Move(t)
    BY <1>5 DEF Move, Reached
  <1>6. CASE ExpandSize(t)
    BY <1>6 DEF ExpandSize
  <1> QED
    BY <1>1, <1>2, <1>3, <1>4, <1>5, <1>6 DEF Growth

\* The locations are kept.
LEMMA TypePcStep == TypeInv /\ [Next]_vars => TypePc'
  <1> SUFFICES ASSUME TypeInv, [Next]_vars PROVE TypePc'
    OBVIOUS
  <1> USE DEF TypeInv, TypePc, Locations, vars, queue, cursor, sizes, lists, cells, loop, own, Goto, Set
  <1>1. ASSUME NEW t \in Threads, Start(t) PROVE TypePc'
    BY <1>1 DEF Start
  <1>2. ASSUME NEW t \in Threads, CallEnqueue(t) PROVE TypePc'
    BY <1>2 DEF CallEnqueue
  <1>3. ASSUME NEW t \in Threads, Insert(t) PROVE TypePc'
    BY <1>3 DEF Insert
  <1>4. ASSUME NEW t \in Threads, Flush(t) PROVE TypePc'
    <2>1. EndEnqueue(t) /\ draining' = draining
      BY <1>4 DEF Flush
    <2> QED
      BY <2>1, EndEnqueueIs, AfterOperationIs
  <1>5. ASSUME NEW t \in Threads, DeqRead(t) PROVE TypePc'
    <2>1. pc' \in [Threads -> Locations]
      BY <1>5 DEF DeqRead
    <2>2. draining' \in [Threads -> BOOLEAN]
      <3>1. draining' = draining \/ draining' = [draining EXCEPT ![t] = (acc[t] >= TotalOps)]
        BY <1>5 DEF DeqRead
      <3>2. (acc[t] >= TotalOps) \in BOOLEAN
        OBVIOUS
      <3> QED
        BY <3>1, <3>2, Zenon
    <2> QED
      BY <2>1, <2>2
  <1>6. ASSUME NEW t \in Threads, DeqScan(t) PROVE TypePc'
    BY <1>6 DEF DeqScan
  <1>7. ASSUME NEW t \in Threads, DeqTake(t) PROVE TypePc'
    BY <1>7 DEF DeqTake
  <1>8. ASSUME NEW t \in Threads, DeqAdvance(t) PROVE TypePc'
    BY <1>8 DEF DeqAdvance, DrawMark
  <1>9. ASSUME NEW t \in Threads, DeqEmpty(t) PROVE TypePc'
    BY <1>9 DEF DeqEmpty, AfterOperation
  <1>10. ASSUME NEW t \in Threads, Publish(t) PROVE TypePc'
    BY <1>10 DEF Publish, AfterOperation
  <1>11. ASSUME NEW t \in Threads, PublishDraining(t) PROVE TypePc'
    BY <1>11 DEF PublishDraining
  <1>12. ASSUME NEW t \in Threads, CheckGVT(t) PROVE TypePc'
    BY <1>12 DEF CheckGVT
  <1>13. ASSUME NEW t \in Threads, WaitForCell(t) PROVE TypePc'
    BY <1>13 DEF WaitForCell
  <1>14. ASSUME NEW t \in Threads, Spin(t) PROVE TypePc'
    BY <1>14 DEF Spin
  <1>15. ASSUME NEW t \in Threads, WriteGVT(t) PROVE TypePc'
    BY <1>15 DEF WriteGVT, AfterOperation
  <1>16. ASSUME NEW t \in Threads, ReadMin(t) PROVE TypePc'
    BY <1>16 DEF ReadMin
  <1>17. ASSUME NEW t \in Threads, CallPrune(t) PROVE TypePc'
    BY <1>17 DEF CallPrune
  <1>18. ASSUME NEW t \in Threads, PruneBucket(t) PROVE TypePc'
    BY <1>18 DEF PruneBucket
  <1>19. ASSUME NEW t \in Threads, Count(t) PROVE TypePc'
    BY <1>19 DEF Count, LogCondition
  <1>20. ASSUME NEW t \in Threads, SumOps(t) PROVE TypePc'
    BY <1>20 DEF SumOps
  <1>21. ASSUME NEW t \in Threads, Finish(t) PROVE TypePc'
    BY <1>21 DEF Finish
  <1>22. ASSUME NEW t \in Threads, Growth(t) PROVE TypePc'
    BY <1>22, GrowthIs
  <1>23. ASSUME NEW t \in Threads, InsertFuture(t) PROVE TypePc'
    BY <1>23, InsertFutureIs, EndEnqueueIs, AfterOperationIs
  <1>24. ASSUME NEW t \in Threads, EndHelp(t) PROVE TypePc'
    BY <1>24, AfterOperationIs DEF EndHelp
  <1>25. ASSUME PrintCheck PROVE TypePc'
    BY <1>25 DEF PrintCheck
  <1>26. CASE UNCHANGED vars
    BY <1>26
  <1> QED
    BY <1>1, <1>2, <1>3, <1>4, <1>5, <1>6, <1>7, <1>8, <1>9, <1>10, <1>11, <1>12,
       <1>13, <1>14, <1>15, <1>16, <1>17, <1>18, <1>19, <1>20, <1>21, <1>22, <1>23, <1>24,
       <1>25, <1>26 DEF Next, Step, Growth, Exited

\* A step of a thread changes no other thread's variables, but for the queue's.
LEMMA OneThread ==
  ASSUME TypeInv, NEW t \in Threads, Step(t), NEW v \in Threads \ {t}
  PROVE  /\ pc'[v] = pc[v] /\ array'[v] = array[v] /\ timestamp'[v] = timestamp[v]
         /\ oldCur'[v] = oldCur[v] /\ draining'[v] = draining[v] /\ acc'[v] = acc[v]
         /\ local_min'[v] = local_min[v] /\ j'[v] = j[v] /\ others'[v] = others[v]
  <1>y. /\ pc \in [Threads -> Locations] /\ array \in [Threads -> Times]
        /\ timestamp \in [Threads -> Reached] /\ oldCur \in [Threads -> Cursors]
        /\ draining \in [Threads -> BOOLEAN] /\ acc \in [Threads -> Nat]
        /\ local_min \in [Threads -> Reached] /\ j \in [Threads -> Nat]
        /\ others \in [Threads -> SUBSET Threads]
    BY DEF TypeInv, TypeQueue, TypeCells, TypePc, TypeLoop, TypeOwn
  <1> DEFINE Kept == /\ pc'[v] = pc[v] /\ array'[v] = array[v] /\ timestamp'[v] = timestamp[v]
                     /\ oldCur'[v] = oldCur[v] /\ draining'[v] = draining[v] /\ acc'[v] = acc[v]
                     /\ local_min'[v] = local_min[v] /\ j'[v] = j[v] /\ others'[v] = others[v]
  <1>a. AfterOperation(t) => pc'[v] = pc[v] /\ others'[v] = others[v] /\ acc'[v] = acc[v]
    BY <1>y, AfterOperationIs
  <1> USE DEF vars, queue, cursor, sizes, lists, cells, loop, own, Goto, Set
  <1>1. CASE Start(t)
    BY <1>1, <1>y DEF Start
  <1>2. CASE CallEnqueue(t)
    BY <1>2, <1>y DEF CallEnqueue
  <1>3. CASE Insert(t)
    BY <1>3, <1>y DEF Insert
  <1>4. CASE Flush(t)
    <2>1. EndEnqueue(t) /\ array' = array /\ oldCur' = oldCur /\ draining' = draining /\ j' = j
      BY <1>4 DEF Flush
    <2> QED
      BY <2>1, <1>y, <1>a, EndEnqueueIs
  <1>5. CASE DeqRead(t)
    BY <1>5, <1>y DEF DeqRead, LogCondition
  <1>6. CASE DeqScan(t)
    BY <1>6, <1>y DEF DeqScan
  <1>7. CASE DeqTake(t)
    BY <1>7, <1>y DEF DeqTake
  <1>8. CASE DeqAdvance(t)
    BY <1>8, <1>y DEF DeqAdvance, DrawMark
  <1>9. CASE DeqEmpty(t)
    BY <1>9, <1>y, <1>a DEF DeqEmpty
  <1>10. CASE Publish(t)
    BY <1>10, <1>y, <1>a DEF Publish
  <1>11. CASE PublishDraining(t)
    BY <1>11, <1>y DEF PublishDraining
  <1>12. CASE CheckGVT(t)
    BY <1>12, <1>y DEF CheckGVT
  <1>13. CASE WaitForCell(t)
    BY <1>13, <1>y DEF WaitForCell
  <1>14. CASE Spin(t)
    BY <1>14, <1>y DEF Spin
  <1>15. CASE WriteGVT(t)
    BY <1>15, <1>y, <1>a DEF WriteGVT
  <1>16. CASE ReadMin(t)
    BY <1>16, <1>y DEF ReadMin
  <1>17. CASE CallPrune(t)
    BY <1>17, <1>y DEF CallPrune
  <1>18. CASE PruneBucket(t)
    BY <1>18, <1>y DEF PruneBucket
  <1>19. CASE Count(t)
    BY <1>19, <1>y DEF Count, LogCondition
  <1>20. CASE SumOps(t)
    BY <1>20, <1>y DEF SumOps
  <1>21. CASE Finish(t)
    BY <1>21, <1>y DEF Finish
  <1>22. CASE Growth(t)
    BY <1>22, <1>y, GrowthIs
  <1>23. CASE InsertFuture(t)
    <2>1. EndEnqueue(t) /\ array' = array /\ oldCur' = oldCur /\ draining' = draining /\ j' = j
      BY <1>23, InsertFutureIs
    <2> QED
      BY <2>1, <1>y, <1>a, EndEnqueueIs
  <1>24. CASE EndHelp(t)
    BY <1>24, <1>y, <1>a DEF EndHelp
  <1> HIDE DEF Kept
  <1> QED
    BY <1>1, <1>2, <1>3, <1>4, <1>5, <1>6, <1>7, <1>8, <1>9, <1>10, <1>11, <1>12,
       <1>13, <1>14, <1>15, <1>16, <1>17, <1>18, <1>19, <1>20, <1>21, <1>22, <1>23, <1>24
    DEF Step, Growth, Kept

\* What is left when no thread takes a step.
Frozen == UNCHANGED <<queue, cells, pc, oldCur, loop, own>>

\* A step of a thread, or nothing but the outcome changes.
LEMMA NextCases == [Next]_vars => (\E t \in Threads : Step(t)) \/ Frozen
  BY DEF Next, PrintCheck, Exited, vars, Frozen

\* The actions that leave the table, the lists and the expansions alone.
LEMMA TableKept ==
  ASSUME TypeInv, NEW t \in Threads, Step(t), ~Growth(t), ~InsertFuture(t)
  PROVE  /\ UNCHANGED <<dequeue_size, table_size, future, todo, closed>>
         /\ pc[t] \notin {"expand", "close", "empty", "move", "help_move"}
         /\ pc'[t] \notin {"expand", "close", "empty", "move", "help_move"}
  <1>y. pc \in [Threads -> Locations]
    BY DEF TypeInv, TypePc
  <1>a. AfterOperation(t) => pc'[t] \in {"min", "count"}
    BY <1>y, AfterOperationIs
  <1>e. EndEnqueue(t) => pc'[t] \in {"help", "min", "count"}
    BY <1>y, <1>a, EndEnqueueIs
  <1> USE DEF vars, queue, cursor, sizes, lists, Goto
  <1>1. CASE Flush(t) \/ EndHelp(t)
    BY <1>1, <1>a, <1>e DEF Flush, EndHelp
  <1>2. CASE DeqRead(t) \/ DeqScan(t) \/ DeqTake(t) \/ DeqAdvance(t) \/ DeqEmpty(t)
    BY <1>2, <1>y, <1>a DEF DeqRead, DeqScan, DeqTake, DeqAdvance, DeqEmpty
  <1>3. CASE Start(t) \/ CallEnqueue(t) \/ Insert(t)
    BY <1>3, <1>y DEF Start, CallEnqueue, Insert
  <1>4. CASE Publish(t) \/ PublishDraining(t) \/ CheckGVT(t) \/ WaitForCell(t) \/ Spin(t) \/ WriteGVT(t)
    BY <1>4, <1>y, <1>a DEF Publish, PublishDraining, CheckGVT, WaitForCell, Spin, WriteGVT
  <1>5. CASE \/ ReadMin(t) \/ CallPrune(t) \/ PruneBucket(t) \/ Count(t) \/ SumOps(t) \/ Finish(t)
    BY <1>5, <1>y DEF ReadMin, CallPrune, PruneBucket, Count, SumOps, Finish
  <1> QED
    BY <1>1, <1>2, <1>3, <1>4, <1>5 DEF Step, Growth

\* Every step keeps the relations of an expansion.
LEMMA TableStep == TypeInv /\ [Next]_vars => TableInv'
  <1> SUFFICES ASSUME TypeInv, [Next]_vars PROVE TableInv'
    OBVIOUS
  <1>y. /\ pc \in [Threads -> Locations]
        /\ dequeue_size \in Nat \ {0} /\ table_size \in Nat
        /\ table_size \in {dequeue_size, 2 * dequeue_size}
        /\ \A v \in Threads : old_size(v) \in Nat \ {0} /\ old_size(v) <= dequeue_size
    BY DEF TypeInv, TypePc, TypeQueue, Cursors, old_size
  <1>h. TableInv
    BY DEF TypeInv
  <1> USE DEF TableInv, Goto, Set
  <1>g. ASSUME NEW t \in Threads, Growth(t)
        PROVE  /\ oldCur' = oldCur /\ \A v \in Threads : old_size(v)' = old_size(v)
               /\ \A v \in Threads \ {t} : pc'[v] = pc[v]
    BY <1>g, <1>y, GrowthIs DEF old_size
  <1>1. ASSUME NEW t \in Threads, DeqExpand(t) PROVE TableInv'
    <2>1. /\ pc[t] = "advance" /\ pc' = [pc EXCEPT ![t] = "expand"] /\ old_size(t) >= dequeue_size
          /\ UNCHANGED <<dequeue_size, table_size, todo, closed>>
      BY <1>1 DEF DeqExpand, old_size, queue, sizes, lists
    <2>2. old_size(t) = dequeue_size
      BY <2>1, <1>y
    <2> QED
      BY <1>1, <2>1, <2>2, <1>y, <1>h, <1>g DEF Growth
  <1>2. ASSUME NEW t \in Threads, ExpandSwap(t) PROVE TableInv'
    <2>1. pc[t] = "expand" /\ pc' = [pc EXCEPT ![t] = "close"] /\ dequeue_size' = dequeue_size
      BY <1>2 DEF ExpandSwap
    <2>2. /\ \A v \in Threads : old_size(v)' = old_size(v)
          /\ \A v \in Threads \ {t} : pc'[v] = pc[v]
          /\ pc'[t] = "close"
      BY <1>2, <1>g, <1>y, <2>1 DEF Growth
    <2>3. CASE table_size = old_size(t)
      <3>1. table_size' = 2 * table_size /\ closed' = FALSE
        BY <1>2, <2>3 DEF ExpandSwap
      <3>2. table_size = dequeue_size
        BY <2>3, <1>y
      <3>3. \A v \in Threads \ {t} :
              /\ pc[v] \in {"close", "empty", "move"} => table_size' >= 2 * old_size(v)
              /\ pc[v] \in {"empty", "move"} => dequeue_size # old_size(v)
        BY <3>1, <3>2, <1>y, <1>h
      <3> QED
        BY <2>1, <2>2, <2>3, <3>1, <3>2, <3>3, <1>y, <1>h
    <2>4. CASE table_size # old_size(t)
      <3>1. UNCHANGED <<table_size, todo, closed>>
        BY <1>2, <2>4 DEF ExpandSwap, lists
      <3>2. table_size >= 2 * old_size(t)
        BY <2>1, <2>4, <1>y, <1>h
      <3> QED
        BY <2>1, <2>2, <3>1, <3>2, <1>y, <1>h
    <2> QED
      BY <2>3, <2>4
  <1>3. ASSUME NEW t \in Threads, ExpandClose(t) PROVE TableInv'
    <2>1. /\ pc[t] = "close" /\ pc' = [pc EXCEPT ![t] = "empty"] /\ closed' = TRUE
          /\ UNCHANGED <<dequeue_size, table_size, todo>>
      BY <1>3 DEF ExpandClose, sizes
    <2> QED
      BY <1>3, <2>1, <1>y, <1>h, <1>g DEF Growth
  <1>4. ASSUME NEW t \in Threads, Pop(t) PROVE TableInv'
    <2>1. /\ pc[t] \in {"empty", "help"} /\ closed /\ todo # NoEvents
          /\ pc' = [pc EXCEPT ![t] = IF pc[t] = "empty" THEN "move" ELSE "help_move"]
          /\ UNCHANGED <<dequeue_size, table_size, closed>>
      BY <1>4 DEF Pop, sizes, NoEvents
    <2> QED
      BY <1>4, <2>1, <1>y, <1>h, <1>g DEF Growth
  <1>5. ASSUME NEW t \in Threads, Move(t) PROVE TableInv'
    <2>1. /\ pc[t] \in {"move", "help_move"}
          /\ pc' = [pc EXCEPT ![t] = IF pc[t] = "move" THEN "empty" ELSE "help"]
          /\ UNCHANGED <<dequeue_size, table_size, closed>>
          /\ todo' = todo \/ ~closed
      BY <1>5 DEF Move, Push, sizes
    <2> QED
      BY <1>5, <2>1, <1>y, <1>h, <1>g DEF Growth
  <1>6. ASSUME NEW t \in Threads, ExpandSize(t) PROVE TableInv'
    <2>1. /\ pc[t] = "empty" /\ pc' = [pc EXCEPT ![t] = "advance"] /\ todo = NoEvents
          /\ UNCHANGED <<table_size, todo, closed>>
          /\ dequeue_size' = IF dequeue_size = old_size(t) THEN 2 * dequeue_size ELSE dequeue_size
      BY <1>6 DEF ExpandSize, lists
    <2>2. CASE dequeue_size = old_size(t)
      <3>1. closed /\ table_size = 2 * dequeue_size /\ dequeue_size' = table_size
        BY <2>1, <2>2, <1>y, <1>h
      <3>2. \A v \in Threads : pc[v] = "expand" => dequeue_size' >= 2 * old_size(v)
        BY <2>1, <2>2, <1>y, <1>h
      <3> QED
        BY <1>6, <2>1, <3>1, <3>2, <1>y, <1>h, <1>g DEF Growth
    <2>3. CASE dequeue_size # old_size(t)
      BY <1>6, <2>1, <2>3, <1>y, <1>h, <1>g DEF Growth
    <2> QED
      BY <2>2, <2>3
  <1>7. ASSUME NEW t \in Threads, Step(t), InsertFuture(t) PROVE TableInv'
    <2>1. /\ pc[t] = "insert" /\ pc'[t] \in {"help", "min", "count"}
          /\ UNCHANGED <<dequeue_size, table_size, closed, oldCur>>
          /\ todo' = todo \/ ~closed
      BY <1>7, <1>y, InsertFutureIs, EndEnqueueIs, AfterOperationIs DEF Push
    <2>2. \A v \in Threads \ {t} : pc'[v] = pc[v]
      BY <1>7, OneThread
    <2>3. \A v \in Threads : old_size(v)' = old_size(v)
      BY <2>1 DEF old_size
    <2> QED
      BY <2>1, <2>2, <2>3, <1>h
  <1>8. ASSUME NEW t \in Threads, Step(t), ~Growth(t), ~InsertFuture(t) PROVE TableInv'
    <2>1. /\ UNCHANGED <<dequeue_size, table_size, todo, closed>>
          /\ pc[t] # "close" /\ pc'[t] \notin {"expand", "close", "empty", "move"}
      BY <1>8, TableKept
    <2>2. \A v \in Threads \ {t} : pc'[v] = pc[v] /\ old_size(v)' = old_size(v)
      BY <1>8, OneThread DEF old_size
    <2> QED
      BY <2>1, <2>2, <1>h
  <1>9. CASE Frozen
    BY <1>9, <1>h DEF Frozen, queue, sizes, lists, old_size
  <1> QED
    BY <1>1, <1>2, <1>3, <1>4, <1>5, <1>6, <1>7, <1>8, <1>9, NextCases DEF Growth

\* Every step keeps the types of the queue.
LEMMA TypeQueueStep == TypeInv /\ [Next]_vars => TypeQueue'
  <1> SUFFICES ASSUME TypeInv, [Next]_vars PROVE TypeQueue'
    OBVIOUS
  <1> USE DEF TypeInv, TypeQueue, TypeOwn, TypePc, vars, queue, cursor, sizes, lists, cells, loop, own, Goto, Set
  <1>b. \A ts \in Timestamps : ts \in Reached /\ BucketOf(ts) \in Nat
    BY BucketNat DEF Reached
  <1>c. MarkRange \in Nat \ {0} /\ \A t \in Threads : t \in Nat
    BY DriverAssumption
  <1>d. \A t \in Threads, i \in Nat : Drawn(t, i) \in Cursors /\ Drawn(t, i).index = i
    <2> TAKE t \in Threads, i \in Nat
    <2>1. marks[t] \in Nat
      OBVIOUS
    <2>2. Cantor(t, marks[t]) \in Nat
      BY <1>c, <2>1, CantorNat
    <2>3. \A n \in Nat : n % MarkRange \in 0 .. (MarkRange - 1)
      BY <1>c
    <2> QED
      BY <2>2, <2>3 DEF Drawn, GenerateMark, Cursors
  <1>e. [index |-> 0, mark |-> InitMark] \in Cursors
    BY <1>c DEF Cursors, InitMark
  <1>1. ASSUME NEW t \in Threads, Start(t) PROVE TypeQueue'
    BY <1>1 DEF Start
  <1>2. ASSUME NEW t \in Threads, CallEnqueue(t) PROVE TypeQueue'
    BY <1>2 DEF CallEnqueue
  <1>3. ASSUME NEW t \in Threads, Insert(t) PROVE TypeQueue'
    BY <1>3 DEF Insert
  <1>4. ASSUME NEW t \in Threads, Flush(t) PROVE TypeQueue'
    <2>1. pc[t] = "flush" /\ timestamp[t] \in Timestamps /\ EndEnqueue(t)
      BY <1>4 DEF Flush, InHand
    <2>2. pending' = pending \ {t} /\ pending' \subseteq {u \in Threads : pc'[u] = "flush"}
      <3>1. \A u \in Threads \ {t} : pc'[u] = pc[u]
        BY <2>1, EndEnqueueIs, AfterOperationIs
      <3> QED
        BY <1>4, <3>1 DEF Flush
    <2>3. live' \in [Timestamps -> Nat]
      <3>1. live' = live \/ live' = [live EXCEPT ![timestamp[t]] = live[timestamp[t]] + 1]
        BY <1>4 DEF Flush, OneMore
      <3> QED
        BY <2>1, <3>1
    <2>4. UNCHANGED <<dequeue_size, table_size, future, todo, closed, oldCur>>
      BY <1>4 DEF Flush
    <2>5. marks' \in [Threads -> Nat]
      BY <1>4 DEF Flush, DrawMark
    <2>6. current' \in Cursors /\ current'.index < dequeue_size'
      <3>1. \/ current' = current
            \/ current' = Drawn(t, BucketOf(timestamp[t])) /\ BucketOf(timestamp[t]) <= current.index
        BY <1>4 DEF Flush
      <3>2. current.index \in Nat /\ BucketOf(timestamp[t]) \in Nat
        BY <1>b, <2>1 DEF Cursors
      <3> QED
        BY <1>d, <2>4, <3>1, <3>2
    <2> QED
      BY <2>2, <2>3, <2>4, <2>5, <2>6
  <1>5. ASSUME NEW t \in Threads, DeqRead(t) PROVE TypeQueue'
    BY <1>5 DEF DeqRead, LogCondition
  <1>6. ASSUME NEW t \in Threads, DeqScan(t) PROVE TypeQueue'
    BY <1>6 DEF DeqScan
  <1>7. ASSUME NEW t \in Threads, DeqTake(t) PROVE TypeQueue'
    <2>1. /\ pc[t] = "take" /\ timestamp[t] \in Timestamps
          /\ UNCHANGED <<current, marks, dequeue_size, table_size, future, todo, closed>>
          /\ oldCur' = [oldCur EXCEPT ![t] = NoCursor]
          /\ pc'[t] \in {"publish", "read"} /\ \A u \in Threads \ {t} : pc'[u] = pc[u]
          /\ pending' \subseteq pending
          /\ live' = live \/ (live[timestamp[t]] > 0 /\ live' = OneLess(live, timestamp[t]))
      BY <1>7 DEF DeqTake, InHand
    <2>2. live' \in [Timestamps -> Nat]
      BY <2>1 DEF OneLess
    <2>3. oldCur' \in [Threads -> Cursors] /\ \A u \in Threads : oldCur'[u].index < dequeue_size'
      BY <1>e, <2>1 DEF NoCursor
    <2> QED
      BY <2>1, <2>2, <2>3
  <1>8. ASSUME NEW t \in Threads, DeqAdvance(t) PROVE TypeQueue'
    <2>1. /\ UNCHANGED <<live, pending, dequeue_size, table_size, future, todo, closed>>
          /\ oldCur' = [oldCur EXCEPT ![t] = NoCursor] /\ pc' = [pc EXCEPT ![t] = "read"]
          /\ pc[t] = "advance" /\ oldCur[t].index + 1 < dequeue_size
          /\ current' = current \/ current' = Drawn(t, oldCur[t].index + 1)
          /\ marks' = [marks EXCEPT ![t] = marks[t] + 1]
      BY <1>8 DEF DeqAdvance, DrawMark
    <2>2. oldCur[t].index + 1 \in Nat
      BY DEF Cursors
    <2>3. current' \in Cursors /\ current'.index < dequeue_size'
      BY <1>d, <2>1, <2>2
    <2>4. oldCur' \in [Threads -> Cursors] /\ \A u \in Threads : oldCur'[u].index < dequeue_size'
      BY <1>e, <2>1 DEF NoCursor
    <2> QED
      BY <2>1, <2>3, <2>4
  <1>9. ASSUME NEW t \in Threads, DeqEmpty(t) PROVE TypeQueue'
    <2>1. /\ UNCHANGED <<current, marks, live, pending, dequeue_size, table_size, future, todo, closed>>
          /\ oldCur' = [oldCur EXCEPT ![t] = NoCursor] /\ pc[t] = "advance"
          /\ \A u \in Threads \ {t} : pc'[u] = pc[u]
      BY <1>9, AfterOperationIs DEF DeqEmpty
    <2>2. oldCur' \in [Threads -> Cursors] /\ \A u \in Threads : oldCur'[u].index < dequeue_size'
      BY <1>e, <2>1 DEF NoCursor
    <2> QED
      BY <2>1, <2>2
  <1>10. ASSUME NEW t \in Threads, Publish(t) PROVE TypeQueue'
    BY <1>10 DEF Publish, AfterOperation
  <1>11. ASSUME NEW t \in Threads, PublishDraining(t) PROVE TypeQueue'
    BY <1>11 DEF PublishDraining
  <1>12. ASSUME NEW t \in Threads, CheckGVT(t) PROVE TypeQueue'
    BY <1>12 DEF CheckGVT
  <1>13. ASSUME NEW t \in Threads, WaitForCell(t) PROVE TypeQueue'
    BY <1>13 DEF WaitForCell
  <1>14. ASSUME NEW t \in Threads, Spin(t) PROVE TypeQueue'
    BY <1>14 DEF Spin
  <1>15. ASSUME NEW t \in Threads, WriteGVT(t) PROVE TypeQueue'
    BY <1>15 DEF WriteGVT, AfterOperation
  <1>16. ASSUME NEW t \in Threads, ReadMin(t) PROVE TypeQueue'
    BY <1>16 DEF ReadMin
  <1>17. ASSUME NEW t \in Threads, CallPrune(t) PROVE TypeQueue'
    BY <1>17 DEF CallPrune
  <1>18. ASSUME NEW t \in Threads, PruneBucket(t) PROVE TypeQueue'
    BY <1>18 DEF PruneBucket
  <1>19. ASSUME NEW t \in Threads, Count(t) PROVE TypeQueue'
    BY <1>19 DEF Count, LogCondition
  <1>20. ASSUME NEW t \in Threads, SumOps(t) PROVE TypeQueue'
    BY <1>20 DEF SumOps
  <1>21. ASSUME NEW t \in Threads, Finish(t) PROVE TypeQueue'
    BY <1>21 DEF Finish
  <1>22. ASSUME NEW t \in Threads, Growth(t) PROVE TypeQueue'
    <2>1. /\ UNCHANGED <<current, marks, pending, oldCur>>
          /\ pending' \subseteq {u \in Threads : pc'[u] = "flush"}
      BY <1>22, GrowthIs
    <2>2. /\ live' \in [Timestamps -> Nat] /\ closed' \in BOOLEAN
          /\ future' \in [Timestamps -> Nat] /\ todo' \in [Timestamps -> Nat]
      <3>1. CASE DeqExpand(t)
        BY <3>1 DEF DeqExpand
      <3>2. CASE ExpandSwap(t)
        <4>1. CASE table_size = old_size(t)
          <5>1. todo' = future /\ future' = NoEvents /\ closed' = FALSE /\ live' = live
            BY <3>2, <4>1, Zenon DEF ExpandSwap
          <5>2. NoEvents \in [Timestamps -> Nat]
            BY DEF NoEvents
          <5> QED
            BY <5>1, <5>2
        <4>2. CASE table_size # old_size(t)
          BY <3>2, <4>2 DEF ExpandSwap
        <4> QED
          BY <4>1, <4>2
      <3>3. CASE ExpandClose(t)
        BY <3>3 DEF ExpandClose
      <3>4. CASE Pop(t)
        BY <3>4 DEF Pop, OneLess
      <3>5. CASE Move(t)
        BY <3>5 DEF Move, Push, OneMore, InHand
      <3>6. CASE ExpandSize(t)
        BY <3>6 DEF ExpandSize
      <3>7. \/ DeqExpand(t) \/ ExpandSwap(t) \/ ExpandClose(t) \/ Pop(t) \/ Move(t) \/ ExpandSize(t)
        BY <1>22, Zenon DEF Growth
      <3> QED
        BY <3>1, <3>2, <3>3, <3>4, <3>5, <3>6, <3>7
    <2>3. /\ dequeue_size' \in Nat \ {0} /\ table_size' \in {dequeue_size', 2 * dequeue_size'}
          /\ dequeue_size <= dequeue_size'
      <3>1. CASE ExpandSwap(t)
        <4>1. pc[t] = "expand" /\ dequeue_size' = dequeue_size
          BY <3>1 DEF ExpandSwap
        <4>2. old_size(t) \in Nat /\ old_size(t) <= dequeue_size
          BY DEF old_size, Cursors
        <4>3. CASE table_size = old_size(t)
          BY <3>1, <4>1, <4>2, <4>3 DEF ExpandSwap
        <4>4. CASE table_size # old_size(t)
          BY <3>1, <4>1, <4>4 DEF ExpandSwap
        <4> QED
          BY <4>3, <4>4
      <3>2. CASE ExpandSize(t)
        <4>1. /\ pc[t] = "empty" /\ table_size' = table_size
              /\ dequeue_size' = IF dequeue_size = old_size(t) THEN 2 * dequeue_size ELSE dequeue_size
          BY <3>2 DEF ExpandSize
        <4>2. table_size >= 2 * old_size(t)
          BY <4>1 DEF TableInv
        <4> QED
          BY <4>1, <4>2
      <3>3. CASE ~ExpandSwap(t) /\ ~ExpandSize(t)
        <4>1. UNCHANGED <<dequeue_size, table_size>>
          BY <1>22, <3>3 DEF Growth, DeqExpand, ExpandClose, Pop, Move
        <4> QED
          BY <4>1
      <3> QED
        BY <3>1, <3>2, <3>3
    <2>4. current'.index < dequeue_size' /\ \A u \in Threads : oldCur'[u].index < dequeue_size'
      BY <2>1, <2>3 DEF Cursors
    <2> QED
      BY <2>1, <2>2, <2>3, <2>4
  <1>23. ASSUME NEW t \in Threads, InsertFuture(t) PROVE TypeQueue'
    <2>1. /\ pc[t] = "insert" /\ Push(timestamp[t]) /\ EndEnqueue(t)
          /\ UNCHANGED <<current, marks, dequeue_size, table_size, live, pending, closed, oldCur>>
      BY <1>23, InsertFutureIs
    <2>2. timestamp[t] \in Timestamps
      BY <2>1 DEF InHand
    <2>3. future' \in [Timestamps -> Nat] /\ todo' \in [Timestamps -> Nat]
      BY <2>1, <2>2 DEF Push, OneMore
    <2>4. pending' \subseteq {u \in Threads : pc'[u] = "flush"}
      BY <2>1, EndEnqueueIs, AfterOperationIs
    <2> QED
      BY <2>1, <2>3, <2>4
  <1>24. ASSUME NEW t \in Threads, EndHelp(t) PROVE TypeQueue'
    BY <1>24, AfterOperationIs DEF EndHelp
  <1>25. ASSUME PrintCheck PROVE TypeQueue'
    BY <1>25 DEF PrintCheck
  <1>26. CASE UNCHANGED vars
    BY <1>26
  <1> QED
    BY <1>1, <1>2, <1>3, <1>4, <1>5, <1>6, <1>7, <1>8, <1>9, <1>10, <1>11, <1>12,
       <1>13, <1>14, <1>15, <1>16, <1>17, <1>18, <1>19, <1>20, <1>21, <1>22, <1>23, <1>24,
       <1>25, <1>26 DEF Next, Step, Growth, Exited

\* The driver's shared variables keep their types.
LEMMA TypeCellsStep == TypeInv /\ [Next]_vars => TypeCells'
  <1> SUFFICES ASSUME TypeInv, [Next]_vars PROVE TypeCells'
    OBVIOUS
  <1> USE DEF TypeInv, TypeCells, TypeOwn, TypePc, vars, queue, cursor, sizes, lists, cells, loop, own, Goto, Set
  <1>t. Reached \subseteq Times /\ INFTY \in Times /\ 0 \in Reached /\ Timestamps \subseteq Reached
    BY DEF Reached, Times
  <1>1. ASSUME NEW t \in Threads, Start(t) PROVE TypeCells'
    BY <1>1, <1>t DEF Start
  <1>2. ASSUME NEW t \in Threads, CallEnqueue(t) PROVE TypeCells'
    BY <1>2, <1>t DEF CallEnqueue
  <1>3. ASSUME NEW t \in Threads, Insert(t) PROVE TypeCells'
    BY <1>3, <1>t DEF Insert
  <1>4. ASSUME NEW t \in Threads, Flush(t) PROVE TypeCells'
    BY <1>4, <1>t DEF Flush
  <1>5. ASSUME NEW t \in Threads, DeqRead(t) PROVE TypeCells'
    BY <1>5, <1>t DEF DeqRead, LogCondition
  <1>6. ASSUME NEW t \in Threads, DeqScan(t) PROVE TypeCells'
    BY <1>6, <1>t DEF DeqScan
  <1>7. ASSUME NEW t \in Threads, DeqTake(t) PROVE TypeCells'
    BY <1>7, <1>t DEF DeqTake
  <1>8. ASSUME NEW t \in Threads, DeqAdvance(t) PROVE TypeCells'
    BY <1>8, <1>t DEF DeqAdvance, DrawMark
  <1>9. ASSUME NEW t \in Threads, DeqEmpty(t) PROVE TypeCells'
    BY <1>9, <1>t DEF DeqEmpty, AfterOperation
  <1>10. ASSUME NEW t \in Threads, Publish(t) PROVE TypeCells'
    BY <1>10, <1>t DEF Publish, AfterOperation
  <1>11. ASSUME NEW t \in Threads, PublishDraining(t) PROVE TypeCells'
    BY <1>11, <1>t DEF PublishDraining
  <1>12. ASSUME NEW t \in Threads, CheckGVT(t) PROVE TypeCells'
    BY <1>12, <1>t DEF CheckGVT
  <1>13. ASSUME NEW t \in Threads, WaitForCell(t) PROVE TypeCells'
    BY <1>13, <1>t DEF WaitForCell
  <1>14. ASSUME NEW t \in Threads, Spin(t) PROVE TypeCells'
    BY <1>14, <1>t DEF Spin
  <1>15. ASSUME NEW t \in Threads, WriteGVT(t) PROVE TypeCells'
    BY <1>15, <1>t DEF WriteGVT, AfterOperation
  <1>16. ASSUME NEW t \in Threads, ReadMin(t) PROVE TypeCells'
    BY <1>16, <1>t DEF ReadMin
  <1>17. ASSUME NEW t \in Threads, CallPrune(t) PROVE TypeCells'
    BY <1>17, <1>t DEF CallPrune
  <1>18. ASSUME NEW t \in Threads, PruneBucket(t) PROVE TypeCells'
    BY <1>18, <1>t DEF PruneBucket
  <1>19. ASSUME NEW t \in Threads, Count(t) PROVE TypeCells'
    BY <1>19, <1>t DEF Count, LogCondition
  <1>20. ASSUME NEW t \in Threads, SumOps(t) PROVE TypeCells'
    BY <1>20, <1>t DEF SumOps
  <1>21. ASSUME NEW t \in Threads, Finish(t) PROVE TypeCells'
    BY <1>21, <1>t DEF Finish
  <1>22. ASSUME NEW t \in Threads, Growth(t) PROVE TypeCells'
    BY <1>22, GrowthIs
  <1>23. ASSUME NEW t \in Threads, InsertFuture(t) PROVE TypeCells'
    BY <1>23, InsertFutureIs
  <1>24. ASSUME NEW t \in Threads, EndHelp(t) PROVE TypeCells'
    BY <1>24 DEF EndHelp
  <1>25. ASSUME PrintCheck PROVE TypeCells'
    BY <1>25, <1>t DEF PrintCheck
  <1>26. CASE UNCHANGED vars
    BY <1>26
  <1> QED
    BY <1>1, <1>2, <1>3, <1>4, <1>5, <1>6, <1>7, <1>8, <1>9, <1>10, <1>11, <1>12,
       <1>13, <1>14, <1>15, <1>16, <1>17, <1>18, <1>19, <1>20, <1>21, <1>22, <1>23, <1>24,
       <1>25, <1>26 DEF Next, Step, Growth, Exited

\* A thread's own variables keep their types.
LEMMA TypeOwnStep == TypeInv /\ [Next]_vars => TypeOwn'
  <1> SUFFICES ASSUME TypeInv, [Next]_vars PROVE TypeOwn'
    OBVIOUS
  <1> USE DEF TypeInv, TypeOwn, TypePc, vars, queue, cursor, sizes, lists, cells, loop, own, Goto, Set
  <1> USE DEF InHand
  <1>t. 0 \in Reached /\ Timestamps \subseteq Reached
    BY DEF Reached
  <1>1. ASSUME NEW t \in Threads, Start(t) PROVE TypeOwn'
    BY <1>1, <1>t DEF Start
  <1>2. ASSUME NEW t \in Threads, CallEnqueue(t) PROVE TypeOwn'
    BY <1>2, <1>t DEF CallEnqueue
  <1>3. ASSUME NEW t \in Threads, Insert(t) PROVE TypeOwn'
    BY <1>3, <1>t DEF Insert
  <1>4. ASSUME NEW t \in Threads, Flush(t) PROVE TypeOwn'
    <2>1. EndEnqueue(t) /\ draining' = draining
      BY <1>4 DEF Flush
    <2>2. pc'[t] \in {"help", "min", "count"} /\ \A u \in Threads \ {t} : pc'[u] = pc[u]
      BY <2>1, EndEnqueueIs, AfterOperationIs
    <2> QED
      BY <2>1, <2>2, <1>t, EndEnqueueIs DEF InHand
  <1>5. ASSUME NEW t \in Threads, DeqRead(t) PROVE TypeOwn'
    BY <1>5, <1>t DEF DeqRead, LogCondition
  <1>6. ASSUME NEW t \in Threads, DeqScan(t) PROVE TypeOwn'
    <2>1. CASE BucketEvents(oldCur[t].index) = {}
      BY <1>6, <2>1, <1>t DEF DeqScan
    <2>2. CASE BucketEvents(oldCur[t].index) # {}
      <3>1. BucketEvents(oldCur[t].index) \subseteq Timestamps
        BY DEF BucketEvents, Linked, TypeQueue
      <3>2. BucketEvents(oldCur[t].index) \in SUBSET Nat
        BY <3>1, DriverAssumption
      <3>3. Min(BucketEvents(oldCur[t].index)) \in Timestamps
        BY <2>2, <3>1, <3>2, MinIs
      <3> QED
        BY <1>6, <2>2, <3>3, <1>t DEF DeqScan
    <2> QED
      BY <2>1, <2>2
  <1>7. ASSUME NEW t \in Threads, DeqTake(t) PROVE TypeOwn'
    BY <1>7, <1>t DEF DeqTake
  <1>8. ASSUME NEW t \in Threads, DeqAdvance(t) PROVE TypeOwn'
    BY <1>8, <1>t DEF DeqAdvance, DrawMark
  <1>9. ASSUME NEW t \in Threads, DeqEmpty(t) PROVE TypeOwn'
    BY <1>9, <1>t DEF DeqEmpty, AfterOperation
  <1>10. ASSUME NEW t \in Threads, Publish(t) PROVE TypeOwn'
    BY <1>10, <1>t DEF Publish, AfterOperation
  <1>11. ASSUME NEW t \in Threads, PublishDraining(t) PROVE TypeOwn'
    BY <1>11, <1>t DEF PublishDraining
  <1>12. ASSUME NEW t \in Threads, CheckGVT(t) PROVE TypeOwn'
    BY <1>12, <1>t DEF CheckGVT
  <1>13. ASSUME NEW t \in Threads, WaitForCell(t) PROVE TypeOwn'
    BY <1>13, <1>t DEF WaitForCell
  <1>14. ASSUME NEW t \in Threads, Spin(t) PROVE TypeOwn'
    BY <1>14, <1>t DEF Spin
  <1>15. ASSUME NEW t \in Threads, WriteGVT(t) PROVE TypeOwn'
    BY <1>15, <1>t DEF WriteGVT, AfterOperation
  <1>16. ASSUME NEW t \in Threads, ReadMin(t) PROVE TypeOwn'
    BY <1>16, <1>t DEF ReadMin
  <1>17. ASSUME NEW t \in Threads, CallPrune(t) PROVE TypeOwn'
    BY <1>17, <1>t DEF CallPrune
  <1>18. ASSUME NEW t \in Threads, PruneBucket(t) PROVE TypeOwn'
    BY <1>18, <1>t DEF PruneBucket
  <1>19. ASSUME NEW t \in Threads, Count(t) PROVE TypeOwn'
    BY <1>19, <1>t DEF Count, LogCondition
  <1>20. ASSUME NEW t \in Threads, SumOps(t) PROVE TypeOwn'
    BY <1>20, <1>t DEF SumOps
  <1>21. ASSUME NEW t \in Threads, Finish(t) PROVE TypeOwn'
    BY <1>21, <1>t DEF Finish
  <1>22. ASSUME NEW t \in Threads, Growth(t) PROVE TypeOwn'
    <2>1. /\ UNCHANGED <<local_min, balance>>
          /\ timestamp' \in [Threads -> Reached]
          /\ \A u \in Threads \ {t} : pc'[u] = pc[u] /\ timestamp'[u] = timestamp[u]
      BY <1>22, GrowthIs
    <2>2. pc'[t] \in InHand => timestamp'[t] \in Timestamps
      BY <1>22 DEF Growth, DeqExpand, ExpandSwap, ExpandClose, Pop, Move, ExpandSize, InHand
    <2> QED
      BY <2>1, <2>2
  <1>23. ASSUME NEW t \in Threads, InsertFuture(t) PROVE TypeOwn'
    <2>1. EndEnqueue(t) /\ draining' = draining
      BY <1>23, InsertFutureIs
    <2>2. pc'[t] \in {"help", "min", "count"} /\ \A u \in Threads \ {t} : pc'[u] = pc[u]
      BY <2>1, EndEnqueueIs, AfterOperationIs
    <2> QED
      BY <2>1, <2>2, <1>t, EndEnqueueIs DEF InHand
  <1>24. ASSUME NEW t \in Threads, EndHelp(t) PROVE TypeOwn'
    BY <1>24, AfterOperationIs DEF EndHelp, InHand
  <1>25. ASSUME PrintCheck PROVE TypeOwn'
    BY <1>25, <1>t DEF PrintCheck
  <1>26. CASE UNCHANGED vars
    BY <1>26
  <1> QED
    BY <1>1, <1>2, <1>3, <1>4, <1>5, <1>6, <1>7, <1>8, <1>9, <1>10, <1>11, <1>12,
       <1>13, <1>14, <1>15, <1>16, <1>17, <1>18, <1>19, <1>20, <1>21, <1>22, <1>23, <1>24,
       <1>25, <1>26 DEF Next, Step, Growth, Exited

\* The same at the end of an operation.
LEMMA LoopAfterOperation ==
  ASSUME TypeInv, NEW t \in Threads, AfterOperation(t), others[t] = {}, j' = j, j[t] = 0,
         array' \in [Threads -> Nat]
  PROVE  TypeLoop'
  <1>1. Others(t) # {} /\ Others(t) \subseteq Threads /\ t \notin Others(t)
    BY OthersThere
  <1>2. CASE /\ pc' = [pc EXCEPT ![t] = "min"]
             /\ others' = [others EXCEPT ![t] = Others(t)]
             /\ acc' = [acc EXCEPT ![t] = array'[t]]
    <2>1. others' \in [Threads -> SUBSET Threads] /\ \A u \in Threads : u \notin others'[u]
      BY <1>1, <1>2 DEF TypeInv, TypeLoop
    <2>2. acc' \in [Threads -> Nat] /\ \A u \in Threads : j'[u] <= acc'[u]
      BY <1>2 DEF TypeInv, TypeLoop
    <2>3. \A u \in Threads : others'[u] # {} => pc'[u] \in {"wait", "min", "sum"}
      BY <1>2 DEF TypeInv, TypeLoop, TypePc
    <2>4. \A u \in Threads : pc'[u] = "sum" => others'[u] # {}
      BY <1>2 DEF TypeInv, TypeLoop, TypePc
    <2>5. \A u \in Threads : j'[u] > 0 => pc'[u] = "prune"
      BY <1>2 DEF TypeInv, TypeLoop, TypePc
    <2> QED
      BY <2>1, <2>2, <2>3, <2>4, <2>5 DEF TypeInv, TypeLoop
  <1>3. CASE pc' = [pc EXCEPT ![t] = "count"] /\ others' = others /\ acc' = acc
    BY <1>3 DEF TypeInv, TypeLoop, TypePc
  <1> QED
    BY <1>2, <1>3, AfterOperationIs

\* The variables of the loops over the threads keep their types.
LEMMA TypeLoopStep == TypeInv /\ [Next]_vars => TypeLoop'
  <1> SUFFICES ASSUME TypeInv, [Next]_vars PROVE TypeLoop'
    OBVIOUS
  <1>o. \A t \in Threads : Others(t) # {} /\ Others(t) \subseteq Threads /\ t \notin Others(t)
    BY OthersThere
  <1>n. array' \in [Threads -> Nat] /\ array \in [Threads -> Nat]
    BY TypeCellsStep, TimesNat DEF TypeCells, TypeInv
  <1>m. \A t \in Threads : others[t] # {} => Min(others[t]) \in others[t] /\ Min(others[t]) \in Threads
    BY MinThread DEF TypeInv, TypeLoop
  <1> USE DEF TypeInv, TypeLoop, TypeCells, TypePc, vars, queue, cursor, sizes, lists, cells, loop, own, Goto, Set
  <1>1. ASSUME NEW t \in Threads, Start(t) PROVE TypeLoop'
    BY <1>1 DEF Start
  <1>2. ASSUME NEW t \in Threads, CallEnqueue(t) PROVE TypeLoop'
    BY <1>2 DEF CallEnqueue
  <1>3. ASSUME NEW t \in Threads, Insert(t) PROVE TypeLoop'
    BY <1>3 DEF Insert
  <1>4. ASSUME NEW t \in Threads, Flush(t) PROVE TypeLoop'
    <2>1. EndEnqueue(t) /\ others[t] = {} /\ j' = j /\ j[t] = 0
      BY <1>4 DEF Flush
    <2>2. CASE AfterOperation(t)
      BY <2>1, <2>2, <1>n, LoopAfterOperation
    <2>3. CASE ~AfterOperation(t)
      BY <2>1, <2>3, EndEnqueueIs
    <2> QED
      BY <2>2, <2>3
  <1>5. ASSUME NEW t \in Threads, DeqRead(t) PROVE TypeLoop'
    BY <1>5 DEF DeqRead, LogCondition
  <1>6. ASSUME NEW t \in Threads, DeqScan(t) PROVE TypeLoop'
    BY <1>6 DEF DeqScan
  <1>7. ASSUME NEW t \in Threads, DeqTake(t) PROVE TypeLoop'
    BY <1>7 DEF DeqTake
  <1>8. ASSUME NEW t \in Threads, DeqAdvance(t) PROVE TypeLoop'
    BY <1>8 DEF DeqAdvance, DrawMark
  <1>9. ASSUME NEW t \in Threads, DeqEmpty(t) PROVE TypeLoop'
    <2>1. CASE AfterOperation(t)
      <3>1. others[t] = {} /\ j' = j /\ j[t] = 0
        BY <1>9 DEF DeqEmpty
      <3> QED
        BY <2>1, <3>1, <1>n, LoopAfterOperation
    <2>2. CASE ~AfterOperation(t)
      BY <1>9, <2>2 DEF DeqEmpty
    <2> QED
      BY <2>1, <2>2
  <1>10. ASSUME NEW t \in Threads, Publish(t) PROVE TypeLoop'
    <2>1. CASE AfterOperation(t)
      <3>1. others[t] = {} /\ j' = j /\ j[t] = 0
        BY <1>10 DEF Publish
      <3> QED
        BY <2>1, <3>1, <1>n, LoopAfterOperation
    <2>2. CASE ~AfterOperation(t)
      BY <1>10, <2>2 DEF Publish
    <2> QED
      BY <2>1, <2>2
  <1>11. ASSUME NEW t \in Threads, PublishDraining(t) PROVE TypeLoop'
    BY <1>11 DEF PublishDraining
  <1>12. ASSUME NEW t \in Threads, CheckGVT(t) PROVE TypeLoop'
    BY <1>12, <1>o DEF CheckGVT
  <1>13. ASSUME NEW t \in Threads, WaitForCell(t) PROVE TypeLoop'
    BY <1>13 DEF WaitForCell
  <1>14. ASSUME NEW t \in Threads, Spin(t) PROVE TypeLoop'
    BY <1>14 DEF Spin
  <1>15. ASSUME NEW t \in Threads, WriteGVT(t) PROVE TypeLoop'
    <2>1. AfterOperation(t) /\ others[t] = {} /\ j' = j /\ j[t] = 0
      BY <1>15 DEF WriteGVT
    <2> QED
      BY <2>1, <1>n, LoopAfterOperation
  <1>16. ASSUME NEW t \in Threads, ReadMin(t) PROVE TypeLoop'
    <2> DEFINE u == Min(others[t])
    <2>1. u \in Threads /\ u \in others[t]
      BY <1>16, <1>m DEF ReadMin
    <2>2. Min({acc[t], array[u]}) \in Nat
      BY <2>1, <1>n, MinOfTwo
    <2>3. /\ pc[t] = "min" /\ pc' = pc /\ j' = j
          /\ acc' = [acc EXCEPT ![t] = Min({acc[t], array[u]})]
          /\ others' = [others EXCEPT ![t] = others[t] \ {u}]
      BY <1>16 DEF ReadMin
    <2>4. j[t] = 0
      BY <2>3
    <2> DEFINE m == Min({acc[t], array[u]})
    <2>5. others' = [others EXCEPT ![t] = others[t] \ {u}] /\ acc' = [acc EXCEPT ![t] = m] /\ m \in Nat
      BY <2>2, <2>3
    <2> HIDE DEF u, m
    <2>6. /\ others' \in [Threads -> SUBSET Threads] /\ others'[t] \subseteq others[t]
          /\ \A v \in Threads \ {t} : others'[v] = others[v]
      BY <2>5
    <2>7. acc' \in [Threads -> Nat] /\ \A v \in Threads \ {t} : acc'[v] = acc[v]
      BY <2>5
    <2>8. ASSUME NEW v \in Threads
          PROVE  /\ v \notin others'[v] /\ (others'[v] # {} => pc'[v] \in {"wait", "min", "sum"})
                 /\ pc'[v] = "sum" => others'[v] # {}
                 /\ j'[v] <= acc'[v] /\ (j'[v] > 0 => pc'[v] = "prune")
      <3>1. CASE v = t
        BY <2>3, <2>4, <2>6, <2>7, <3>1
      <3>2. CASE v # t
        BY <2>3, <2>6, <2>7, <3>2
      <3> QED
        BY <3>1, <3>2
    <2> QED
      BY <2>3, <2>6, <2>7, <2>8
  <1>17. ASSUME NEW t \in Threads, CallPrune(t) PROVE TypeLoop'
    <2>1. EndIndex(acc[t]) \in Nat
      BY EndIndexNat
    <2>2. j[t] = 0
      BY <1>17 DEF CallPrune
    <2> QED
      BY <1>17, <2>1, <2>2 DEF CallPrune
  <1>18. ASSUME NEW t \in Threads, PruneBucket(t) PROVE TypeLoop'
    <2>1. /\ pc[t] = "prune" /\ j[t] < acc[t] /\ j' = [j EXCEPT ![t] = j[t] + 1]
          /\ pc' = pc /\ others' = others /\ acc' = acc
      BY <1>18 DEF PruneBucket
    <2> QED
      BY <2>1
  <1>19. ASSUME NEW t \in Threads, Count(t) PROVE TypeLoop'
    <2>1. /\ others' = [others EXCEPT ![t] = Others(t)]
          /\ j' = [j EXCEPT ![t] = 0] /\ pc' = [pc EXCEPT ![t] = "sum"]
          /\ ops_count' = [ops_count EXCEPT ![t] = ops_count[t] + 1]
          /\ acc' = [acc EXCEPT ![t] = ops_count'[t]]
      BY <1>19 DEF Count
    <2>2. ops_count'[t] \in Nat
      BY <2>1
    <2> QED
      BY <2>1, <2>2, <1>o
  <1>20. ASSUME NEW t \in Threads, SumOps(t) PROVE TypeLoop'
    <2> DEFINE u == Min(others[t])
    <2>1. u \in Threads /\ u \in others[t]
      BY <1>20, <1>m DEF SumOps
    <2>2. /\ pc[t] = "sum" /\ j' = j
          /\ acc' = [acc EXCEPT ![t] = acc[t] + ops_count[u]]
          /\ others' = [others EXCEPT ![t] = others[t] \ {u}]
          /\ others'[t] = others[t] \ {u}
          /\ pc' = [pc EXCEPT ![t] = IF others'[t] = {} THEN "loop" ELSE "sum"]
      BY <1>20 DEF SumOps
    <2>3. j[t] = 0 /\ acc[t] + ops_count[u] \in Nat
      BY <2>1, <2>2
    <2> HIDE DEF u
    <2>4. CASE others'[t] = {}
      BY <2>1, <2>2, <2>3, <2>4
    <2>5. CASE others'[t] # {}
      BY <2>1, <2>2, <2>3, <2>5
    <2> QED
      BY <2>4, <2>5
  <1>21. ASSUME NEW t \in Threads, Finish(t) PROVE TypeLoop'
    BY <1>21 DEF Finish
  <1>22. ASSUME NEW t \in Threads, Growth(t) PROVE TypeLoop'
    <2>1. UNCHANGED <<others, acc, j>> /\ \A u \in Threads \ {t} : pc'[u] = pc[u]
      BY <1>22, GrowthIs
    <2>2. pc[t] \notin {"wait", "min", "sum", "prune"} /\ pc'[t] \notin {"wait", "min", "sum", "prune"}
      BY <1>22, GrowthIs
    <2> QED
      BY <2>1, <2>2
  <1>23. ASSUME NEW t \in Threads, InsertFuture(t) PROVE TypeLoop'
    <2>1. EndEnqueue(t) /\ others[t] = {} /\ j' = j /\ j[t] = 0
      BY <1>23, InsertFutureIs
    <2>2. CASE AfterOperation(t)
      BY <2>1, <2>2, <1>n, LoopAfterOperation
    <2>3. CASE ~AfterOperation(t)
      BY <2>1, <2>3, EndEnqueueIs
    <2> QED
      BY <2>2, <2>3
  <1>24. ASSUME NEW t \in Threads, EndHelp(t) PROVE TypeLoop'
    <2>1. AfterOperation(t) /\ others[t] = {} /\ j' = j /\ j[t] = 0
      BY <1>24 DEF EndHelp
    <2> QED
      BY <2>1, <1>n, LoopAfterOperation
  <1>25. ASSUME PrintCheck PROVE TypeLoop'
    BY <1>25 DEF PrintCheck
  <1>26. CASE UNCHANGED vars
    BY <1>26
  <1> QED
    BY <1>1, <1>2, <1>3, <1>4, <1>5, <1>6, <1>7, <1>8, <1>9, <1>10, <1>11, <1>12,
       <1>13, <1>14, <1>15, <1>16, <1>17, <1>18, <1>19, <1>20, <1>21, <1>22, <1>23, <1>24,
       <1>25, <1>26 DEF Next, Step, Growth, Exited

\* The types hold in every state.
LEMMA TypesHold == Spec => []TypeInv
  <1>1. Init => TypeInv
    <2> SUFFICES ASSUME Init PROVE TypeInv
      OBVIOUS
    <2>1. 0 \in Reached /\ 0 \in Times
      BY DEF Reached, Times
    <2>2. InitSize \in Nat \ {0} /\ MarkRange \in Nat \ {0}
      BY DriverAssumption
    <2>3. TypeQueue
      BY <2>2 DEF Init, TypeQueue, Cursors, NoCursor, InitMark, NoEvents
    <2>9. TableInv
      BY DEF Init, TableInv
    <2>4. TypeCells
      BY <2>1 DEF Init, TypeCells
    <2>5. TypePc
      BY DEF Init, TypePc, Locations
    <2>6. TypeLoop
      BY DEF Init, TypeLoop
    <2>7. TypeOwn
      BY <2>1 DEF Init, TypeOwn, InHand
    <2> QED
      BY <2>3, <2>4, <2>5, <2>6, <2>7, <2>9 DEF TypeInv
  <1>2. TypeInv /\ [Next]_vars => TypeInv'
    BY TypeQueueStep, TableStep, TypeCellsStep, TypePcStep, TypeLoopStep, TypeOwnStep DEF TypeInv
  <1> QED
    BY <1>1, <1>2, PTL DEF Spec

\* Every variable of the driver has its type, whatever the threads, the
\* timestamps and the bounds: DriverTypeOK.
THEOREM DriverTypeCorrect == Spec => []DriverTypeOK
  <1>1. TypeInv => DriverTypeOK
    <2> SUFFICES ASSUME TypeInv PROVE DriverTypeOK
      OBVIOUS
    <2>1. /\ current \in [index : 0 .. (dequeue_size - 1), mark : 0 .. (MarkRange - 1)]
          /\ marks \in [Threads -> Nat]
          /\ table_size \in {dequeue_size, 2 * dequeue_size}
          /\ {live, future, todo} \subseteq [Timestamps -> Nat]
          /\ pending \subseteq {t \in Threads : pc[t] = "flush"}
          /\ \A t \in Threads : oldCur[t].index < dequeue_size
      BY DEF TypeInv, TypeQueue, Cursors
    <2>6. closed \in BOOLEAN /\ (~closed => \E t \in Threads : pc[t] = "close")
      BY DEF TypeInv, TypeQueue, TableInv
    <2>2. /\ array \in [Threads -> Reached \cup {INFTY}] /\ GVT \in Reached
          /\ ops_count \in [Threads -> Nat]
      BY DEF TypeInv, TypeCells, Times
    <2>3. pc \in [Threads -> Locations]
      BY DEF TypeInv, TypePc
    <2>4. \A t \in Threads :
            /\ pc[t] \in {"insert", "flush", "help_move", "move", "take", "publish", "check", "wait"} =>
                 timestamp[t] \in Timestamps
            /\ local_min[t] \in Reached
      BY DEF TypeInv, TypeOwn, InHand
    <2>5. \A t \in Threads :
            /\ others[t] \subseteq Others(t)
            /\ others[t] # {} => pc[t] \in {"wait", "min", "sum"}
            /\ j[t] <= acc[t] /\ (j[t] > 0 => pc[t] = "prune")
      BY DEF TypeInv, TypeLoop, Others
    <2> QED
      BY <2>1, <2>2, <2>3, <2>4, <2>5, <2>6 DEF DriverTypeOK
  <1> QED
    BY <1>1, TypesHold, PTL

\* A waiting thread has published the timestamp in its hand, and a thread that
\* has ended has published INFTY.
WaitInv ==
  \A t \in Threads :
    /\ pc[t] \in {"check", "wait"} => array[t] = timestamp[t]
    /\ pc[t] = "done" => array[t] = INFTY

\* Every step keeps what the waits rest on.
LEMMA WaitInvStep == TypeInv /\ WaitInv /\ [Next]_vars => WaitInv'
  <1> SUFFICES ASSUME TypeInv, WaitInv, [Next]_vars PROVE WaitInv'
    OBVIOUS
  <1>y. /\ pc \in [Threads -> Locations] /\ array \in [Threads -> Times]
        /\ timestamp \in [Threads -> Reached]
    BY DEF TypeInv, TypePc, TypeCells, TypeOwn
  <1> USE DEF WaitInv, vars, queue, cursor, sizes, lists, cells, loop, own, Goto, Set
  <1>a. \A t \in Threads : AfterOperation(t) => pc' = [pc EXCEPT ![t] = "min"] \/ pc' = [pc EXCEPT ![t] = "count"]
    BY AfterOperationIs
  <1>1. ASSUME NEW t \in Threads, Start(t) PROVE WaitInv'
    BY <1>1, <1>y DEF Start
  <1>2. ASSUME NEW t \in Threads, CallEnqueue(t) PROVE WaitInv'
    BY <1>2, <1>y DEF CallEnqueue
  <1>3. ASSUME NEW t \in Threads, Insert(t) PROVE WaitInv'
    BY <1>3, <1>y DEF Insert
  <1>4. ASSUME NEW t \in Threads, Flush(t) PROVE WaitInv'
    <2>1. EndEnqueue(t) /\ array' = array
      BY <1>4 DEF Flush
    <2> QED
      BY <2>1, <1>y, <1>a, EndEnqueueIs
  <1>5. ASSUME NEW t \in Threads, DeqRead(t) PROVE WaitInv'
    BY <1>5, <1>y DEF DeqRead, LogCondition
  <1>6. ASSUME NEW t \in Threads, DeqScan(t) PROVE WaitInv'
    BY <1>6, <1>y DEF DeqScan
  <1>7. ASSUME NEW t \in Threads, DeqTake(t) PROVE WaitInv'
    BY <1>7, <1>y DEF DeqTake
  <1>8. ASSUME NEW t \in Threads, DeqAdvance(t) PROVE WaitInv'
    BY <1>8, <1>y DEF DeqAdvance, DrawMark
  <1>9. ASSUME NEW t \in Threads, DeqEmpty(t) PROVE WaitInv'
    <2>1. /\ array' = array /\ timestamp' = timestamp
          /\ AfterOperation(t) \/ pc' = [pc EXCEPT ![t] = "finish"]
      BY <1>9 DEF DeqEmpty
    <2> QED
      BY <2>1, <1>y, <1>a
  <1>10. ASSUME NEW t \in Threads, Publish(t) PROVE WaitInv'
    <2>1. /\ array' = [array EXCEPT ![t] = timestamp[t]] /\ pc[t] = "publish"
          /\ \/ timestamp' = timestamp /\ pc' = [pc EXCEPT ![t] = "check"]
             \/ timestamp' = [timestamp EXCEPT ![t] = 0] /\ AfterOperation(t)
      BY <1>10 DEF Publish
    <2> QED
      BY <2>1, <1>y, <1>a
  <1>11. ASSUME NEW t \in Threads, PublishDraining(t) PROVE WaitInv'
    BY <1>11, <1>y DEF PublishDraining
  <1>12. ASSUME NEW t \in Threads, CheckGVT(t) PROVE WaitInv'
    BY <1>12, <1>y DEF CheckGVT
  <1>13. ASSUME NEW t \in Threads, WaitForCell(t) PROVE WaitInv'
    BY <1>13, <1>y DEF WaitForCell
  <1>14. ASSUME NEW t \in Threads, Spin(t) PROVE WaitInv'
    BY <1>14, <1>y DEF Spin
  <1>15. ASSUME NEW t \in Threads, WriteGVT(t) PROVE WaitInv'
    <2>1. AfterOperation(t) /\ array' = array /\ timestamp' = [timestamp EXCEPT ![t] = 0]
      BY <1>15 DEF WriteGVT
    <2> QED
      BY <2>1, <1>y, <1>a
  <1>16. ASSUME NEW t \in Threads, ReadMin(t) PROVE WaitInv'
    BY <1>16, <1>y DEF ReadMin
  <1>17. ASSUME NEW t \in Threads, CallPrune(t) PROVE WaitInv'
    BY <1>17, <1>y DEF CallPrune
  <1>18. ASSUME NEW t \in Threads, PruneBucket(t) PROVE WaitInv'
    BY <1>18, <1>y DEF PruneBucket
  <1>19. ASSUME NEW t \in Threads, Count(t) PROVE WaitInv'
    BY <1>19, <1>y DEF Count, LogCondition
  <1>20. ASSUME NEW t \in Threads, SumOps(t) PROVE WaitInv'
    BY <1>20, <1>y DEF SumOps
  <1>21. ASSUME NEW t \in Threads, Finish(t) PROVE WaitInv'
    BY <1>21, <1>y DEF Finish
  <1>22. ASSUME NEW t \in Threads, Growth(t) PROVE WaitInv'
    <2>1. array' = array /\ \A u \in Threads \ {t} : pc'[u] = pc[u] /\ timestamp'[u] = timestamp[u]
      BY <1>22, GrowthIs, <1>y
    <2>2. pc'[t] \notin {"check", "wait", "done"}
      BY <1>22, GrowthIs, <1>y
    <2> QED
      BY <2>1, <2>2
  <1>23. ASSUME NEW t \in Threads, InsertFuture(t) PROVE WaitInv'
    <2>1. EndEnqueue(t) /\ array' = array
      BY <1>23, InsertFutureIs
    <2> QED
      BY <2>1, <1>y, <1>a, EndEnqueueIs
  <1>24. ASSUME NEW t \in Threads, EndHelp(t) PROVE WaitInv'
    BY <1>24, <1>y, <1>a DEF EndHelp
  <1>25. ASSUME PrintCheck PROVE WaitInv'
    BY <1>25, <1>y DEF PrintCheck
  <1>26. CASE UNCHANGED vars
    BY <1>26
  <1> QED
    BY <1>1, <1>2, <1>3, <1>4, <1>5, <1>6, <1>7, <1>8, <1>9, <1>10, <1>11, <1>12,
       <1>13, <1>14, <1>15, <1>16, <1>17, <1>18, <1>19, <1>20, <1>21, <1>22, <1>23, <1>24,
       <1>25, <1>26 DEF Next, Step, Growth, Exited

\* It holds in every state.
LEMMA WaitInvHolds == Spec => []WaitInv
  <1>1. Init => WaitInv
    BY DEF Init, WaitInv
  <1> QED
    BY <1>1, WaitInvStep, TypesHold, PTL DEF Spec

\* The waits never close a cycle, whatever the threads and the timestamps: of
\* the threads that have not ended, the one with the least cell, and the lowest
\* id at that cell, waits for nobody; and while the to-do list is open, the thread
\* that will close it does.  SomeoneMoves.
THEOREM NobodyStuck == Spec => []SomeoneMoves
  <1>1. TypeInv /\ WaitInv => SomeoneMoves
    <2> SUFFICES ASSUME TypeInv, WaitInv, \E t \in Threads : pc[t] # "done"
                 PROVE  \E t \in Threads :
                          /\ pc[t] # "done"
                          /\ pc[t] = "wait" /\ others[t] # {} => ~KeepsWaiting(t, Min(others[t]))
                          /\ pc[t] \in {"help", "empty"} => closed \/ todo = NoEvents
      BY DEF SomeoneMoves
    <2>0. CASE ~closed
      <3>1. \E t \in Threads : pc[t] = "close"
        BY <2>0 DEF TypeInv, TableInv
      <3> QED
        BY <3>1
    <2> DEFINE D == {t \in Threads : pc[t] # "done"}
    <2>1. \A t \in Threads : t \in Nat /\ array[t] \in Nat
      BY DriverAssumption, TimesNat DEF TypeInv, TypeCells
    <2>2. PICK m \in {array[t] : t \in D} : \A x \in {array[t] : t \in D} : m <= x
      <3>1. {array[t] : t \in D} \in SUBSET Nat /\ {array[t] : t \in D} # {}
        BY <2>1
      <3> QED
        BY <3>1, LeastNat
    <2>3. PICK k \in {t \in D : array[t] = m} : \A x \in {t \in D : array[t] = m} : k <= x
      <3>1. {t \in D : array[t] = m} \in SUBSET Nat /\ {t \in D : array[t] = m} # {}
        BY <2>1, <2>2
      <3> QED
        BY <3>1, LeastNat
    <2>4. ASSUME pc[k] = "wait", others[k] # {}, KeepsWaiting(k, Min(others[k])) PROVE FALSE
      <3> DEFINE u == Min(others[k])
      <3>1. others[k] \subseteq Threads /\ k \notin others[k]
        BY <2>3 DEF TypeInv, TypeLoop
      <3>2. u \in Threads /\ u # k
        BY <2>4, <3>1, MinThread
      <3>3. array[k] = timestamp[k] /\ timestamp[k] \in Timestamps
        BY <2>3, <2>4 DEF WaitInv, TypeInv, TypeOwn, InHand
      <3>4. array[u] < array[k] \/ (array[u] = array[k] /\ u < k)
        BY <2>4, <3>3 DEF KeepsWaiting
      <3>5. pc[u] # "done"
        <4>1. array[k] < INFTY /\ INFTY \in Nat
          BY <3>3, DriverAssumption
        <4> QED
          BY <2>1, <2>3, <3>2, <3>4, <4>1 DEF WaitInv
      <3>6. m <= array[u] /\ array[k] = m
        BY <2>2, <2>3, <3>2, <3>5
      <3>7. array[u] = m => k <= u
        BY <2>3, <3>2, <3>5
      <3> HIDE DEF u
      <3> QED
        BY <2>1, <2>3, <3>2, <3>4, <3>6, <3>7
    <2> QED
      BY <2>0, <2>3, <2>4
  <1> QED
    BY <1>1, TypesHold, WaitInvHolds, PTL

-----------------------------------------------------------------------------
\* The table's size.

\* The sizes are powers of two that a word can index, INIT_SIZE or more; what a
\* list holds is beyond the table, and a table is doubled for an event.
SizeInv ==
  /\ Size(dequeue_size) /\ Size(table_size) /\ InitSize <= dequeue_size
  /\ \A ts \in Timestamps : future[ts] > 0 => BucketOf(ts) >= table_size
  /\ \A t \in Threads : pc[t] = "expand" /\ table_size = old_size(t) => future # NoEvents

\* A doubling stays within a word, because some event's bucket is beyond the
\* table.
LEMMA DoubleSize ==
  ASSUME NEW n \in Nat \ {0}, Size(n), NEW ts \in Timestamps, BucketOf(ts) >= n
  PROVE  Size(2 * n)
  <1>1. PICK k \in 0 .. WordBits : n = 2^k
    BY DEF Size
  <1>2. BucketOf(ts) < 2^WordBits /\ BucketOf(ts) \in Nat
    BY HashNat, DriverAssumption DEF BucketOf
  <1>3. WordBits \in Nat /\ k \in Nat
    BY WordAssumption
  <1>4. 2^WordBits \in Nat /\ n < 2^WordBits
    BY <1>2, <1>3, PowerAbove
  <1>5. k # WordBits
    BY <1>1, <1>3, <1>4
  <1>6. k + 1 \in 0 .. WordBits
    BY <1>3, <1>5
  <1>7. 2^(k + 1) = 2 * n
    BY <1>1, <1>3, Doubled
  <1> QED
    BY <1>6, <1>7 DEF Size

\* Every step keeps the sizes.
LEMMA SizeInvStep == TypeInv /\ SizeInv /\ [Next]_vars => SizeInv'
  <1> SUFFICES ASSUME TypeInv, SizeInv, [Next]_vars PROVE SizeInv'
    OBVIOUS
  <1>y. /\ pc \in [Threads -> Locations] /\ future \in [Timestamps -> Nat]
        /\ dequeue_size \in Nat \ {0} /\ table_size \in {dequeue_size, 2 * dequeue_size}
        /\ InitSize \in Nat
        /\ \A v \in Threads : old_size(v) \in Nat /\ old_size(v) <= dequeue_size
    BY DriverAssumption DEF TypeInv, TypePc, TypeQueue, Cursors, old_size
  <1>f. future = NoEvents \/ \E ts \in Timestamps : future[ts] > 0
    <2> SUFFICES ASSUME \A ts \in Timestamps : future[ts] = 0 PROVE future = NoEvents
      BY <1>y
    <2> QED
      BY <1>y DEF NoEvents
  <1> USE DEF Goto, Set
  <1>k. ASSUME UNCHANGED <<dequeue_size, table_size, future, oldCur>>,
               \A v \in Threads : pc'[v] = "expand" => pc[v] = "expand"
        PROVE  SizeInv'
    BY <1>k DEF SizeInv, Size, old_size
  <1>1. ASSUME NEW t \in Threads, DeqExpand(t) PROVE SizeInv'
    <2>1. /\ UNCHANGED <<dequeue_size, table_size, future, oldCur>>
          /\ pc' = [pc EXCEPT ![t] = "expand"] /\ old_size(t) >= dequeue_size /\ ~NoFuture
      BY <1>1 DEF DeqExpand, old_size, queue, sizes, lists
    <2>2. table_size = old_size(t) => future # NoEvents
      BY <2>1, <1>y DEF NoFuture
    <2> QED
      BY <2>1, <2>2, <1>y DEF SizeInv, Size, old_size
  <1>2. ASSUME NEW t \in Threads, ExpandSwap(t) PROVE SizeInv'
    <2>1. /\ dequeue_size' = dequeue_size /\ oldCur' = oldCur
          /\ pc[t] = "expand" /\ pc' = [pc EXCEPT ![t] = "close"]
      BY <1>2 DEF ExpandSwap
    <2>2. CASE table_size = old_size(t)
      <3>1. table_size' = 2 * table_size /\ future' = NoEvents
        BY <1>2, <2>2, Zenon DEF ExpandSwap
      <3>2. table_size = dequeue_size /\ future # NoEvents
        BY <2>1, <2>2, <1>y DEF SizeInv
      <3>3. PICK ts \in Timestamps : future[ts] > 0
        BY <3>2, <1>f
      <3>4. Size(2 * table_size)
        BY <3>2, <3>3, <1>y, DoubleSize DEF SizeInv
      <3>5. \A v \in Threads : table_size' # old_size(v) /\ old_size(v)' = old_size(v)
        BY <2>1, <3>1, <3>2, <1>y DEF old_size
      <3>6. \A x \in Timestamps : ~(future'[x] > 0)
        BY <3>1 DEF NoEvents
      <3>7. Size(dequeue_size)' /\ Size(table_size)'
        BY <2>1, <3>1, <3>4 DEF SizeInv, Size
      <3>8. \A v \in Threads : table_size' # old_size(v)'
        BY <3>5
      <3> QED
        BY <2>1, <3>6, <3>7, <3>8 DEF SizeInv
    <2>3. CASE table_size # old_size(t)
      BY <1>2, <2>1, <2>3, <1>k, <1>y DEF ExpandSwap, lists
    <2> QED
      BY <2>2, <2>3
  <1>3. ASSUME NEW t \in Threads, ExpandClose(t) \/ Pop(t) PROVE SizeInv'
    BY <1>3, <1>k, <1>y DEF ExpandClose, Pop, sizes
  <1>p. ASSUME NEW t \in Threads, NEW ts \in Timestamps, Push(ts),
               UNCHANGED <<dequeue_size, table_size, oldCur>>,
               \A v \in Threads : pc'[v] = "expand" => pc[v] = "expand"
        PROVE  SizeInv'
    <2>1. CASE BucketOf(ts) >= table_size /\ future' = OneMore(future, ts)
      <3>1. future' = [future EXCEPT ![ts] = future[ts] + 1] /\ future[ts] \in Nat
        BY <2>1, <1>y DEF OneMore
      <3>2. \A x \in Timestamps : future'[x] > 0 => BucketOf(x) >= table_size
        BY <2>1, <3>1, <1>y DEF SizeInv
      <3>3. future'[ts] # 0
        BY <3>1, <1>y
      <3>4. future' # NoEvents
        BY <3>3 DEF NoEvents
      <3> QED
        BY <1>p, <3>2, <3>4 DEF SizeInv, Size, NoEvents
    <2>2. CASE future' = future
      BY <1>p, <2>2, <1>k
    <2> QED
      BY <1>p, <2>1, <2>2 DEF Push
  <1>4. ASSUME NEW t \in Threads, Move(t) PROVE SizeInv'
    <2>1. /\ UNCHANGED <<dequeue_size, table_size, oldCur>> /\ timestamp[t] \in Timestamps
          /\ \A v \in Threads : pc'[v] = "expand" => pc[v] = "expand"
          /\ future' = future \/ Push(timestamp[t])
      BY <1>4, <1>y DEF Move, sizes, TypeInv, TypeOwn, InHand
    <2> QED
      BY <2>1, <1>k, <1>p
  <1>5. ASSUME NEW t \in Threads, ExpandSize(t) PROVE SizeInv'
    <2>1. /\ pc[t] = "empty" /\ pc' = [pc EXCEPT ![t] = "advance"]
          /\ UNCHANGED <<table_size, future, oldCur>>
          /\ dequeue_size' = IF dequeue_size = old_size(t) THEN 2 * dequeue_size ELSE dequeue_size
      BY <1>5 DEF ExpandSize, lists
    <2>2. CASE dequeue_size = old_size(t)
      <3>1. table_size = 2 * dequeue_size
        BY <2>1, <2>2, <1>y DEF TypeInv, TableInv
      <3>2. dequeue_size' = table_size
        BY <2>1, <2>2, <3>1
      <3> QED
        BY <2>1, <3>1, <3>2, <1>y DEF SizeInv, Size, old_size
    <2>3. CASE dequeue_size # old_size(t)
      BY <2>1, <2>3, <1>k, <1>y
    <2> QED
      BY <2>2, <2>3
  <1>6. ASSUME NEW t \in Threads, InsertFuture(t) PROVE SizeInv'
    <2>1. /\ UNCHANGED <<dequeue_size, table_size, oldCur>>
          /\ pc[t] = "insert" /\ Push(timestamp[t]) /\ EndEnqueue(t)
      BY <1>6, InsertFutureIs
    <2>2. timestamp[t] \in Timestamps
      BY <2>1 DEF TypeInv, TypeOwn, InHand
    <2>3. \A v \in Threads : pc'[v] = "expand" => pc[v] = "expand"
      BY <2>1, <1>y, EndEnqueueIs, AfterOperationIs
    <2> QED
      BY <2>1, <2>2, <2>3, <1>p
  <1>7. ASSUME NEW t \in Threads, Step(t), ~Growth(t), ~InsertFuture(t) PROVE SizeInv'
    <2>1. UNCHANGED <<dequeue_size, table_size, future>> /\ pc'[t] # "expand"
      BY <1>7, TableKept
    <2>2. \A v \in Threads \ {t} : pc'[v] = pc[v] /\ oldCur'[v] = oldCur[v]
      BY <1>7, OneThread
    <2> QED
      BY <2>1, <2>2 DEF SizeInv, Size, old_size
  <1>8. CASE Frozen
    BY <1>8, <1>k DEF Frozen, queue, sizes, lists
  <1> QED
    BY <1>1, <1>2, <1>3, <1>4, <1>5, <1>6, <1>7, <1>8, NextCases DEF Growth

\* The sizes are such powers in every state, if INIT_SIZE is one.
LEMMA SizeInvHolds == InitSizeFits => (Spec => []SizeInv)
  <1> SUFFICES ASSUME InitSizeFits PROVE Spec => []SizeInv
    OBVIOUS
  <1>1. Init => SizeInv
    <2>1. PICK e \in 0 .. (WordBits - 1) : InitSize = 2^e
      BY DEF InitSizeFits
    <2>2. e \in 0 .. WordBits
      BY WordAssumption
    <2>3. Size(InitSize) /\ InitSize <= InitSize
      BY <2>1, <2>2, DriverAssumption DEF Size
    <2> QED
      BY <2>3 DEF Init, SizeInv, Size, NoEvents
  <1> QED
    BY <1>1, SizeInvStep, TypesHold, PTL DEF Spec

\* At every size the table reaches, each index has a bucket of its own in an
\* allocated segment, when INIT_SIZE is a power of two: BucketsApart.
THEOREM TableLaidOut == InitSizeFits => (Spec => []BucketsApart)
  <1> SUFFICES ASSUME InitSizeFits PROVE Spec => []BucketsApart
    OBVIOUS
  <1>1. TypeInv /\ SizeInv => BucketsApart
    <2> SUFFICES ASSUME TypeInv, SizeInv PROVE BucketsApart
      OBVIOUS
    <2>1. table_size \in Nat /\ Size(table_size) /\ InitSize <= table_size
      BY DriverAssumption DEF SizeInv, TypeInv, TypeQueue
    <2> QED
      BY <2>1, LayoutIsExact DEF BucketsApart
  <1> QED
    BY <1>1, TypesHold, SizeInvHolds, PTL

-----------------------------------------------------------------------------
\* Where the threads are.

\* The thread has published a timestamp that has not passed the check.
Waiting(t) == pc[t] \in {"check", "wait"}

\* The thread is in the main loop and waits for nobody.
Free(t) == ~draining[t] /\ ~Waiting(t)

\* The threads whose cells have let t go.
Passed(t) == IF pc[t] = "wait" THEN Others(t) \ others[t] ELSE {}

\* t's cell comes before u's: the lower timestamp, the lower id at the same one.
Behind(t, u) == array[t] < array[u] \/ (array[t] = array[u] /\ t < u)

\* Where a thread can be in the main loop, and where in the drain loop.
PhaseInv ==
  \A t \in Threads :
    /\ pc[t] \in {"start", "loop", "insert", "flush", "help", "help_move", "check", "wait", "min",
                  "prune", "count", "sum"} =>
         ~draining[t]
    /\ pc[t] \in {"finish", "done"} => draining[t]

\* Every step keeps the phases.
LEMMA PhaseInvStep == TypeInv /\ PhaseInv /\ [Next]_vars => PhaseInv'
  <1> SUFFICES ASSUME TypeInv, PhaseInv, [Next]_vars PROVE PhaseInv'
    OBVIOUS
  <1>y. pc \in [Threads -> Locations] /\ draining \in [Threads -> BOOLEAN]
    BY DEF TypeInv, TypePc
  <1> USE DEF PhaseInv, vars, queue, cursor, sizes, lists, cells, loop, own, Goto, Set
  <1>a. \A t \in Threads : AfterOperation(t) => pc' = [pc EXCEPT ![t] = "min"] \/ pc' = [pc EXCEPT ![t] = "count"]
    BY AfterOperationIs
  <1>1. ASSUME NEW t \in Threads, Start(t) PROVE PhaseInv'
    BY <1>1, <1>y DEF Start
  <1>2. ASSUME NEW t \in Threads, CallEnqueue(t) PROVE PhaseInv'
    BY <1>2, <1>y DEF CallEnqueue
  <1>3. ASSUME NEW t \in Threads, Insert(t) PROVE PhaseInv'
    BY <1>3, <1>y DEF Insert
  <1>4. ASSUME NEW t \in Threads, Flush(t) PROVE PhaseInv'
    <2>1. EndEnqueue(t) /\ draining' = draining /\ ~draining[t]
      BY <1>4 DEF Flush
    <2> QED
      BY <2>1, <1>y, <1>a, EndEnqueueIs
  <1>5. ASSUME NEW t \in Threads, DeqRead(t) PROVE PhaseInv'
    <2>1. /\ pc' = [pc EXCEPT ![t] = "scan"]
          /\ \A u \in Threads \ {t} : draining'[u] = draining[u]
      BY <1>5, <1>y DEF DeqRead
    <2> QED
      BY <2>1, <1>y
  <1>6. ASSUME NEW t \in Threads, DeqScan(t) PROVE PhaseInv'
    BY <1>6, <1>y DEF DeqScan
  <1>7. ASSUME NEW t \in Threads, DeqTake(t) PROVE PhaseInv'
    BY <1>7, <1>y DEF DeqTake
  <1>8. ASSUME NEW t \in Threads, DeqAdvance(t) PROVE PhaseInv'
    BY <1>8, <1>y DEF DeqAdvance, DrawMark
  <1>9. ASSUME NEW t \in Threads, DeqEmpty(t) PROVE PhaseInv'
    <2>1. /\ draining' = draining
          /\ \/ AfterOperation(t) /\ ~draining[t]
             \/ pc' = [pc EXCEPT ![t] = "finish"] /\ draining[t]
      BY <1>9 DEF DeqEmpty
    <2> QED
      BY <2>1, <1>y, <1>a
  <1>10. ASSUME NEW t \in Threads, Publish(t) PROVE PhaseInv'
    <2>1. /\ draining' = draining /\ ~draining[t]
          /\ pc' = [pc EXCEPT ![t] = "check"] \/ AfterOperation(t)
      BY <1>10 DEF Publish
    <2> QED
      BY <2>1, <1>y, <1>a
  <1>11. ASSUME NEW t \in Threads, PublishDraining(t) PROVE PhaseInv'
    BY <1>11, <1>y DEF PublishDraining
  <1>12. ASSUME NEW t \in Threads, CheckGVT(t) PROVE PhaseInv'
    BY <1>12, <1>y DEF CheckGVT
  <1>13. ASSUME NEW t \in Threads, WaitForCell(t) PROVE PhaseInv'
    BY <1>13, <1>y DEF WaitForCell
  <1>14. ASSUME NEW t \in Threads, Spin(t) PROVE PhaseInv'
    BY <1>14, <1>y DEF Spin
  <1>15. ASSUME NEW t \in Threads, WriteGVT(t) PROVE PhaseInv'
    <2>1. AfterOperation(t) /\ draining' = draining /\ ~draining[t]
      BY <1>15 DEF WriteGVT
    <2> QED
      BY <2>1, <1>y, <1>a
  <1>16. ASSUME NEW t \in Threads, ReadMin(t) PROVE PhaseInv'
    BY <1>16, <1>y DEF ReadMin
  <1>17. ASSUME NEW t \in Threads, CallPrune(t) PROVE PhaseInv'
    BY <1>17, <1>y DEF CallPrune
  <1>18. ASSUME NEW t \in Threads, PruneBucket(t) PROVE PhaseInv'
    BY <1>18, <1>y DEF PruneBucket
  <1>19. ASSUME NEW t \in Threads, Count(t) PROVE PhaseInv'
    BY <1>19, <1>y DEF Count, LogCondition
  <1>20. ASSUME NEW t \in Threads, SumOps(t) PROVE PhaseInv'
    BY <1>20, <1>y DEF SumOps
  <1>21. ASSUME NEW t \in Threads, Finish(t) PROVE PhaseInv'
    BY <1>21, <1>y DEF Finish
  <1>22. ASSUME NEW t \in Threads, Growth(t) PROVE PhaseInv'
    <2>1. draining' = draining /\ \A u \in Threads \ {t} : pc'[u] = pc[u]
      BY <1>22, GrowthIs, <1>y
    <2>2. /\ pc'[t] \notin {"start", "loop", "insert", "flush", "check", "wait", "min", "prune",
                            "count", "sum", "finish", "done"}
          /\ pc'[t] \in {"help", "help_move"} => ~draining[t]
      BY <1>22, GrowthIs, <1>y
    <2> QED
      BY <2>1, <2>2
  <1>23. ASSUME NEW t \in Threads, InsertFuture(t) PROVE PhaseInv'
    <2>1. EndEnqueue(t) /\ draining' = draining /\ ~draining[t]
      BY <1>23, InsertFutureIs
    <2> QED
      BY <2>1, <1>y, <1>a, EndEnqueueIs
  <1>24. ASSUME NEW t \in Threads, EndHelp(t) PROVE PhaseInv'
    <2>1. AfterOperation(t) /\ draining' = draining /\ ~draining[t]
      BY <1>24 DEF EndHelp
    <2> QED
      BY <2>1, <1>y, <1>a
  <1>25. ASSUME PrintCheck PROVE PhaseInv'
    BY <1>25, <1>y DEF PrintCheck
  <1>26. CASE UNCHANGED vars
    BY <1>26
  <1> QED
    BY <1>1, <1>2, <1>3, <1>4, <1>5, <1>6, <1>7, <1>8, <1>9, <1>10, <1>11, <1>12,
       <1>13, <1>14, <1>15, <1>16, <1>17, <1>18, <1>19, <1>20, <1>21, <1>22, <1>23, <1>24,
       <1>25, <1>26 DEF Next, Step, Growth, Exited

\* The steps that leave the cells alone and let nobody through.
Quiet ==
  /\ array' = array
  /\ \A v \in Threads :
       /\ draining[v] => draining'[v]
       /\ Free(v)' => Free(v)
       /\ Waiting(v)' => Waiting(v)
       /\ Passed(v)' = Passed(v)

\* The others: a published timestamp, a cell that lets a thread go, a thread
\* past its check.
Loud(t) == Publish(t) \/ PublishDraining(t) \/ WaitForCell(t) \/ WriteGVT(t) \/ Finish(t)

\* A thread that has not begun has the cell it will store.
StartInv == \A t \in Threads : pc[t] = "start" => array[t] = 0

\* The actions that are not loud are quiet.
LEMMA QuietSteps ==
  ASSUME TypeInv, PhaseInv, StartInv, NEW t \in Threads, Step(t), ~Loud(t)
  PROVE  Quiet
  <1>y. /\ pc \in [Threads -> Locations] /\ draining \in [Threads -> BOOLEAN]
        /\ array \in [Threads -> Times] /\ others \in [Threads -> SUBSET Threads]
    BY DEF TypeInv, TypePc, TypeCells, TypeLoop
  <1>p. \A v \in Threads :
          pc[v] \in {"start", "loop", "insert", "flush", "help", "help_move", "check", "wait",
                     "min", "prune", "count", "sum"} =>
            ~draining[v]
    BY DEF PhaseInv
  <1>a. AfterOperation(t) =>
          \/ pc' = [pc EXCEPT ![t] = "min"] /\ others' = [others EXCEPT ![t] = Others(t)]
          \/ pc' = [pc EXCEPT ![t] = "count"] /\ others' = others
    BY AfterOperationIs
  <1> USE DEF Quiet, Free, Waiting, Passed, vars, queue, cursor, sizes, lists, cells, loop, own, Goto, Set
  <1>1. ASSUME Start(t) PROVE Quiet
    <2>1. array' = array
      BY <1>1, <1>y DEF Start, StartInv
    <2> QED
      BY <1>1, <2>1, <1>y, <1>p DEF Start
  <1>2. ASSUME CallEnqueue(t) PROVE Quiet
    BY <1>2, <1>y, <1>p DEF CallEnqueue
  <1>3. ASSUME Insert(t) PROVE Quiet
    BY <1>3, <1>y, <1>p DEF Insert
  <1>4. ASSUME Flush(t) PROVE Quiet
    <2>1. /\ EndEnqueue(t) /\ array' = array /\ draining' = draining /\ ~draining[t]
          /\ pc[t] \in {"insert", "flush"}
      BY <1>4, <1>p DEF Flush
    <2>2. CASE AfterOperation(t)
      BY <2>1, <2>2, <1>y, <1>a
    <2>3. CASE pc' = [pc EXCEPT ![t] = "help"] /\ others' = others
      BY <2>1, <2>3, <1>y
    <2> QED
      BY <2>1, <2>2, <2>3, EndEnqueueIs
  <1>5. ASSUME DeqRead(t) PROVE Quiet
    <2>1. /\ pc' = [pc EXCEPT ![t] = "scan"] /\ pc[t] \in {"loop", "read"} /\ array' = array /\ others' = others
          /\ \/ draining' = draining
             \/ ~draining[t] /\ draining' = [draining EXCEPT ![t] = (acc[t] >= TotalOps)]
      BY <1>5, <1>p DEF DeqRead
    <2>2. \A u \in Threads \ {t} : draining'[u] = draining[u]
      BY <2>1, <1>y
    <2>3. draining[t] => draining'[t]
      BY <2>1
    <2> QED
      BY <2>1, <2>2, <2>3, <1>y
  <1>6. ASSUME DeqScan(t) PROVE Quiet
    BY <1>6, <1>y, <1>p DEF DeqScan
  <1>7. ASSUME DeqTake(t) PROVE Quiet
    BY <1>7, <1>y, <1>p DEF DeqTake
  <1>8. ASSUME DeqAdvance(t) PROVE Quiet
    BY <1>8, <1>y, <1>p DEF DeqAdvance, DrawMark
  <1>9. ASSUME DeqEmpty(t) PROVE Quiet
    <2>1. /\ array' = array /\ draining' = draining /\ pc[t] \in {"flush", "advance"}
          /\ \/ AfterOperation(t) /\ ~draining[t]
             \/ pc' = [pc EXCEPT ![t] = "finish"] /\ draining[t] /\ others' = others
      BY <1>9, <1>p DEF DeqEmpty
    <2>2. CASE AfterOperation(t)
      BY <2>1, <2>2, <1>y, <1>a
    <2>3. CASE pc' = [pc EXCEPT ![t] = "finish"] /\ others' = others
      BY <2>1, <2>3, <1>y
    <2> QED
      BY <2>1, <2>2, <2>3
  <1>10. ASSUME Publish(t) PROVE Quiet
    BY <1>10 DEF Loud
  <1>11. ASSUME PublishDraining(t) PROVE Quiet
    BY <1>11 DEF Loud
  <1>12. ASSUME CheckGVT(t) PROVE Quiet
    BY <1>12, <1>y, <1>p DEF CheckGVT
  <1>13. ASSUME WaitForCell(t) PROVE Quiet
    BY <1>13 DEF Loud
  <1>14. ASSUME Spin(t) PROVE Quiet
    BY <1>14, <1>y, <1>p DEF Spin
  <1>15. ASSUME WriteGVT(t) PROVE Quiet
    BY <1>15 DEF Loud
  <1>16. ASSUME ReadMin(t) PROVE Quiet
    BY <1>16, <1>y, <1>p DEF ReadMin
  <1>17. ASSUME CallPrune(t) PROVE Quiet
    BY <1>17, <1>y, <1>p DEF CallPrune
  <1>18. ASSUME PruneBucket(t) PROVE Quiet
    BY <1>18, <1>y, <1>p DEF PruneBucket
  <1>19. ASSUME Count(t) PROVE Quiet
    BY <1>19, <1>y, <1>p DEF Count, LogCondition
  <1>20. ASSUME SumOps(t) PROVE Quiet
    BY <1>20, <1>y, <1>p DEF SumOps
  <1>21. ASSUME Finish(t) PROVE Quiet
    BY <1>21 DEF Loud
  <1>22. ASSUME Growth(t) PROVE Quiet
    <2>1. array' = array /\ draining' = draining /\ others' = others
      BY <1>22, GrowthIs
    <2>2. \A u \in Threads \ {t} : pc'[u] = pc[u]
      BY <1>22, GrowthIs, <1>y
    <2>3. /\ pc[t] \notin {"check", "wait"} /\ pc'[t] \notin {"check", "wait"}
      BY <1>22, GrowthIs, <1>y
    <2> QED
      BY <2>1, <2>2, <2>3
  <1>23. ASSUME InsertFuture(t) PROVE Quiet
    <2>1. /\ EndEnqueue(t) /\ array' = array /\ draining' = draining /\ ~draining[t]
          /\ pc[t] \in {"insert", "flush"}
      BY <1>23, <1>p, InsertFutureIs
    <2>2. CASE AfterOperation(t)
      BY <2>1, <2>2, <1>y, <1>a
    <2>3. CASE pc' = [pc EXCEPT ![t] = "help"] /\ others' = others
      BY <2>1, <2>3, <1>y
    <2> QED
      BY <2>1, <2>2, <2>3, EndEnqueueIs
  <1>24. ASSUME EndHelp(t) PROVE Quiet
    <2>1. /\ array' = array /\ draining' = draining /\ ~draining[t] /\ pc[t] = "help" /\ AfterOperation(t)
      BY <1>24, <1>p DEF EndHelp
    <2> QED
      BY <2>1, <1>y, <1>a
  <1> HIDE DEF Quiet
  <1> QED
    BY <1>1, <1>2, <1>3, <1>4, <1>5, <1>6, <1>7, <1>8, <1>9, <1>10, <1>11, <1>12,
       <1>13, <1>14, <1>15, <1>16, <1>17, <1>18, <1>19, <1>20, <1>21, <1>22, <1>23, <1>24
    DEF Step, Growth

\* Every step keeps it.
LEMMA StartInvStep == TypeInv /\ StartInv /\ [Next]_vars => StartInv'
  <1> SUFFICES ASSUME TypeInv, StartInv, [Next]_vars PROVE StartInv'
    OBVIOUS
  <1>y. pc \in [Threads -> Locations] /\ array \in [Threads -> Times]
    BY DEF TypeInv, TypePc, TypeCells
  <1> USE DEF StartInv, vars, queue, cursor, sizes, lists, cells, loop, own, Goto, Set
  <1>a. \A t \in Threads : AfterOperation(t) => pc' = [pc EXCEPT ![t] = "min"] \/ pc' = [pc EXCEPT ![t] = "count"]
    BY AfterOperationIs
  <1>1. ASSUME NEW t \in Threads, Start(t) PROVE StartInv'
    BY <1>1, <1>y DEF Start
  <1>2. ASSUME NEW t \in Threads, CallEnqueue(t) PROVE StartInv'
    BY <1>2, <1>y DEF CallEnqueue
  <1>3. ASSUME NEW t \in Threads, Insert(t) PROVE StartInv'
    BY <1>3, <1>y DEF Insert
  <1>4. ASSUME NEW t \in Threads, Flush(t) PROVE StartInv'
    <2>1. EndEnqueue(t) /\ array' = array
      BY <1>4 DEF Flush
    <2> QED
      BY <2>1, <1>y, <1>a, EndEnqueueIs
  <1>5. ASSUME NEW t \in Threads, DeqRead(t) PROVE StartInv'
    BY <1>5, <1>y DEF DeqRead, LogCondition
  <1>6. ASSUME NEW t \in Threads, DeqScan(t) PROVE StartInv'
    BY <1>6, <1>y DEF DeqScan
  <1>7. ASSUME NEW t \in Threads, DeqTake(t) PROVE StartInv'
    BY <1>7, <1>y DEF DeqTake
  <1>8. ASSUME NEW t \in Threads, DeqAdvance(t) PROVE StartInv'
    BY <1>8, <1>y DEF DeqAdvance, DrawMark
  <1>9. ASSUME NEW t \in Threads, DeqEmpty(t) PROVE StartInv'
    <2>1. array' = array /\ (AfterOperation(t) \/ pc' = [pc EXCEPT ![t] = "finish"])
      BY <1>9 DEF DeqEmpty
    <2> QED
      BY <2>1, <1>y, <1>a
  <1>10. ASSUME NEW t \in Threads, Publish(t) PROVE StartInv'
    <2>1. /\ array' = [array EXCEPT ![t] = timestamp[t]]
          /\ pc' = [pc EXCEPT ![t] = "check"] \/ AfterOperation(t)
      BY <1>10 DEF Publish
    <2> QED
      BY <2>1, <1>y, <1>a
  <1>11. ASSUME NEW t \in Threads, PublishDraining(t) PROVE StartInv'
    BY <1>11, <1>y DEF PublishDraining
  <1>12. ASSUME NEW t \in Threads, CheckGVT(t) PROVE StartInv'
    BY <1>12, <1>y DEF CheckGVT
  <1>13. ASSUME NEW t \in Threads, WaitForCell(t) PROVE StartInv'
    BY <1>13, <1>y DEF WaitForCell
  <1>14. ASSUME NEW t \in Threads, Spin(t) PROVE StartInv'
    BY <1>14, <1>y DEF Spin
  <1>15. ASSUME NEW t \in Threads, WriteGVT(t) PROVE StartInv'
    <2>1. AfterOperation(t) /\ array' = array
      BY <1>15 DEF WriteGVT
    <2> QED
      BY <2>1, <1>y, <1>a
  <1>16. ASSUME NEW t \in Threads, ReadMin(t) PROVE StartInv'
    BY <1>16, <1>y DEF ReadMin
  <1>17. ASSUME NEW t \in Threads, CallPrune(t) PROVE StartInv'
    BY <1>17, <1>y DEF CallPrune
  <1>18. ASSUME NEW t \in Threads, PruneBucket(t) PROVE StartInv'
    BY <1>18, <1>y DEF PruneBucket
  <1>19. ASSUME NEW t \in Threads, Count(t) PROVE StartInv'
    BY <1>19, <1>y DEF Count, LogCondition
  <1>20. ASSUME NEW t \in Threads, SumOps(t) PROVE StartInv'
    BY <1>20, <1>y DEF SumOps
  <1>21. ASSUME NEW t \in Threads, Finish(t) PROVE StartInv'
    BY <1>21, <1>y DEF Finish
  <1>22. ASSUME NEW t \in Threads, Growth(t) PROVE StartInv'
    <2>1. array' = array /\ \A u \in Threads \ {t} : pc'[u] = pc[u]
      BY <1>22, GrowthIs, <1>y
    <2>2. pc'[t] # "start"
      BY <1>22, GrowthIs, <1>y
    <2> QED
      BY <2>1, <2>2
  <1>23. ASSUME NEW t \in Threads, InsertFuture(t) PROVE StartInv'
    <2>1. EndEnqueue(t) /\ array' = array
      BY <1>23, InsertFutureIs
    <2> QED
      BY <2>1, <1>y, <1>a, EndEnqueueIs
  <1>24. ASSUME NEW t \in Threads, EndHelp(t) PROVE StartInv'
    <2>1. AfterOperation(t) /\ array' = array
      BY <1>24 DEF EndHelp
    <2> QED
      BY <2>1, <1>y, <1>a
  <1>25. ASSUME PrintCheck PROVE StartInv'
    BY <1>25, <1>y DEF PrintCheck
  <1>26. CASE UNCHANGED vars
    BY <1>26
  <1> QED
    BY <1>1, <1>2, <1>3, <1>4, <1>5, <1>6, <1>7, <1>8, <1>9, <1>10, <1>11, <1>12,
       <1>13, <1>14, <1>15, <1>16, <1>17, <1>18, <1>19, <1>20, <1>21, <1>22, <1>23, <1>24,
       <1>25, <1>26 DEF Next, Step, Growth, Exited

\* They hold in every state.
LEMMA PhaseHolds == Spec => []PhaseInv /\ []StartInv
  <1>1. Init => PhaseInv /\ StartInv
    BY DEF Init, PhaseInv, StartInv
  <1> QED
    BY <1>1, PhaseInvStep, StartInvStep, TypesHold, PTL DEF Spec

\* A thread at large is behind every thread of the main loop, and a thread is
\* behind those whose cells have let it go.
InStep ==
  /\ \A t, u \in Threads : Free(t) /\ ~draining[u] /\ t # u =>
       array[t] <= array[u] /\ (array[t] > 0 => Behind(t, u))
  /\ \A t \in Threads : \A u \in Passed(t) : ~draining[u] => Behind(t, u)

\* What Publish does with SAFETY_CHECK.
LEMMA PublishIs ==
  ASSUME TypeInv, SafetyCheck, NEW t \in Threads, Publish(t)
  PROVE  /\ pc[t] = "publish" /\ ~draining[t] /\ pc' = [pc EXCEPT ![t] = "check"]
         /\ array' = [array EXCEPT ![t] = timestamp[t]]
         /\ draining' = draining /\ timestamp' = timestamp /\ others' = others
         /\ local_min' = local_min /\ acc' = acc
  BY DEF Publish, Goto, Set, own, loop

\* Every step keeps the threads in step: a thread publishes a later timestamp
\* only, and is let go only by cells that come after its own.
LEMMA InStepStep ==
  ASSUME SafetyCheck, TypeInv, PhaseInv, StartInv, WaitInv, InStep, NEW t \in Threads, Step(t),
         \A v \in Threads : pc[v] = "publish" /\ ~draining[v] => array[v] <= timestamp[v]
  PROVE  InStep'
  <1>y. /\ pc \in [Threads -> Locations] /\ draining \in [Threads -> BOOLEAN]
        /\ array \in [Threads -> Times] /\ others \in [Threads -> SUBSET Threads]
    BY DEF TypeInv, TypePc, TypeCells, TypeLoop
  <1>n. \A v \in Threads : array[v] \in Nat /\ v \in Nat /\ timestamp[v] \in Nat
    BY TimesNat, DriverAssumption DEF TypeInv, TypeCells, TypeOwn
  <1>p. \A v \in Threads : Passed(v) \subseteq Threads \ {v}
    BY DEF Passed, Others
  <1>1. ASSUME Quiet PROVE InStep'
    <2>1. \A v, w \in Threads : Behind(v, w)' <=> Behind(v, w)
      BY <1>1 DEF Quiet, Behind
    <2>2. \A v, w \in Threads : (Free(v) /\ ~draining[w])' => Free(v) /\ ~draining[w]
      BY <1>1 DEF Quiet
    <2>3. \A v \in Threads : Passed(v)' = Passed(v)
      BY <1>1 DEF Quiet
    <2>4. array' = array
      BY <1>1 DEF Quiet
    <2>5. \A u \in Threads : ~draining'[u] => ~draining[u]
      BY <1>1 DEF Quiet
    <2> QED
      BY <2>1, <2>2, <2>3, <2>4, <2>5, <1>p DEF InStep
  <1>2. ASSUME Publish(t) PROVE InStep'
    <2>1. /\ pc[t] = "publish" /\ ~draining[t] /\ pc' = [pc EXCEPT ![t] = "check"]
          /\ array' = [array EXCEPT ![t] = timestamp[t]]
          /\ draining' = draining /\ others' = others
      BY <1>2, PublishIs
    <2>2. array[t] <= timestamp[t]
      BY <2>1
    <2>3. /\ ~Free(t)' /\ Passed(t)' = {}
          /\ \A v \in Threads \ {t} : /\ Free(v)' <=> Free(v)
                                      /\ Passed(v)' = Passed(v)
      BY <2>1, <1>y DEF Free, Waiting, Passed
    <2>4. \A v \in Threads \ {t}, u \in Threads : Behind(v, u) => Behind(v, u)'
      BY <2>1, <2>2, <1>y, <1>n DEF Behind
    <2>5. \A u \in Threads : array[u] <= array'[u]
      BY <2>1, <2>2, <1>y, <1>n
    <2>6. \A v \in Threads \ {t} : array'[v] = array[v]
      BY <2>1, <1>y
    <2>7. \A u \in Threads : array'[u] \in Nat
      BY <2>1, <1>y, <1>n
    <2>8. ASSUME NEW v \in Threads, NEW u \in Threads, Free(v)', ~draining'[u], v # u
          PROVE  array'[v] <= array'[u] /\ (array'[v] > 0 => Behind(v, u)')
      <3>1. v # t /\ Free(v) /\ ~draining[u]
        BY <2>1, <2>3, <2>8
      <3>2. array[v] <= array[u] /\ (array[v] > 0 => Behind(v, u))
        BY <2>8, <3>1 DEF InStep
      <3> QED
        BY <2>4, <2>5, <2>6, <2>7, <3>1, <3>2, <1>n
    <2>9. ASSUME NEW v \in Threads, NEW u \in Passed(v)', ~draining'[u] PROVE Behind(v, u)'
      <3>1. v # t /\ u \in Passed(v) /\ u \in Threads /\ ~draining[u]
        BY <2>1, <2>3, <2>9, <1>p
      <3> QED
        BY <2>4, <3>1 DEF InStep
    <2> QED
      BY <2>8, <2>9 DEF InStep
  <1>3. ASSUME PublishDraining(t) \/ Finish(t) PROVE InStep'
    <2>1. /\ draining[t] /\ draining' = draining /\ others' = others
          /\ pc[t] \notin {"check", "wait"}
          /\ pc' \in {[pc EXCEPT ![t] = "read"], [pc EXCEPT ![t] = "finish"], [pc EXCEPT ![t] = "done"]}
          /\ array' \in {[array EXCEPT ![t] = timestamp[t]], [array EXCEPT ![t] = INFTY]}
      BY <1>3 DEF PublishDraining, Finish, PhaseInv, Goto, Set, own, loop
    <2>2. \A v \in Threads : (Free(v)' <=> Free(v)) /\ Passed(v)' = Passed(v)
      BY <2>1, <1>y DEF Free, Waiting, Passed
    <2>3. \A v \in Threads \ {t} : array'[v] = array[v]
      BY <2>1, <1>y
    <2>4. \A v \in Threads : Passed(v) # {} => v # t
      BY <2>1 DEF Passed
    <2>5. ASSUME NEW v \in Threads, NEW u \in Threads, Free(v)', ~draining'[u], v # u
          PROVE  array'[v] <= array'[u] /\ (array'[v] > 0 => Behind(v, u)')
      <3>1. v # t /\ u # t /\ Free(v) /\ ~draining[u]
        BY <2>1, <2>2, <2>5 DEF Free
      <3> QED
        BY <2>3, <2>5, <3>1 DEF InStep, Behind
    <2>6. ASSUME NEW v \in Threads, NEW u \in Passed(v)', ~draining'[u] PROVE Behind(v, u)'
      <3>1. v # t /\ u # t /\ u \in Passed(v) /\ u \in Threads /\ ~draining[u]
        BY <2>1, <2>2, <2>4, <2>6, <1>p
      <3> QED
        BY <2>3, <3>1 DEF InStep, Behind
    <2> QED
      BY <2>5, <2>6 DEF InStep
  <1>4. ASSUME WaitForCell(t) PROVE InStep'
    <2> DEFINE u == Min(others[t])
    <2>1. /\ pc[t] = "wait" /\ pc' = pc /\ array' = array /\ draining' = draining
          /\ others' = [others EXCEPT ![t] = others[t] \ {u}]
          /\ others[t] # {} /\ ~KeepsWaiting(t, u)
      BY <1>4 DEF WaitForCell, Set, own, cells
    <2>2. u \in others[t] /\ u \in Threads /\ u # t
      BY <2>1, MinThread DEF TypeInv, TypeLoop
    <2>3. array[t] = timestamp[t]
      BY <2>1 DEF WaitInv
    <2>4. Behind(t, u)
      BY <2>1, <2>2, <2>3, <1>n DEF KeepsWaiting, Behind
    <2> HIDE DEF u
    <2>5. /\ \A v \in Threads : Free(v)' <=> Free(v)
          /\ \A v \in Threads \ {t} : Passed(v)' = Passed(v)
          /\ Passed(t)' \subseteq Passed(t) \cup {u}
      BY <2>1, <1>y DEF Free, Waiting, Passed, Others
    <2>6. \A v, w \in Threads : Behind(v, w)' <=> Behind(v, w)
      BY <2>1 DEF Behind
    <2>7. \A v \in Threads : \A w \in Passed(v)' : ~draining'[w] => Behind(v, w)'
      BY <2>1, <2>2, <2>4, <2>5, <2>6, <1>p DEF InStep
    <2>8. \A v, w \in Threads : Free(v)' /\ ~draining'[w] /\ v # w =>
            array'[v] <= array'[w] /\ (array'[v] > 0 => Behind(v, w)')
      BY <2>1, <2>5, <2>6 DEF InStep
    <2> QED
      BY <2>7, <2>8 DEF InStep
  <1>5. ASSUME WriteGVT(t) PROVE InStep'
    <2>1. /\ pc[t] = "wait" /\ others[t] = {} /\ array' = array /\ draining' = draining
          /\ AfterOperation(t)
      BY <1>5 DEF WriteGVT
    <2>2. /\ \/ pc' = [pc EXCEPT ![t] = "min"]
             \/ pc' = [pc EXCEPT ![t] = "count"]
          /\ \A v \in Threads \ {t} : others'[v] = others[v]
      BY <2>1, <1>y, AfterOperationIs
    <2>3. Passed(t) = Others(t)
      BY <2>1 DEF Passed
    <2>4. /\ \A v \in Threads \ {t} : (Free(v)' <=> Free(v)) /\ Passed(v)' = Passed(v)
          /\ Passed(t)' = {}
      BY <2>1, <2>2, <1>y DEF Free, Waiting, Passed
    <2>5. \A v, w \in Threads : Behind(v, w)' <=> Behind(v, w)
      BY <2>1 DEF Behind
    <2>6. ASSUME NEW v \in Threads, NEW w \in Threads, Free(v)', ~draining'[w], v # w
          PROVE  array'[v] <= array'[w] /\ (array'[v] > 0 => Behind(v, w)')
      <3>1. CASE v = t
        <4>1. Behind(t, w)
          BY <2>1, <2>3, <2>6, <3>1 DEF InStep, Others
        <4> QED
          BY <2>1, <2>5, <3>1, <4>1, <1>n DEF Behind
      <3>2. CASE v # t
        BY <2>1, <2>4, <2>5, <2>6, <3>2 DEF InStep
      <3> QED
        BY <3>1, <3>2
    <2>7. \A v \in Threads : \A w \in Passed(v)' : ~draining'[w] => Behind(v, w)'
      BY <2>1, <2>4, <2>5, <1>p DEF InStep
    <2> QED
      BY <2>6, <2>7 DEF InStep
  <1> QED
    BY <1>1, <1>2, <1>3, <1>4, <1>5, QuietSteps DEF Loud

\* While the program runs, the cell of a thread past its check is not before
\* GVT, and the cells that let a thread go are not before its own, unless their
\* threads have still to check a timestamp.
WaitsOrdered ==
  /\ \A t \in Threads : pc[t] = "wait" => GVT <= array[t]
  /\ \A t \in Threads : \A u \in Passed(t) : ~draining[u] =>
       array[t] <= array[u] \/ (pc[u] = "check" /\ array[t] <= GVT)

\* What GVT tells of the cells, whatever the queue hands out: it is in the cell
\* of every thread of the main loop that neither checks nor waits.
GvtOrder ==
  /\ \A t \in Threads : Free(t) => array[t] = GVT
  /\ outcome = "running" => WaitsOrdered

\* A waiting thread does nothing but wait.
LEMMA WaitingSteps ==
  ASSUME NEW t \in Threads, Step(t), Waiting(t)
  PROVE  \/ pc[t] = "check" /\ CheckGVT(t)
         \/ pc[t] = "wait" /\ (WaitForCell(t) \/ Spin(t) \/ WriteGVT(t))
  BY DEF Waiting, Step, Start, CallEnqueue, Insert, InsertFuture, Flush, EndHelp, DeqRead, DeqScan, DeqTake,
         DeqAdvance, DeqEmpty, DeqExpand, ExpandSwap, ExpandClose, Pop, Move, ExpandSize, Publish,
         PublishDraining, CheckGVT, WaitForCell, Spin, WriteGVT, ReadMin, CallPrune, PruneBucket,
         Count, SumOps, Finish

\* Only a thread past its wait writes GVT.
LEMMA GvtKept ==
  ASSUME NEW t \in Threads, Step(t), ~WriteGVT(t)
  PROVE  GVT' = GVT
  <1> USE DEF vars, cells
  <1>1. CASE Growth(t)
    BY <1>1, GrowthIs
  <1>2. CASE InsertFuture(t)
    BY <1>2, InsertFutureIs
  <1>3. CASE Start(t) \/ CallEnqueue(t) \/ Insert(t) \/ Flush(t) \/ EndHelp(t)
    BY <1>3 DEF Start, CallEnqueue, Insert, Flush, EndHelp
  <1>4. CASE DeqRead(t) \/ DeqScan(t) \/ DeqTake(t) \/ DeqAdvance(t) \/ DeqEmpty(t)
    BY <1>4 DEF DeqRead, DeqScan, DeqTake, DeqAdvance, DeqEmpty
  <1>5. CASE Publish(t) \/ PublishDraining(t) \/ CheckGVT(t) \/ WaitForCell(t) \/ Spin(t)
    BY <1>5 DEF Publish, PublishDraining, CheckGVT, WaitForCell, Spin
  <1>6. CASE ReadMin(t) \/ CallPrune(t) \/ PruneBucket(t) \/ Count(t) \/ SumOps(t) \/ Finish(t)
    BY <1>6 DEF ReadMin, CallPrune, PruneBucket, Count, SumOps, Finish
  <1> QED
    BY <1>1, <1>2, <1>3, <1>4, <1>5, <1>6 DEF Step, Growth

\* Every step that does not stop the program keeps the order.
LEMMA GvtOrderStep ==
  ASSUME SafetyCheck, TypeInv, PhaseInv, StartInv, WaitInv, GvtOrder, NEW t \in Threads, Step(t)
  PROVE  GVT <= GVT' /\ GvtOrder'
  <1>y. /\ pc \in [Threads -> Locations] /\ draining \in [Threads -> BOOLEAN]
        /\ array \in [Threads -> Times] /\ others \in [Threads -> SUBSET Threads]
        /\ GVT \in Nat /\ \A v \in Threads : array[v] \in Nat /\ timestamp[v] \in Nat
    BY TimesNat DEF TypeInv, TypePc, TypeCells, TypeLoop, TypeOwn
  <1>p. \A v \in Threads : Passed(v) \subseteq Threads \ {v}
    BY DEF Passed, Others
  <1>o. \A v \in Threads \ {t} :
          /\ pc'[v] = pc[v] /\ array'[v] = array[v] /\ Passed(v)' = Passed(v)
          /\ draining'[v] = draining[v] /\ (Free(v)' <=> Free(v))
    BY OneThread DEF Passed, Free, Waiting, Others
  <1>f. WaitsOrdered /\ \A v \in Threads : Free(v) => array[v] = GVT
    BY DEF GvtOrder, Step
  <1>1. CASE WriteGVT(t)
    <2>1. /\ pc[t] = "wait" /\ others[t] = {} /\ GVT' = timestamp[t] /\ array' = array
          /\ draining' = draining /\ AfterOperation(t)
      BY <1>1 DEF WriteGVT
    <2>2. pc'[t] \in {"min", "count"}
      BY <2>1, <1>y, AfterOperationIs
    <2>3. GVT' = array[t] /\ GVT <= array[t] /\ Passed(t) = Others(t)
      BY <1>f, <2>1 DEF WaitInv, GvtOrder, WaitsOrdered, Passed
    <2>4. \A v \in Threads : Free(v)' => array'[v] = GVT'
      <3>1. ASSUME NEW v \in Threads, v # t, Free(v) PROVE array[v] = GVT'
        <4>1. v \in Passed(t) /\ ~draining[v] /\ pc[v] # "check" /\ array[v] = GVT
          BY <2>3, <3>1, <1>f DEF Others, Free, Waiting
        <4>2. array[t] <= array[v]
          BY <4>1, <1>f DEF WaitsOrdered
        <4> QED
          BY <2>3, <4>1, <4>2, <1>y
      <3> QED
        BY <2>1, <2>3, <3>1, <1>o
    <2>5. ASSUME NEW v \in Threads, pc'[v] = "wait" PROVE GVT' <= array'[v]
      <3>1. v # t /\ pc[v] = "wait"
        BY <2>2, <2>5, <1>o
      <3>2. ~draining[v] /\ v \in Passed(t)
        BY <2>3, <3>1 DEF PhaseInv, Others
      <3> QED
        BY <1>f, <2>1, <2>3, <3>1, <3>2 DEF GvtOrder, WaitsOrdered
    <2>6. ASSUME NEW v \in Threads, NEW u \in Passed(v)', ~draining'[u]
          PROVE  array'[v] <= array'[u] \/ (pc'[u] = "check" /\ array'[v] <= GVT')
      <3>1. v # t /\ u \in Passed(v) /\ u \in Threads /\ ~draining[u]
        BY <2>1, <2>2, <2>6, <1>o, <1>p DEF Passed
      <3>2. array[v] <= array[u] \/ (pc[u] = "check" /\ array[v] <= GVT)
        BY <1>f, <3>1 DEF GvtOrder, WaitsOrdered
      <3>3. pc[u] = "check" => u # t
        BY <2>1
      <3> QED
        BY <2>1, <2>3, <3>1, <3>2, <3>3, <1>o, <1>y
    <2> QED
      BY <1>f, <2>3, <2>4, <2>5, <2>6 DEF GvtOrder, WaitsOrdered
  <1>2. CASE Publish(t)
    <2>1. /\ pc[t] = "publish" /\ ~draining[t] /\ pc' = [pc EXCEPT ![t] = "check"]
          /\ array' = [array EXCEPT ![t] = timestamp[t]]
          /\ draining' = draining /\ others' = others
      BY <1>2, PublishIs
    <2>2. GVT' = GVT
      BY <1>2, <2>1, GvtKept DEF WriteGVT
    <2>3. /\ ~Free(t)' /\ Passed(t)' = {} /\ pc'[t] = "check" /\ array[t] <= GVT
      BY <2>1, <1>y, <1>f DEF Free, Waiting, Passed
    <2>4. ASSUME NEW v \in Threads, NEW u \in Passed(v)', ~draining'[u]
          PROVE  array'[v] <= array'[u] \/ (pc'[u] = "check" /\ array'[v] <= GVT')
      <3>1. v # t /\ u \in Passed(v) /\ u \in Threads /\ ~draining[u]
        BY <2>1, <2>3, <2>4, <1>o, <1>p
      <3>2. array[v] <= array[u] \/ (pc[u] = "check" /\ array[v] <= GVT)
        BY <1>f, <3>1 DEF GvtOrder, WaitsOrdered
      <3>3. CASE u = t
        BY <2>1, <2>2, <2>3, <3>1, <3>2, <3>3, <1>o, <1>y
      <3>4. CASE u # t
        BY <2>2, <3>1, <3>2, <3>4, <1>o
      <3> QED
        BY <3>3, <3>4
    <2>5. \A v \in Threads : Free(v)' => array'[v] = GVT'
      BY <1>f, <2>2, <2>3, <1>o DEF GvtOrder, WaitsOrdered
    <2>6. \A v \in Threads : pc'[v] = "wait" => GVT' <= array'[v]
      BY <1>f, <2>2, <2>3, <1>o DEF GvtOrder, WaitsOrdered
    <2> QED
      BY <1>f, <2>2, <2>4, <2>5, <2>6, <1>y DEF GvtOrder, WaitsOrdered
  <1>3. CASE PublishDraining(t) \/ Finish(t)
    <2>1. /\ draining[t] /\ draining' = draining /\ pc[t] \notin {"check", "wait"}
          /\ pc'[t] \notin {"check", "wait"}
      BY <1>3, <1>y DEF PublishDraining, Finish, PhaseInv, Goto, own
    <2>2. GVT' = GVT
      BY <1>3, <2>1, GvtKept DEF WriteGVT
    <2>3. ASSUME NEW v \in Threads, NEW u \in Passed(v)', ~draining'[u]
          PROVE  array'[v] <= array'[u] \/ (pc'[u] = "check" /\ array'[v] <= GVT')
      <3>1. v # t /\ u # t /\ u \in Passed(v) /\ u \in Threads /\ ~draining[u]
        BY <2>1, <2>3, <1>o, <1>p DEF Passed
      <3> QED
        BY <1>f, <2>2, <3>1, <1>o DEF GvtOrder, WaitsOrdered
    <2>4. \A v \in Threads : Free(v)' => array'[v] = GVT'
      BY <1>f, <2>1, <2>2, <1>o DEF GvtOrder, WaitsOrdered, Free
    <2>5. \A v \in Threads : pc'[v] = "wait" => GVT' <= array'[v]
      BY <1>f, <2>1, <2>2, <1>o DEF GvtOrder, WaitsOrdered
    <2> QED
      BY <1>f, <2>2, <2>3, <2>4, <2>5, <1>y DEF GvtOrder, WaitsOrdered
  <1>4. CASE WaitForCell(t)
    <2> DEFINE c == Min(others[t])
    <2>1. /\ pc[t] = "wait" /\ pc' = pc /\ array' = array /\ draining' = draining
          /\ others' = [others EXCEPT ![t] = others[t] \ {c}]
          /\ others[t] # {} /\ ~KeepsWaiting(t, c)
      BY <1>4 DEF WaitForCell, Set, own, cells
    <2>2. GVT' = GVT
      BY <1>4 DEF WaitForCell, cells
    <2>3. c \in others[t] /\ c \in Threads /\ c # t
      BY <2>1, MinThread DEF TypeInv, TypeLoop
    <2>4. array[t] <= array[c]
      BY <2>1, <2>3, <1>y DEF KeepsWaiting, WaitInv
    <2> HIDE DEF c
    <2>5. Passed(t)' \subseteq Passed(t) \cup {c} /\ ~Free(t)'
      BY <2>1, <1>y DEF Free, Waiting, Passed, Others
    <2>6. ASSUME NEW v \in Threads, NEW u \in Passed(v)', ~draining'[u]
          PROVE  array'[v] <= array'[u] \/ (pc'[u] = "check" /\ array'[v] <= GVT')
      <3>1. CASE v = t /\ u = c
        BY <2>1, <2>4, <3>1
      <3>2. CASE ~(v = t /\ u = c)
        <4>1. u \in Passed(v) /\ u \in Threads /\ ~draining[u]
          BY <2>1, <2>5, <2>6, <3>2, <1>o, <1>p
        <4> QED
          BY <1>f, <2>1, <2>2, <4>1 DEF GvtOrder, WaitsOrdered
      <3> QED
        BY <3>1, <3>2
    <2>7. \A v \in Threads : Free(v)' => array'[v] = GVT'
      BY <1>f, <2>1, <2>2, <2>5, <1>o DEF GvtOrder, WaitsOrdered
    <2>8. \A v \in Threads : pc'[v] = "wait" => GVT' <= array'[v]
      BY <1>f, <2>1, <2>2 DEF GvtOrder, WaitsOrdered
    <2> QED
      BY <1>f, <2>2, <2>6, <2>7, <2>8, <1>y DEF GvtOrder, WaitsOrdered
  <1>5. CASE CheckGVT(t)
    <2>1. /\ pc[t] = "check" /\ pc' = [pc EXCEPT ![t] = "wait"] /\ array' = array /\ draining' = draining
          /\ GVT' = GVT /\ others' = [others EXCEPT ![t] = Others(t)]
          /\ outcome' = IF timestamp[t] < GVT THEN "ERRORE" ELSE outcome
      BY <1>5 DEF CheckGVT, Goto, Set, own, cells
    <2>2. /\ pc'[t] = "wait" /\ Passed(t)' = {} /\ ~Free(t)'
      BY <2>1, <1>y DEF Passed, Free, Waiting
    <2>3. ASSUME outcome' = "running" PROVE WaitsOrdered'
      <3>1. GVT <= array[t]
        BY <2>1, <2>3, <1>y DEF WaitInv
      <3>2. ASSUME NEW v \in Threads, NEW u \in Passed(v)', ~draining'[u]
            PROVE  array'[v] <= array'[u] \/ (pc'[u] = "check" /\ array'[v] <= GVT')
        <4>1. v # t /\ u \in Passed(v) /\ u \in Threads /\ ~draining[u]
          BY <2>1, <2>2, <3>2, <1>o, <1>p
        <4>2. array[v] <= array[u] \/ (pc[u] = "check" /\ array[v] <= GVT)
          BY <1>f, <4>1 DEF WaitsOrdered
        <4> QED
          BY <2>1, <3>1, <4>1, <4>2, <1>o, <1>y
      <3>3. \A v \in Threads : pc'[v] = "wait" => GVT' <= array'[v]
        BY <2>1, <3>1, <1>f, <1>o DEF WaitsOrdered
      <3> QED
        BY <3>2, <3>3 DEF WaitsOrdered
    <2>4. \A v \in Threads : Free(v)' => array'[v] = GVT'
      BY <2>1, <2>2, <1>f, <1>o
    <2> QED
      BY <2>1, <2>3, <2>4, <1>y DEF GvtOrder
  <1>6. CASE ~Loud(t) /\ ~CheckGVT(t)
    <2>1. Quiet /\ GVT' = GVT
      BY <1>6, QuietSteps, GvtKept DEF Loud
    <2>2. array' = array /\ \A v \in Threads : (Free(v)' => Free(v)) /\ (~draining'[v] => ~draining[v])
          /\ Passed(v)' = Passed(v)
      BY <2>1 DEF Quiet
    <2>3. \A v \in Threads : (pc'[v] = "wait" => pc[v] = "wait") /\ (pc[v] = "check" => pc'[v] = "check")
      <3>1. CASE Waiting(t)
        <4>1. pc' = pc
          BY <1>6, <3>1, WaitingSteps DEF Loud, Spin, vars
        <4> QED
          BY <4>1
      <3>2. CASE ~Waiting(t)
        <4>1. pc'[t] # "wait" /\ pc[t] # "check"
          BY <2>1, <3>2 DEF Quiet, Waiting
        <4> QED
          BY <4>1, <1>o
      <3> QED
        BY <3>1, <3>2
    <2>4. ASSUME NEW v \in Threads, NEW u \in Passed(v)', ~draining'[u]
          PROVE  array'[v] <= array'[u] \/ (pc'[u] = "check" /\ array'[v] <= GVT')
      <3>1. u \in Passed(v) /\ u \in Threads /\ ~draining[u]
        BY <2>2, <2>4, <1>p
      <3> QED
        BY <1>f, <2>1, <2>2, <2>3, <3>1 DEF GvtOrder, WaitsOrdered
    <2>5. \A v \in Threads : Free(v)' => array'[v] = GVT'
      BY <1>f, <2>1, <2>2 DEF GvtOrder, WaitsOrdered
    <2>6. \A v \in Threads : pc'[v] = "wait" => GVT' <= array'[v]
      BY <1>f, <2>1, <2>2, <2>3 DEF GvtOrder, WaitsOrdered
    <2> QED
      BY <1>f, <2>1, <2>4, <2>5, <2>6, <1>y DEF GvtOrder, WaitsOrdered
  <1> QED
    BY <1>1, <1>2, <1>3, <1>4, <1>5, <1>6 DEF Loud

\* Every step of the program keeps the order, and GVT does not go back.
LEMMA GvtOrderNext ==
  ASSUME SafetyCheck, TypeInv, PhaseInv, StartInv, WaitInv, GvtOrder, [Next]_vars
  PROVE  GVT <= GVT' /\ GvtOrder'
  <1>1. GVT \in Nat
    BY TimesNat DEF TypeInv, TypeCells
  <1>2. ASSUME NEW t \in Threads, Step(t) PROVE GVT <= GVT' /\ GvtOrder'
    BY <1>2, GvtOrderStep
  <1>3. CASE Frozen
    <2>1. /\ GVT' = GVT /\ array' = array /\ pc' = pc /\ draining' = draining /\ others' = others
      BY <1>3 DEF Frozen, cells, loop, own
    <2>2. outcome' = "running" => outcome = "running"
      BY DEF Next, Step, PrintCheck, Exited, vars
    <2> QED
      BY <1>1, <2>1, <2>2 DEF GvtOrder, WaitsOrdered, Free, Waiting, Passed
  <1> QED
    BY <1>2, <1>3, NextCases

\* The order holds in every state.
LEMMA GvtOrderHolds == SafetyCheck => (Spec => []GvtOrder)
  <1> SUFFICES ASSUME SafetyCheck PROVE Spec => []GvtOrder
    OBVIOUS
  <1>1. Init => GvtOrder
    <2> SUFFICES ASSUME Init PROVE GvtOrder
      OBVIOUS
    <2>1. \A t \in Threads : pc[t] = "start" /\ array[t] = 0 /\ GVT = 0
      BY DEF Init
    <2> QED
      BY <2>1 DEF GvtOrder, WaitsOrdered, Passed
  <1>2. TypeInv /\ PhaseInv /\ StartInv /\ WaitInv /\ GvtOrder /\ [Next]_vars => GvtOrder'
    BY GvtOrderNext
  <1> QED
    BY <1>1, <1>2, TypesHold, PhaseHolds, WaitInvHolds, PTL DEF Spec

\* GVT never goes back, whatever the queue hands out: the threads pass the
\* check in timestamp order.
THEOREM GVTNeverBack ==
  ASSUME SafetyCheck
  PROVE  Spec => GVTAdvances
  <1>1. TypeInv /\ PhaseInv /\ StartInv /\ WaitInv /\ GvtOrder /\ [Next]_vars => [GVT' >= GVT]_vars
    <2> SUFFICES ASSUME TypeInv, PhaseInv, StartInv, WaitInv, GvtOrder, [Next]_vars PROVE GVT' >= GVT
      OBVIOUS
    <2>1. GVT \in Nat /\ GVT' \in Nat
      BY TypeCellsStep, TimesNat DEF TypeInv, TypeCells
    <2>2. GVT <= GVT'
      BY GvtOrderNext
    <2> QED
      BY <2>1, <2>2
  <1> QED
    BY <1>1, GvtOrderHolds, TypesHold, PhaseHolds, WaitInvHolds, PTL DEF Spec, GVTAdvances

\* No bucket index is cut, so the buckets are in the order of the timestamps.
LEMMA BucketsInOrder ==
  ASSUME TimestampsFit
  PROVE  /\ \A x \in Reached : BucketOf(x) = x \div BucketWidth
         /\ \A x, y \in Reached : x <= y => BucketOf(x) <= BucketOf(y)
  <1>1. BucketWidth \in Nat \ {0} /\ Reached \subseteq Nat
    BY DriverAssumption, TimesNat
  <1>2. 2^WordBits \in Nat /\ 0 < 2^WordBits
    BY WordAssumption, PowerAbove
  <1>3. \A x \in Reached : x \div BucketWidth \in Nat /\ x \div BucketWidth < 2^WordBits
    <2> TAKE x \in Reached
    <2>1. CASE x \in Timestamps
      BY <2>1, <1>1, DivIs DEF TimestampsFit
    <2>2. CASE x = 0
      <3>1. \A w \in Nat \ {0} : 0 \div w = 0
        OBVIOUS
      <3> QED
        BY <2>2, <3>1, <1>1, <1>2
    <2> QED
      BY <2>1, <2>2 DEF Reached
  <1>4. \A q, p \in Nat : q < p => q % p = q
    OBVIOUS
  <1>5. \A x \in Reached : BucketOf(x) = x \div BucketWidth
    BY <1>2, <1>3, <1>4 DEF BucketOf, hash
  <1>6. \A x, y \in Reached : x <= y => x \div BucketWidth <= y \div BucketWidth
    BY <1>1, DivGrows
  <1> QED
    BY <1>5, <1>6

\* A walk of a bucket meets the events of that bucket and no others.
LEMMA WalkIsExact ==
  ASSUME InitSizeFits, TypeInv, NEW i \in Nat, i < 2^WordBits
  PROVE  BucketEvents(i) = {x \in Linked : BucketOf(x) = i}
  <1>1. \A x \in Linked : x \in Reached
    BY DEF Linked, TypeInv, TypeOwn, TypeQueue, Reached
  <1>2. ASSUME NEW x \in Linked, access_hashtable(BucketOf(x), InitSize) = access_hashtable(i, InitSize)
        PROVE  BucketOf(x) = i
    <2>1. x \in Reached /\ x \in Nat
      BY <1>1, TimesNat
    <2>2. BucketOf(x) \in Nat /\ BucketOf(x) < 2^WordBits
      BY <2>1, HashNat, DriverAssumption DEF BucketOf
    <2> QED
      BY <1>2, <2>2, CellsApart
  <1> QED
    BY <1>2 DEF BucketEvents

-----------------------------------------------------------------------------
\* What a thread has in hand, wherever the queue puts it.

\* What a thread enqueues is not before its cell, and neither is its local_min;
\* the cell is a timestamp until the thread has ended.
Hand(t) ==
  /\ pc[t] \in {"insert", "flush"} => array[t] <= timestamp[t]
  /\ Free(t) => array[t] <= local_min[t]
  /\ pc[t] # "done" => array[t] \in Reached

HandInv == \A t \in Threads : Hand(t)

\* Every step keeps it.
LEMMA HandStep ==
  ASSUME SafetyCheck, TypeInv, PhaseInv, StartInv, WaitInv, HandInv, NEW t \in Threads, Step(t)
  PROVE  HandInv'
  <1>y. /\ pc \in [Threads -> Locations] /\ array \in [Threads -> Times]
        /\ timestamp \in [Threads -> Reached] /\ draining \in [Threads -> BOOLEAN]
        /\ local_min \in [Threads -> Reached] /\ local_min[t] \in Reached /\ timestamp[t] \in Reached
    BY DEF TypeInv, TypeCells, TypePc, TypeOwn
  <1>n. array[t] \in Nat /\ timestamp[t] \in Nat /\ local_min[t] \in Nat /\ \A x \in Timestamps : x \in Nat
    BY <1>y, TimesNat, DriverAssumption
  <1>h. Hand(t)
    BY DEF HandInv
  <1>w. /\ pc[t] \in {"check", "wait"} => array[t] = timestamp[t]
        /\ pc[t] \in {"start", "loop", "insert", "flush", "help", "help_move", "check", "wait",
                      "min", "prune", "count", "sum"} =>
             ~draining[t]
    BY DEF WaitInv, PhaseInv
  <1>a. AfterOperation(t) => pc' = [pc EXCEPT ![t] = "min"] \/ pc' = [pc EXCEPT ![t] = "count"]
    BY AfterOperationIs
  <1> DEFINE Goal == Hand(t)'
  <1> USE DEF Hand, Free, Waiting, vars, queue, cursor, sizes, lists, cells, loop, own, Goto, Set
  <1>1. ASSUME Start(t) PROVE Goal
    <2>1. array' = array
      BY <1>1, <1>y DEF Start, StartInv
    <2> QED
      BY <1>1, <2>1, <1>y, <1>h, <1>w DEF Start
  <1>2. ASSUME CallEnqueue(t) PROVE Goal
    BY <1>2, <1>y, <1>h, <1>w, <1>n DEF CallEnqueue
  <1>3. ASSUME Insert(t) PROVE Goal
    BY <1>3, <1>y, <1>h, <1>w DEF Insert
  <1>4. ASSUME Flush(t) PROVE Goal
    <2>1. /\ EndEnqueue(t) /\ array' = array /\ draining' = draining /\ pc[t] \in {"insert", "flush"}
      BY <1>4 DEF Flush
    <2>2. /\ local_min' = [local_min EXCEPT ![t] = timestamp[t]]
          /\ pc'[t] \in {"help", "min", "count"}
      BY <2>1, <1>y, <1>a, EndEnqueueIs
    <2> QED
      BY <2>1, <2>2, <1>y, <1>h, <1>w
  <1>5. ASSUME DeqRead(t) PROVE Goal
    <2>1. /\ pc' = [pc EXCEPT ![t] = "scan"] /\ pc[t] \in {"loop", "read"}
          /\ array' = array /\ local_min' = local_min
          /\ \/ draining' = draining
             \/ ~draining[t]
      BY <1>5, <1>w DEF DeqRead
    <2> QED
      BY <2>1, <1>y, <1>h
  <1>6. ASSUME DeqScan(t) PROVE Goal
    BY <1>6, <1>y, <1>h, <1>w DEF DeqScan
  <1>7. ASSUME DeqTake(t) PROVE Goal
    <2>1. /\ array' = array /\ local_min' = local_min /\ draining' = draining /\ pc[t] = "take"
          /\ pc' \in {[pc EXCEPT ![t] = "publish"], [pc EXCEPT ![t] = "read"]}
      BY <1>7 DEF DeqTake
    <2> QED
      BY <2>1, <1>y, <1>h
  <1>8. ASSUME DeqAdvance(t) PROVE Goal
    BY <1>8, <1>y, <1>h, <1>w DEF DeqAdvance, DrawMark
  <1>9. ASSUME DeqEmpty(t) PROVE Goal
    <2>1. /\ array' = array /\ draining' = draining /\ local_min' = local_min /\ pc[t] = "advance"
          /\ AfterOperation(t) \/ pc' = [pc EXCEPT ![t] = "finish"]
      BY <1>9 DEF DeqEmpty
    <2> QED
      BY <2>1, <1>y, <1>h, <1>a
  <1>10. ASSUME Publish(t) PROVE Goal
    <2>1. /\ ~draining[t] /\ pc' = [pc EXCEPT ![t] = "check"]
          /\ array' = [array EXCEPT ![t] = timestamp[t]] /\ draining' = draining
      BY <1>10, PublishIs
    <2> QED
      BY <2>1, <1>y
  <1>11. ASSUME PublishDraining(t) PROVE Goal
    BY <1>11, <1>y, <1>h, <1>w, <1>n DEF PublishDraining
  <1>12. ASSUME CheckGVT(t) PROVE Goal
    BY <1>12, <1>y, <1>h, <1>w DEF CheckGVT
  <1>13. ASSUME WaitForCell(t) PROVE Goal
    BY <1>13, <1>y, <1>h, <1>w DEF WaitForCell
  <1>14. ASSUME Spin(t) PROVE Goal
    BY <1>14, <1>y, <1>h, <1>w DEF Spin
  <1>15. ASSUME WriteGVT(t) PROVE Goal
    <2>1. /\ AfterOperation(t) /\ pc[t] = "wait" /\ array' = array /\ draining' = draining
          /\ local_min' = [local_min EXCEPT ![t] = timestamp[t]]
      BY <1>15 DEF WriteGVT
    <2> QED
      BY <2>1, <1>y, <1>n, <1>h, <1>w, <1>a
  <1>16. ASSUME ReadMin(t) PROVE Goal
    BY <1>16, <1>y, <1>h, <1>w DEF ReadMin
  <1>17. ASSUME CallPrune(t) PROVE Goal
    BY <1>17, <1>y, <1>h, <1>w DEF CallPrune
  <1>18. ASSUME PruneBucket(t) PROVE Goal
    BY <1>18, <1>y, <1>h, <1>w DEF PruneBucket
  <1>19. ASSUME Count(t) PROVE Goal
    BY <1>19, <1>y, <1>h, <1>w DEF Count, LogCondition
  <1>20. ASSUME SumOps(t) PROVE Goal
    BY <1>20, <1>y, <1>h, <1>w DEF SumOps
  <1>21. ASSUME Finish(t) PROVE Goal
    BY <1>21, <1>y, <1>h, <1>w, <1>n DEF Finish, PhaseInv
  <1>22. ASSUME Growth(t) PROVE Goal
    <2>1. array' = array /\ draining' = draining /\ local_min' = local_min
      BY <1>22, GrowthIs
    <2>2. /\ pc'[t] \notin {"insert", "flush", "check", "wait", "done"}
          /\ pc[t] \notin {"check", "wait", "done"}
      BY <1>22, GrowthIs, <1>y
    <2> QED
      BY <2>1, <2>2, <1>h
  <1>23. ASSUME InsertFuture(t) PROVE Goal
    <2>1. /\ EndEnqueue(t) /\ array' = array /\ draining' = draining /\ pc[t] \in {"insert", "flush"}
      BY <1>23, InsertFutureIs
    <2>2. /\ local_min' = [local_min EXCEPT ![t] = timestamp[t]]
          /\ pc'[t] \in {"help", "min", "count"}
      BY <2>1, <1>y, <1>a, EndEnqueueIs
    <2> QED
      BY <2>1, <2>2, <1>y, <1>h, <1>w
  <1>24. ASSUME EndHelp(t) PROVE Goal
    <2>1. /\ array' = array /\ draining' = draining /\ local_min' = local_min
          /\ pc[t] = "help" /\ AfterOperation(t)
      BY <1>24 DEF EndHelp
    <2> QED
      BY <2>1, <1>y, <1>h, <1>a
  <1> HIDE DEF Goal
  <1>25. Goal
    BY <1>1, <1>2, <1>3, <1>4, <1>5, <1>6, <1>7, <1>8, <1>9, <1>10, <1>11, <1>12,
       <1>13, <1>14, <1>15, <1>16, <1>17, <1>18, <1>19, <1>20, <1>21, <1>22, <1>23, <1>24
    DEF Step, Growth
  <1>26. \A v \in Threads \ {t} : Hand(v) => Hand(v)'
    BY OneThread
  <1> QED
    BY <1>25, <1>26 DEF Goal, HandInv

-----------------------------------------------------------------------------
\* What is in the table.

\* Before an expansion ends, what the to-do list holds is beyond the table of
\* dequeue().  So what a thread takes or has published is of the table, and what
\* it carries to its new bucket is not before its cell.
TodoBeyond == \A ts \in Timestamps : todo[ts] > 0 => BucketOf(ts) >= dequeue_size

InTable(t) ==
  /\ pc[t] # "done" => BucketOf(array[t]) < dequeue_size
  /\ pc[t] \in {"take", "publish", "check", "wait"} => BucketOf(timestamp[t]) < dequeue_size
  /\ pc[t] \in {"move", "help_move"} /\ ~draining[t] => BucketOf(array[t]) <= BucketOf(timestamp[t])

InTableInv == TodoBeyond /\ \A t \in Threads : InTable(t)

\* Every step keeps the to-do list beyond the table.
LEMMA TodoStep ==
  ASSUME TypeInv, SizeInv, TodoBeyond, [Next]_vars
  PROVE  TodoBeyond'
  <1>y. /\ todo \in [Timestamps -> Nat] /\ \A ts \in Timestamps : BucketOf(ts) \in Nat
        /\ dequeue_size \in Nat \ {0} /\ table_size \in {dequeue_size, 2 * dequeue_size}
    BY BucketNat DEF TypeInv, TypeQueue, Reached
  <1> USE DEF TodoBeyond
  <1>p. ASSUME NEW ts \in Timestamps, Push(ts), dequeue_size' = dequeue_size PROVE TodoBeyond'
    <2>1. CASE todo' = todo
      BY <1>p, <2>1
    <2>2. CASE ~closed /\ 2 * BucketOf(ts) >= table_size /\ todo' = OneMore(todo, ts)
      <3>1. BucketOf(ts) >= dequeue_size
        BY <2>2, <1>y DEF TypeInv, TableInv
      <3>2. todo' = [todo EXCEPT ![ts] = todo[ts] + 1]
        BY <2>2 DEF OneMore, Set
      <3> QED
        BY <1>p, <3>1, <3>2, <1>y
    <2> QED
      BY <1>p, <2>1, <2>2 DEF Push
  <1>1. ASSUME NEW t \in Threads, ExpandSwap(t) PROVE TodoBeyond'
    <2>1. dequeue_size' = dequeue_size /\ pc[t] = "expand"
      BY <1>1 DEF ExpandSwap
    <2>2. CASE table_size = old_size(t)
      <3>1. todo' = future
        BY <1>1, <2>2, Zenon DEF ExpandSwap
      <3> QED
        BY <2>1, <3>1, <1>y DEF SizeInv
    <2>3. CASE table_size # old_size(t)
      BY <1>1, <2>1, <2>3 DEF ExpandSwap, lists
    <2> QED
      BY <2>2, <2>3
  <1>2. ASSUME NEW t \in Threads, DeqExpand(t) \/ ExpandClose(t) PROVE TodoBeyond'
    BY <1>2 DEF DeqExpand, ExpandClose, queue, sizes, lists
  <1>3. ASSUME NEW t \in Threads, Pop(t) PROVE TodoBeyond'
    <2>1. PICK ts \in Timestamps : todo[ts] > 0 /\ todo' = [todo EXCEPT ![ts] = todo[ts] - 1]
      BY <1>3 DEF Pop, OneLess, Set
    <2>2. dequeue_size' = dequeue_size
      BY <1>3 DEF Pop, sizes
    <2> QED
      BY <2>1, <2>2, <1>y
  <1>4. ASSUME NEW t \in Threads, Move(t) PROVE TodoBeyond'
    <2>1. dequeue_size' = dequeue_size /\ timestamp[t] \in Timestamps /\ (todo' = todo \/ Push(timestamp[t]))
      BY <1>4 DEF Move, sizes, TypeInv, TypeOwn, InHand
    <2> QED
      BY <2>1, <1>p
  <1>5. ASSUME NEW t \in Threads, ExpandSize(t) PROVE TodoBeyond'
    <2>1. todo = NoEvents /\ todo' = todo
      BY <1>5 DEF ExpandSize, lists
    <2> QED
      BY <2>1 DEF NoEvents
  <1>6. ASSUME NEW t \in Threads, InsertFuture(t) PROVE TodoBeyond'
    <2>1. dequeue_size' = dequeue_size /\ pc[t] = "insert" /\ Push(timestamp[t])
      BY <1>6, InsertFutureIs
    <2> QED
      BY <2>1, <1>p DEF TypeInv, TypeOwn, InHand
  <1>7. ASSUME NEW t \in Threads, Step(t), ~Growth(t), ~InsertFuture(t) PROVE TodoBeyond'
    BY <1>7, TableKept
  <1>8. CASE Frozen
    BY <1>8 DEF Frozen, queue, sizes, lists
  <1> QED
    BY <1>1, <1>2, <1>3, <1>4, <1>5, <1>6, <1>7, <1>8, NextCases DEF Growth

\* The table of dequeue() never shrinks.
LEMMA TableGrows ==
  ASSUME TypeInv, NEW t \in Threads, Step(t)
  PROVE  dequeue_size' \in Nat /\ dequeue_size <= dequeue_size'
  <1>y. dequeue_size \in Nat
    BY DEF TypeInv, TypeQueue
  <1>1. CASE ExpandSize(t)
    BY <1>1, <1>y DEF ExpandSize
  <1>2. CASE DeqExpand(t) \/ ExpandSwap(t) \/ ExpandClose(t) \/ Pop(t) \/ Move(t)
    BY <1>2, <1>y DEF DeqExpand, ExpandSwap, ExpandClose, Pop, Move, queue, sizes
  <1>3. CASE InsertFuture(t)
    BY <1>3, <1>y, InsertFutureIs
  <1>4. CASE ~Growth(t) /\ ~InsertFuture(t)
    BY <1>4, <1>y, TableKept
  <1> QED
    BY <1>1, <1>2, <1>3, <1>4 DEF Growth

\* The bucket of zero is the first.
LEMMA FirstBucket == BucketOf(0) = 0
  <1>1. \A w \in Nat \ {0} : 0 \div w = 0
    OBVIOUS
  <1>2. 2^WordBits \in Nat /\ 0 < 2^WordBits
    BY WordAssumption, PowerAbove
  <1>3. \A p \in Nat : 0 < p => 0 % p = 0
    OBVIOUS
  <1> QED
    BY <1>1, <1>2, <1>3, DriverAssumption DEF BucketOf, hash

\* Every step keeps what a thread takes and carries in place.
LEMMA InTableStep ==
  ASSUME InitSizeFits, SafetyCheck, TypeInv, SizeInv, PhaseInv, StartInv, InTableInv,
         NEW t \in Threads, Step(t)
  PROVE  InTableInv'
  <1>y. /\ pc \in [Threads -> Locations] /\ array \in [Threads -> Times] /\ dequeue_size \in Nat \ {0}
        /\ timestamp \in [Threads -> Reached] /\ draining \in [Threads -> BOOLEAN]
    BY DEF TypeInv, TypeCells, TypePc, TypeOwn, TypeQueue
  <1>b. /\ \A x \in Times : BucketOf(x) \in Nat
        /\ \A x \in Timestamps : BucketOf(x) \in Nat
    <2>1. \A x \in Times : x \in Nat /\ BucketOf(x) \in Nat
      BY TimesNat, HashNat, DriverAssumption DEF BucketOf
    <2> QED
      BY <2>1 DEF Times, Reached
  <1>d. dequeue_size' \in Nat /\ dequeue_size <= dequeue_size'
    BY TableGrows
  <1>h. InTable(t)
    BY DEF InTableInv
  <1>n. pc[t] # "done" /\ BucketOf(array[t]) \in Nat /\ BucketOf(timestamp[t]) \in Nat
    <2>1. pc[t] # "done"
      BY DEF Step, Start, CallEnqueue, Insert, InsertFuture, Flush, EndHelp, DeqRead, DeqScan, DeqTake,
             DeqAdvance, DeqEmpty, DeqExpand, ExpandSwap, ExpandClose, Pop, Move, ExpandSize, Publish,
             PublishDraining, CheckGVT, WaitForCell, Spin, WriteGVT, ReadMin, CallPrune, PruneBucket,
             Count, SumOps, Finish
    <2> QED
      BY <2>1, <1>y, <1>b DEF Times
  <1>a. AfterOperation(t) => pc'[t] \in {"min", "count"}
    BY <1>y, AfterOperationIs
  <1> DEFINE Goal == InTable(t)'
  <1> USE DEF vars, queue, cursor, sizes, lists, cells, loop, own, Goto, Set
  \* The steps to a place where nothing of the table is in hand.
  <1>k. ASSUME array'[t] = array[t],
               pc'[t] \notin {"take", "publish", "check", "wait", "move", "help_move"}
        PROVE  Goal
    BY <1>k, <1>h, <1>n, <1>d, <1>y DEF InTable
  <1>1. ASSUME Start(t) PROVE Goal
    <2>1. array' = array /\ pc'[t] = "loop"
      BY <1>1, <1>y DEF Start, StartInv
    <2> QED
      BY <2>1, <1>k
  <1>2. ASSUME CallEnqueue(t) \/ Insert(t) \/ DeqRead(t) PROVE Goal
    BY <1>2, <1>k, <1>y DEF CallEnqueue, Insert, DeqRead
  <1>3. ASSUME Flush(t) \/ InsertFuture(t) PROVE Goal
    <2>1. EndEnqueue(t) /\ array' = array
      BY <1>3, InsertFutureIs DEF Flush
    <2>2. pc'[t] \in {"help", "min", "count"}
      BY <2>1, <1>y, <1>a, EndEnqueueIs
    <2> QED
      BY <2>1, <2>2, <1>k
  <1>4. ASSUME EndHelp(t) \/ WriteGVT(t) PROVE Goal
    BY <1>4, <1>k, <1>a DEF EndHelp, WriteGVT
  <1>5. ASSUME DeqEmpty(t) PROVE Goal
    <2>1. array' = array /\ (AfterOperation(t) \/ pc' = [pc EXCEPT ![t] = "finish"])
      BY <1>5 DEF DeqEmpty
    <2> QED
      BY <2>1, <1>k, <1>a, <1>y
  <1>6. ASSUME DeqScan(t) PROVE Goal
    <2>1. array' = array
      BY <1>6 DEF DeqScan
    <2>2. CASE BucketEvents(oldCur[t].index) = {}
      BY <1>6, <2>1, <2>2, <1>k, <1>y DEF DeqScan
    <2>3. CASE BucketEvents(oldCur[t].index) # {}
      <3> DEFINE i == oldCur[t].index
                 x == Min(BucketEvents(i))
      <3>1. timestamp' = [timestamp EXCEPT ![t] = x] /\ pc' = [pc EXCEPT ![t] = "take"]
        BY <1>6, <2>3 DEF DeqScan
      <3>2. i \in Nat /\ i < dequeue_size /\ i < 2^WordBits
        <4>1. oldCur[t] \in Cursors /\ i < dequeue_size
          BY DEF TypeInv, TypeQueue
        <4>2. dequeue_size <= 2^WordBits /\ 2^WordBits \in Nat
          BY <1>y, SizeInWord, PowerAbove, WordAssumption DEF SizeInv
        <4> QED
          BY <4>1, <4>2, <1>y DEF Cursors
      <3>3. BucketEvents(i) \in SUBSET Nat
        <4>1. \A z \in Linked : z \in Reached
          BY DEF Linked, TypeInv, TypeOwn, TypeQueue, Reached
        <4> QED
          BY <4>1, TimesNat DEF BucketEvents
      <3>4. x \in BucketEvents(i)
        BY <2>3, <3>3, MinIs
      <3> HIDE DEF i, x
      <3>5. BucketOf(x) = i
        BY <3>2, <3>4, WalkIsExact
      <3>6. timestamp'[t] = x /\ pc'[t] = "take"
        BY <3>1, <1>y
      <3> QED
        BY <2>1, <3>2, <3>5, <3>6, <1>h, <1>n, <1>d, <1>y DEF InTable
    <2> QED
      BY <2>2, <2>3
  <1>7. ASSUME DeqTake(t) PROVE Goal
    <2>1. array' = array /\ pc[t] = "take"
          /\ \/ pc' = [pc EXCEPT ![t] = "read"]
             \/ pc' = [pc EXCEPT ![t] = "publish"] /\ timestamp' = timestamp
      BY <1>7 DEF DeqTake
    <2> QED
      BY <2>1, <1>h, <1>n, <1>d, <1>y DEF InTable
  <1>8. ASSUME DeqAdvance(t) PROVE Goal
    BY <1>8, <1>k, <1>y DEF DeqAdvance
  <1>9. ASSUME Publish(t) PROVE Goal
    <2>1. /\ pc[t] = "publish" /\ pc' = [pc EXCEPT ![t] = "check"]
          /\ array' = [array EXCEPT ![t] = timestamp[t]] /\ timestamp' = timestamp
      BY <1>9, PublishIs
    <2> QED
      BY <2>1, <1>h, <1>n, <1>d, <1>y DEF InTable
  <1>10. ASSUME PublishDraining(t) PROVE Goal
    <2>1. /\ pc[t] = "publish" /\ pc'[t] \in {"read", "finish"}
          /\ array' = [array EXCEPT ![t] = timestamp[t]]
      BY <1>10, <1>y DEF PublishDraining
    <2> QED
      BY <2>1, <1>h, <1>n, <1>d, <1>y DEF InTable
  <1>11. ASSUME CheckGVT(t) \/ WaitForCell(t) \/ Spin(t) PROVE Goal
    <2>1. /\ pc[t] \in {"check", "wait"} /\ pc'[t] = "wait"
          /\ array' = array /\ timestamp' = timestamp
      BY <1>11, <1>y DEF CheckGVT, WaitForCell, Spin
    <2> QED
      BY <2>1, <1>h, <1>n, <1>d, <1>y DEF InTable
  <1>12. ASSUME ReadMin(t) \/ CallPrune(t) \/ PruneBucket(t) \/ Count(t) \/ SumOps(t) PROVE Goal
    BY <1>12, <1>k, <1>y DEF ReadMin, CallPrune, PruneBucket, Count, SumOps
  <1>13. ASSUME Finish(t) PROVE Goal
    BY <1>13, <1>y DEF Finish, InTable
  <1>14. ASSUME Pop(t) PROVE Goal
    <2>1. PICK ts \in Timestamps : todo[ts] > 0 /\ timestamp' = [timestamp EXCEPT ![t] = ts]
      BY <1>14 DEF Pop
    <2>2. array' = array /\ draining' = draining /\ pc'[t] \in {"move", "help_move"}
      BY <1>14, <1>y DEF Pop
    <2>3. BucketOf(ts) >= dequeue_size /\ BucketOf(ts) \in Nat
      BY <2>1, <1>b DEF InTableInv, TodoBeyond
    <2>4. timestamp'[t] = ts
      BY <2>1, <1>y
    <2> QED
      BY <2>2, <2>3, <2>4, <1>h, <1>n, <1>d, <1>y DEF InTable
  <1>15. ASSUME Growth(t) /\ ~Pop(t) PROVE Goal
    <2>1. array' = array
      BY <1>15, GrowthIs
    <2>2. pc'[t] \notin {"take", "publish", "check", "wait", "move", "help_move"}
      BY <1>15, <1>y DEF Growth, DeqExpand, ExpandSwap, ExpandClose, Move, ExpandSize
    <2> QED
      BY <2>1, <2>2, <1>k
  <1> HIDE DEF Goal
  <1>16. Goal
    BY <1>1, <1>2, <1>3, <1>4, <1>5, <1>6, <1>7, <1>8, <1>9, <1>10, <1>11, <1>12, <1>13, <1>14, <1>15
    DEF Step, Growth
  <1>17. ASSUME NEW v \in Threads \ {t} PROVE InTable(v)'
    <2>1. InTable(v)
      BY DEF InTableInv
    <2>2. /\ pc'[v] = pc[v] /\ array'[v] = array[v] /\ timestamp'[v] = timestamp[v] /\ draining'[v] = draining[v]
      BY OneThread
    <2>3. BucketOf(array[v]) \in Nat /\ BucketOf(timestamp[v]) \in Nat
      BY <1>y, <1>b DEF Times
    <2> QED
      BY <2>1, <2>2, <2>3, <1>d, <1>y DEF InTable
  <1>18. TodoBeyond'
    <2>1. [Next]_vars
      BY DEF Next
    <2> QED
      BY <2>1, TodoStep DEF InTableInv
  <1> QED
    BY <1>16, <1>17, <1>18 DEF Goal, InTableInv

\* The first node of a walk is an event of the bucket.
LEMMA ScannedIs ==
  ASSUME InitSizeFits, TypeInv, SizeInv, NEW t \in Threads, BucketEvents(oldCur[t].index) # {}
  PROVE  LET x == Min(BucketEvents(oldCur[t].index))
         IN  /\ x \in Linked /\ BucketOf(x) = oldCur[t].index
             /\ \A y \in BucketEvents(oldCur[t].index) : x <= y
  <1> DEFINE i == oldCur[t].index
             x == Min(BucketEvents(i))
  <1>1. i \in Nat /\ i < 2^WordBits
    <2>1. oldCur[t] \in Cursors /\ i < dequeue_size /\ dequeue_size \in Nat
      BY DEF TypeInv, TypeQueue
    <2>2. dequeue_size <= 2^WordBits /\ 2^WordBits \in Nat
      BY <2>1, SizeInWord, PowerAbove, WordAssumption DEF SizeInv
    <2> QED
      BY <2>1, <2>2 DEF Cursors
  <1>2. BucketEvents(i) \in SUBSET Nat
    <2>1. \A z \in Linked : z \in Reached
      BY DEF Linked, TypeInv, TypeOwn, TypeQueue, Reached
    <2> QED
      BY <2>1, TimesNat DEF BucketEvents
  <1>3. x \in BucketEvents(i) /\ \A y \in BucketEvents(i) : x <= y
    BY <1>2, MinIs
  <1> HIDE DEF i, x
  <1>4. BucketEvents(i) = {y \in Linked : BucketOf(y) = i}
    BY <1>1, WalkIsExact
  <1>5. x \in Linked /\ BucketOf(x) = i
    BY <1>3, <1>4
  <1> QED
    BY <1>3, <1>5 DEF i, x

-----------------------------------------------------------------------------
\* Where current is.

\* Between its read of current and the end of the walk or of an expansion.
Walking == {"scan", "take", "advance", "expand", "close", "empty", "move"}

\* x has nothing behind current.
Near(x) ==
  /\ pc[x] \notin {"finish", "done"}
  /\ BucketOf(array[x]) <= current.index
  /\ pc[x] \in Walking => oldCur[x].index <= current.index
  /\ pc[x] \in {"take", "publish"} => BucketOf(timestamp[x]) <= current.index

\* As long as a thread has not ended, some thread is near; and a thread that
\* waits with a timestamp beyond current waits for one.
NearInv ==
  /\ (\E x \in Threads : Near(x)) \/ \A x \in Threads : pc[x] \in {"finish", "done"}
  /\ \A t \in Threads : pc[t] = "wait" =>
       BucketOf(timestamp[t]) <= current.index \/ \E x \in others[t] : Near(x)

\* current is not before GVT, so a walk does not begin before its thread's cell.
CursorAt ==
  /\ BucketOf(GVT) <= current.index
  /\ \A t \in Threads : ~draining[t] /\ pc[t] \in {"scan", "take"} =>
       BucketOf(array[t]) <= oldCur[t].index

\* Only a flush moves current back, to the bucket of its event.
LEMMA CurrentStep ==
  ASSUME TypeInv, NEW t \in Threads, Step(t)
  PROVE  /\ current'.index \in Nat
         /\ \/ current.index <= current'.index
            \/ Flush(t) /\ current'.index = BucketOf(timestamp[t])
  <1>y. current \in Cursors /\ current.index \in Nat /\ oldCur[t] \in Cursors /\ oldCur[t].index \in Nat
    BY DEF TypeInv, TypeQueue, Cursors
  <1>1. CASE Flush(t)
    <2>1. timestamp[t] \in Timestamps
      BY <1>1 DEF Flush, TypeInv, TypeOwn, InHand
    <2>2. BucketOf(timestamp[t]) \in Nat
      BY <2>1, BucketNat DEF Reached
    <2>3. current' = current \/ current'.index = BucketOf(timestamp[t])
      BY <1>1 DEF Flush, Drawn
    <2> QED
      BY <1>1, <1>y, <2>2, <2>3
  <1>2. CASE DeqAdvance(t)
    <2>1. current' = current \/ (current = oldCur[t] /\ current'.index = oldCur[t].index + 1)
      BY <1>2 DEF DeqAdvance, Drawn
    <2> QED
      BY <1>y, <2>1
  <1>3. CASE Growth(t) \/ InsertFuture(t)
    BY <1>3, <1>y, GrowthIs, InsertFutureIs
  <1>4. CASE ~(Flush(t) \/ DeqAdvance(t) \/ Growth(t) \/ InsertFuture(t))
    <2>1. current' = current
      BY <1>4 DEF Step, Growth, vars, queue, cursor, Start, CallEnqueue, Insert, EndHelp, DeqRead, DeqScan,
             DeqTake, DeqEmpty, Publish, PublishDraining, CheckGVT, WaitForCell, Spin, WriteGVT, ReadMin,
             CallPrune, PruneBucket, Count, SumOps, Finish
    <2> QED
      BY <1>y, <2>1
  <1> QED
    BY <1>1, <1>2, <1>3, <1>4

\* A thread that is near stays so until current moves back or its drain loop
\* ends.
LEMMA NearOwn ==
  ASSUME InitSizeFits, SafetyCheck, EmptyQueue, TypeInv, SizeInv, StartInv,
         NEW t \in Threads, Step(t), Near(t), current.index <= current'.index, current'.index \in Nat,
         ~(DeqEmpty(t) /\ draining[t])
  PROVE  Near(t)'
  <1>y. /\ pc \in [Threads -> Locations] /\ array \in [Threads -> Times] /\ dequeue_size \in Nat \ {0}
        /\ timestamp \in [Threads -> Reached] /\ draining \in [Threads -> BOOLEAN]
        /\ oldCur \in [Threads -> Cursors] /\ oldCur[t] \in Cursors /\ oldCur[t].index \in Nat
        /\ current \in Cursors /\ current.index \in Nat
    BY DEF TypeInv, TypeCells, TypePc, TypeOwn, TypeQueue, Cursors
  <1>b. BucketOf(array[t]) \in Nat /\ BucketOf(timestamp[t]) \in Nat
    <2>1. \A x \in Times : BucketOf(x) \in Nat
      BY TimesNat, HashNat, DriverAssumption DEF BucketOf
    <2> QED
      BY <2>1, <1>y DEF Times
  <1>h. /\ pc[t] \notin {"finish", "done"}
        /\ BucketOf(array[t]) <= current'.index
        /\ pc[t] \in Walking => oldCur[t].index <= current'.index
        /\ pc[t] \in {"take", "publish"} => BucketOf(timestamp[t]) <= current'.index
    BY <1>y, <1>b DEF Near
  <1>a. AfterOperation(t) => pc'[t] \in {"min", "count"}
    BY <1>y, AfterOperationIs
  <1> DEFINE Goal == Near(t)'
  <1> USE DEF vars, queue, cursor, sizes, lists, cells, loop, own, Goto, Set
  \* The steps to a place outside the walk.
  <1>k. ASSUME array'[t] = array[t], pc'[t] \notin Walking \cup {"publish", "finish", "done"}
        PROVE  Goal
    BY <1>k, <1>h DEF Near, Walking
  <1> USE DEF Walking
  <1>1. ASSUME Start(t) PROVE Goal
    <2>1. array' = array /\ pc'[t] = "loop"
      BY <1>1, <1>y DEF Start, StartInv
    <2> QED
      BY <2>1, <1>k
  <1>2. ASSUME CallEnqueue(t) \/ Insert(t) PROVE Goal
    BY <1>2, <1>k, <1>y DEF CallEnqueue, Insert
  <1>3. ASSUME Flush(t) \/ InsertFuture(t) PROVE Goal
    <2>1. EndEnqueue(t) /\ array' = array
      BY <1>3, InsertFutureIs DEF Flush
    <2>2. pc'[t] \in {"help", "min", "count"}
      BY <2>1, <1>y, <1>a, EndEnqueueIs
    <2> QED
      BY <2>1, <2>2, <1>k
  <1>4. ASSUME EndHelp(t) \/ WriteGVT(t) PROVE Goal
    BY <1>4, <1>k, <1>a DEF EndHelp, WriteGVT
  <1>5. ASSUME DeqEmpty(t) PROVE Goal
    <2>1. array' = array /\ AfterOperation(t)
      BY <1>5 DEF DeqEmpty
    <2> QED
      BY <2>1, <1>k, <1>a
  <1>6. ASSUME DeqRead(t) PROVE Goal
    <2>1. array' = array /\ oldCur' = [oldCur EXCEPT ![t] = current] /\ pc'[t] = "scan"
      BY <1>6, <1>y DEF DeqRead
    <2>2. oldCur'[t].index <= current'.index
      BY <2>1, <1>y
    <2> QED
      BY <2>1, <2>2, <1>h DEF Near
  <1>7. ASSUME DeqScan(t) PROVE Goal
    <2>1. array' = array /\ oldCur' = oldCur /\ pc[t] = "scan"
      BY <1>7 DEF DeqScan
    <2>2. CASE BucketEvents(oldCur[t].index) = {}
      <3>1. pc'[t] = "advance"
        BY <1>7, <2>2, <1>y DEF DeqScan
      <3> QED
        BY <2>1, <3>1, <1>h DEF Near
    <2>3. CASE BucketEvents(oldCur[t].index) # {}
      <3> DEFINE i == oldCur[t].index
      <3>1. timestamp' = [timestamp EXCEPT ![t] = Min(BucketEvents(i))] /\ pc'[t] = "take"
        BY <1>7, <2>3, <1>y DEF DeqScan
      <3>2. BucketOf(Min(BucketEvents(i))) = i
        BY <2>3, ScannedIs
      <3> HIDE DEF i
      <3>3. BucketOf(timestamp'[t]) = i
        BY <3>1, <3>2, <1>y
      <3>4. i <= current'.index
        BY <2>1, <1>h DEF i
      <3>5. oldCur'[t].index <= current'.index
        BY <2>1, <1>h
      <3> QED
        BY <2>1, <3>1, <3>3, <3>4, <3>5, <1>h DEF Near
    <2> QED
      BY <2>2, <2>3
  <1>8. ASSUME DeqTake(t) PROVE Goal
    <2>1. array' = array /\ pc[t] = "take"
          /\ \/ pc'[t] = "read"
             \/ pc'[t] = "publish" /\ timestamp' = timestamp
      BY <1>8, <1>y DEF DeqTake
    <2> QED
      BY <2>1, <1>h DEF Near
  <1>9. ASSUME DeqAdvance(t) PROVE Goal
    BY <1>9, <1>k, <1>y DEF DeqAdvance
  <1>10. ASSUME Publish(t) PROVE Goal
    <2>1. /\ pc[t] = "publish" /\ pc' = [pc EXCEPT ![t] = "check"]
          /\ array' = [array EXCEPT ![t] = timestamp[t]]
      BY <1>10, PublishIs
    <2>2. pc'[t] = "check" /\ array'[t] = timestamp[t]
      BY <2>1, <1>y
    <2> QED
      BY <2>1, <2>2, <1>h DEF Near
  <1>11. ASSUME PublishDraining(t) PROVE Goal
    <2>1. /\ pc[t] = "publish" /\ pc'[t] = "read" /\ array'[t] = timestamp[t]
      BY <1>11, <1>y DEF PublishDraining
    <2> QED
      BY <2>1, <1>h DEF Near
  <1>12. ASSUME CheckGVT(t) \/ WaitForCell(t) \/ Spin(t) PROVE Goal
    <2>1. pc'[t] = "wait" /\ array' = array
      BY <1>12, <1>y DEF CheckGVT, WaitForCell, Spin
    <2> QED
      BY <2>1, <1>k
  <1>13. ASSUME ReadMin(t) \/ CallPrune(t) \/ PruneBucket(t) \/ Count(t) \/ SumOps(t) PROVE Goal
    BY <1>13, <1>k, <1>y DEF ReadMin, CallPrune, PruneBucket, Count, SumOps
  <1>14. ASSUME Finish(t) PROVE Goal
    BY <1>14, <1>h DEF Finish
  <1>15. ASSUME Growth(t) PROVE Goal
    <2>1. array' = array /\ oldCur' = oldCur
      BY <1>15, GrowthIs
    <2>2. \/ pc[t] \in Walking /\ pc'[t] \in Walking \ {"take"}
          \/ pc'[t] \in {"help", "help_move"}
      BY <1>15, <1>y, GrowthIs
    <2> QED
      BY <2>1, <2>2, <1>h, <1>k DEF Near
  <1> HIDE DEF Goal
  <1>16. Goal
    BY <1>1, <1>2, <1>3, <1>4, <1>5, <1>6, <1>7, <1>8, <1>9, <1>10, <1>11, <1>12, <1>13, <1>14, <1>15
    DEF Step, Growth
  <1> QED
    BY <1>16 DEF Goal

\* So every thread that is near stays so.
LEMMA NearKept ==
  ASSUME InitSizeFits, SafetyCheck, EmptyQueue, TypeInv, SizeInv, StartInv,
         NEW t \in Threads, Step(t), NEW x \in Threads, Near(x), current.index <= current'.index,
         ~(DeqEmpty(t) /\ draining[t] /\ x = t)
  PROVE  Near(x)'
  <1>y. /\ current'.index \in Nat /\ current.index \in Nat
        /\ oldCur[x].index \in Nat /\ BucketOf(array[x]) \in Nat /\ BucketOf(timestamp[x]) \in Nat
    <2>1. \A z \in Times : BucketOf(z) \in Nat
      BY TimesNat, HashNat, DriverAssumption DEF BucketOf
    <2>2. array[x] \in Times /\ timestamp[x] \in Times /\ oldCur[x] \in Cursors /\ current \in Cursors
      BY DEF TypeInv, TypeCells, TypeOwn, TypeQueue, Times
    <2> QED
      BY <2>1, <2>2, CurrentStep DEF Cursors
  <1>1. CASE x = t
    BY <1>1, <1>y, NearOwn
  <1>2. CASE x # t
    <2>1. pc'[x] = pc[x] /\ array'[x] = array[x] /\ timestamp'[x] = timestamp[x] /\ oldCur'[x] = oldCur[x]
      BY <1>2, OneThread
    <2> QED
      BY <2>1, <1>y DEF Near
  <1> QED
    BY <1>1, <1>2

\* Every step keeps a thread near.
LEMMA NearStep ==
  ASSUME InitSizeFits, TimestampsFit, SafetyCheck, EmptyQueue,
         TypeInv, SizeInv, PhaseInv, StartInv, WaitInv, GvtOrder, HandInv, InTableInv, NearInv,
         NEW t \in Threads, Step(t)
  PROVE  NearInv'
  <1>y. /\ pc \in [Threads -> Locations] /\ draining \in [Threads -> BOOLEAN]
        /\ others \in [Threads -> SUBSET Threads] /\ dequeue_size \in Nat \ {0}
        /\ current.index \in Nat /\ current.index < dequeue_size /\ current'.index \in Nat
        /\ \A v \in Threads : array[v] \in Nat /\ timestamp[v] \in Reached /\ timestamp[v] \in Nat
        /\ \A v \in Threads : oldCur[v].index \in Nat /\ oldCur[v].index < dequeue_size
    BY CurrentStep, TimesNat DEF TypeInv, TypePc, TypeLoop, TypeQueue, TypeCells, TypeOwn, Cursors
  <1>b. \A v \in Threads : BucketOf(array[v]) \in Nat /\ BucketOf(timestamp[v]) \in Nat
    BY <1>y, HashNat, DriverAssumption DEF BucketOf
  <1>o. \A v \in Threads \ {t} :
          /\ pc'[v] = pc[v] /\ array'[v] = array[v] /\ timestamp'[v] = timestamp[v] /\ others'[v] = others[v]
    BY OneThread
  <1>r. WaitsOrdered
    BY DEF GvtOrder, Step
  <1>n. pc[t] # "done" /\ (pc[t] = "finish" => pc'[t] = "done")
    BY <1>y DEF Step, Start, CallEnqueue, Insert, InsertFuture, Flush, EndHelp, DeqRead, DeqScan, DeqTake,
           DeqAdvance, DeqEmpty, DeqExpand, ExpandSwap, ExpandClose, Pop, Move, ExpandSize, Publish,
           PublishDraining, CheckGVT, WaitForCell, Spin, WriteGVT, ReadMin, CallPrune, PruneBucket,
           Count, SumOps, Finish, Goto
  \* What is left to show when no thread stops being near.
  <1>k. ASSUME \A x \in Threads : Near(x) => Near(x)', current.index <= current'.index,
               pc'[t] = "wait" => BucketOf(timestamp'[t]) <= current'.index \/ \E x \in others'[t] : Near(x)',
               pc[t] \in {"finish", "done"} => pc'[t] \in {"finish", "done"}
        PROVE  NearInv'
    <2>1. (\E x \in Threads : Near(x)') \/ \A x \in Threads : pc'[x] \in {"finish", "done"}
      BY <1>k, <1>o DEF NearInv
    <2>2. ASSUME NEW v \in Threads, v # t, pc'[v] = "wait"
          PROVE  BucketOf(timestamp'[v]) <= current'.index \/ \E x \in others'[v] : Near(x)'
      <3>1. BucketOf(timestamp[v]) <= current.index \/ \E x \in others[v] : Near(x)
        BY <2>2, <1>o DEF NearInv
      <3>2. others[v] \subseteq Threads
        BY <1>y
      <3> QED
        BY <1>k, <2>2, <3>1, <3>2, <1>o, <1>y, <1>b
    <2> QED
      BY <1>k, <2>1, <2>2 DEF NearInv
  <1>1. CASE ~(current.index <= current'.index)
    <2>1. /\ Flush(t) /\ current'.index = BucketOf(timestamp[t]) /\ current'.index < current.index
      BY <1>1, <1>y, CurrentStep
    <2>2. /\ pc[t] = "flush" /\ EndEnqueue(t) /\ array' = array /\ draining' = draining
          /\ ~draining[t]
      BY <2>1 DEF Flush, cells, PhaseInv
    <2>3. pc'[t] \in {"help", "min", "count"}
      BY <2>2, <1>y, EndEnqueueIs, AfterOperationIs
    <2>4. array[t] <= timestamp[t] /\ array[t] \in Reached
      BY <2>2 DEF HandInv, Hand
    <2>5. BucketOf(array[t]) <= current'.index
      BY <2>1, <2>4, <1>y, BucketsInOrder
    <2>6. Near(t)'
      BY <2>2, <2>3, <2>5 DEF Near, Walking
    <2>7. ASSUME NEW v \in Threads, pc'[v] = "wait"
          PROVE  BucketOf(timestamp'[v]) <= current'.index \/ \E x \in others'[v] : Near(x)'
      <3>1. v # t /\ pc[v] = "wait"
        BY <2>3, <2>7, <1>o
      <3>2. CASE t \in others[v]
        BY <2>6, <3>1, <3>2, <1>o
      <3>3. CASE t \notin others[v]
        <4>1. t \in Passed(v)
          BY <3>1, <3>3 DEF Passed, Others
        <4>2. array[v] <= array[t] /\ array[v] = timestamp[v]
          BY <2>2, <3>1, <4>1, <1>r DEF WaitsOrdered, WaitInv
        <4>3. timestamp[v] <= timestamp[t]
          BY <2>4, <4>2, <1>y
        <4>4. BucketOf(timestamp[v]) <= BucketOf(timestamp[t])
          BY <4>3, <1>y, BucketsInOrder
        <4> QED
          BY <2>1, <3>1, <4>4, <1>o
      <3> QED
        BY <3>2, <3>3
    <2> QED
      BY <2>6, <2>7 DEF NearInv
  <1>2. CASE DeqEmpty(t) /\ draining[t]
    <2>1. /\ current' = current /\ pc[t] = "advance" /\ pc' = [pc EXCEPT ![t] = "finish"]
          /\ oldCur[t].index + 1 >= dequeue_size
      BY <1>2 DEF DeqEmpty, queue, cursor, Goto
    <2>2. \A x \in Threads \ {t} : Near(x) => Near(x)'
      BY <2>1, NearKept, <1>y
    <2>3. CASE ~Near(t)
      <3>1. \A x \in Threads : Near(x) => Near(x)'
        BY <2>2, <2>3
      <3>2. pc'[t] = "finish"
        BY <2>1, <1>y
      <3> QED
        BY <1>k, <2>1, <3>1, <3>2, <1>y
    <2>4. CASE Near(t)
      <3>1. current.index = dequeue_size - 1
        BY <2>1, <2>4, <1>y DEF Near, Walking
      <3>2. ASSUME NEW x \in Threads, x # t, pc[x] \notin {"finish", "done"} PROVE Near(x)
        <4>1. /\ BucketOf(array[x]) < dequeue_size
              /\ pc[x] \in {"take", "publish"} => BucketOf(timestamp[x]) < dequeue_size
          BY <3>2 DEF InTableInv, InTable
        <4> QED
          BY <3>1, <3>2, <4>1, <1>y, <1>b DEF Near
      <3>3. (\E x \in Threads : Near(x)') \/ \A x \in Threads : pc'[x] \in {"finish", "done"}
        BY <2>1, <2>2, <3>2, <1>o, <1>y
      <3>4. ASSUME NEW v \in Threads, pc'[v] = "wait" PROVE BucketOf(timestamp'[v]) <= current'.index
        <4>1. v # t /\ pc[v] = "wait"
          BY <2>1, <3>4, <1>o, <1>y
        <4>2. BucketOf(timestamp[v]) < dequeue_size
          BY <4>1 DEF InTableInv, InTable
        <4> QED
          BY <2>1, <3>1, <4>1, <4>2, <1>o, <1>y, <1>b
      <3> QED
        BY <3>3, <3>4 DEF NearInv
    <2> QED
      BY <2>3, <2>4
  <1>3. CASE current.index <= current'.index /\ ~(DeqEmpty(t) /\ draining[t])
    <2>1. \A x \in Threads : Near(x) => Near(x)'
      BY <1>3, NearKept
    <2>2. pc[t] \in {"finish", "done"} => pc'[t] \in {"finish", "done"}
      BY <1>n
    <2>3. CASE CheckGVT(t)
      <3>1. /\ pc[t] = "check" /\ timestamp' = timestamp /\ others' = [others EXCEPT ![t] = Others(t)]
        BY <2>3 DEF CheckGVT, own, Set
      <3>2. PICK x \in Threads : Near(x)
        BY <3>1 DEF NearInv
      <3>3. CASE x = t
        <4>1. BucketOf(timestamp[t]) <= current.index
          BY <3>1, <3>2, <3>3 DEF Near, WaitInv
        <4> QED
          BY <1>3, <1>k, <2>1, <2>2, <3>1, <4>1, <1>y, <1>b
      <3>4. CASE x # t
        <4>1. x \in others'[t]
          BY <3>1, <3>4, <1>y DEF Others
        <4> QED
          BY <1>3, <1>k, <2>1, <2>2, <3>2, <4>1
      <3> QED
        BY <3>3, <3>4
    <2>4. CASE WaitForCell(t)
      <3> DEFINE c == Min(others[t])
      <3>1. /\ pc[t] = "wait" /\ pc' = pc /\ timestamp' = timestamp /\ current' = current
            /\ others' = [others EXCEPT ![t] = others[t] \ {c}]
            /\ others[t] # {} /\ ~KeepsWaiting(t, c)
        BY <2>4 DEF WaitForCell, Set, own, queue, cursor
      <3>2. c \in others[t] /\ c \in Threads
        BY <3>1, MinThread DEF TypeInv, TypeLoop
      <3>3. timestamp[t] <= array[c]
        BY <3>1, <3>2, <1>y DEF KeepsWaiting
      <3> HIDE DEF c
      <3>4. BucketOf(timestamp[t]) <= current.index \/ \E x \in others[t] : Near(x)
        BY <3>1 DEF NearInv
      <3>5. CASE BucketOf(timestamp[t]) <= current.index
        BY <1>k, <2>1, <2>2, <3>1, <3>5, <1>y
      <3>6. CASE \E x \in others[t] \ {c} : Near(x)
        <4>1. others'[t] = others[t] \ {c} /\ others[t] \subseteq Threads
          BY <3>1, <1>y
        <4> QED
          BY <1>3, <1>k, <2>1, <2>2, <3>6, <4>1
      <3>7. CASE Near(c)
        <4>1. array[c] \in Reached /\ BucketOf(array[c]) <= current.index
          BY <3>2, <3>7 DEF Near, HandInv, Hand
        <4>2. BucketOf(timestamp[t]) <= BucketOf(array[c])
          BY <3>2, <3>3, <4>1, <1>y, BucketsInOrder
        <4>3. BucketOf(timestamp[t]) <= current.index
          BY <3>2, <4>1, <4>2, <1>y, <1>b
        <4> QED
          BY <1>k, <2>1, <2>2, <3>1, <4>3, <1>y
      <3> QED
        BY <3>4, <3>5, <3>6, <3>7
    <2>5. CASE Spin(t)
      BY <2>5 DEF Spin, vars, queue, cursor, cells, loop, own, NearInv, Near
    <2>6. CASE ~(CheckGVT(t) \/ WaitForCell(t) \/ Spin(t))
      <3>1. pc'[t] # "wait"
        <4>1. CASE Publish(t)
          <5>1. pc' = [pc EXCEPT ![t] = "check"]
            BY <4>1, PublishIs
          <5> QED
            BY <5>1, <1>y
        <4>2. CASE WriteGVT(t)
          BY <4>2, <1>y, AfterOperationIs DEF WriteGVT
        <4>3. CASE PublishDraining(t) \/ Finish(t)
          BY <4>3, <1>y DEF PublishDraining, Finish, Goto
        <4>4. CASE ~Loud(t)
          <5>1. Quiet
            BY <4>4, QuietSteps
          <5>2. CASE Waiting(t)
            BY <2>6, <4>4, <5>2, WaitingSteps DEF Loud
          <5>3. CASE ~Waiting(t)
            BY <5>1, <5>3 DEF Quiet, Waiting
          <5> QED
            BY <5>2, <5>3
        <4> QED
          BY <2>6, <4>1, <4>2, <4>3, <4>4 DEF Loud
      <3> QED
        BY <1>3, <1>k, <2>1, <2>2, <3>1
    <2> QED
      BY <2>3, <2>4, <2>5, <2>6
  <1> QED
    BY <1>1, <1>2, <1>3

\* Every step keeps current where GVT is or beyond.
LEMMA CursorAtStep ==
  ASSUME TimestampsFit, SafetyCheck, TypeInv, PhaseInv, StartInv, GvtOrder, HandInv, NearInv, CursorAt,
         NEW t \in Threads, Step(t)
  PROVE  CursorAt'
  <1>y. /\ pc \in [Threads -> Locations] /\ draining \in [Threads -> BOOLEAN]
        /\ array \in [Threads -> Times] /\ oldCur \in [Threads -> Cursors]
        /\ current.index \in Nat /\ current'.index \in Nat
        /\ GVT \in Reached /\ BucketOf(GVT) \in Nat /\ \A v \in Threads : timestamp[v] \in Reached
    BY CurrentStep, BucketNat DEF TypeInv, TypePc, TypeQueue, TypeCells, TypeOwn, Cursors
  <1>o. \A v \in Threads \ {t} :
          /\ pc'[v] = pc[v] /\ array'[v] = array[v] /\ draining'[v] = draining[v] /\ oldCur'[v] = oldCur[v]
    BY OneThread
  <1>1. BucketOf(GVT') <= current'.index
    <2>1. CASE WriteGVT(t)
      <3>1. /\ pc[t] = "wait" /\ others[t] = {} /\ GVT' = timestamp[t] /\ current' = current
        BY <2>1 DEF WriteGVT, queue, cursor
      <3> QED
        BY <3>1 DEF NearInv
    <2>2. CASE ~WriteGVT(t) /\ current.index <= current'.index
      BY <2>2, GvtKept, <1>y DEF CursorAt
    <2>3. CASE ~WriteGVT(t) /\ ~(current.index <= current'.index)
      <3>1. Flush(t) /\ current'.index = BucketOf(timestamp[t]) /\ GVT' = GVT
        BY <2>3, CurrentStep, GvtKept
      <3>2. pc[t] = "flush" /\ Free(t)
        BY <3>1 DEF Flush, PhaseInv, Free, Waiting
      <3>3. GVT <= timestamp[t]
        BY <3>2 DEF GvtOrder, HandInv, Hand
      <3> QED
        BY <3>1, <3>3, <1>y, BucketsInOrder
    <2> QED
      BY <2>1, <2>2, <2>3
  <1>2. ASSUME ~draining'[t], pc'[t] \in {"scan", "take"} PROVE BucketOf(array'[t]) <= oldCur'[t].index
    <2>1. CASE DeqRead(t)
      <3>1. /\ array' = array /\ oldCur'[t] = current /\ pc[t] \in {"loop", "read"}
            /\ pc[t] = "read" => draining' = draining
        BY <2>1, <1>y DEF DeqRead, cells, Set
      <3>2. Free(t)
        BY <1>2, <3>1 DEF PhaseInv, Free, Waiting
      <3>3. array[t] = GVT
        BY <3>2 DEF GvtOrder
      <3> QED
        BY <3>1, <3>3 DEF CursorAt
    <2>2. CASE DeqScan(t)
      BY <1>2, <2>2 DEF DeqScan, CursorAt, cells, own
    <2>3. CASE ~(DeqRead(t) \/ DeqScan(t))
      <3>1. pc'[t] \notin {"scan", "take"}
        <4>1. AfterOperation(t) => pc'[t] \in {"min", "count"}
          BY <1>y, AfterOperationIs
        <4>2. EndEnqueue(t) => pc'[t] \in {"help", "min", "count"}
          BY <1>y, <4>1, EndEnqueueIs
        <4>3. CASE Growth(t)
          BY <4>3, <1>y, GrowthIs
        <4>4. CASE Flush(t) \/ InsertFuture(t) \/ EndHelp(t) \/ DeqEmpty(t) \/ WriteGVT(t) \/ Publish(t)
          BY <4>1, <4>2, <4>4, <1>y, InsertFutureIs, PublishIs
          DEF Flush, EndHelp, DeqEmpty, WriteGVT, Goto
        <4>5. CASE \/ Start(t) \/ CallEnqueue(t) \/ Insert(t) \/ DeqTake(t) \/ DeqAdvance(t) \/ PublishDraining(t)
                   \/ CheckGVT(t) \/ WaitForCell(t) \/ Spin(t) \/ ReadMin(t) \/ CallPrune(t) \/ PruneBucket(t)
                   \/ Count(t) \/ SumOps(t) \/ Finish(t)
          BY <4>5, <1>y DEF Start, CallEnqueue, Insert, DeqTake, DeqAdvance, PublishDraining, CheckGVT,
             WaitForCell, Spin, ReadMin, CallPrune, PruneBucket, Count, SumOps, Finish, Goto, vars
        <4> QED
          BY <2>3, <4>3, <4>4, <4>5 DEF Step, Growth
      <3> QED
        BY <1>2, <3>1
    <2> QED
      BY <2>1, <2>2, <2>3
  <1>3. \A v \in Threads : ~draining'[v] /\ pc'[v] \in {"scan", "take"} => BucketOf(array'[v]) <= oldCur'[v].index
    BY <1>2, <1>o DEF CursorAt
  <1> QED
    BY <1>1, <1>3 DEF CursorAt

-----------------------------------------------------------------------------
\* The prune threshold.

\* prune()'s threshold is not above the bucket of the thread's own cell.
BelowCell(t) ==
  /\ pc[t] = "min" => acc[t] <= array[t]
  /\ pc[t] = "prune" => acc[t] <= array[t] \div BucketWidth

MinInv == \A t \in Threads : BelowCell(t)

\* The minimum a thread computes stays at or below its own cell.
LEMMA MinStep ==
  ASSUME SafetyCheck, TypeInv, MinInv, NEW t \in Threads, Step(t)
  PROVE  MinInv'
  <1>y. /\ pc \in [Threads -> Locations] /\ array \in [Threads -> Times]
        /\ acc \in [Threads -> Nat] /\ array' \in [Threads -> Times]
    <2>1. [Next]_vars
      BY DEF Next
    <2> QED
      BY <2>1, TypeCellsStep DEF TypeInv, TypeCells, TypePc, TypeLoop
  <1>n. array[t] \in Nat /\ array'[t] \in Nat /\ acc[t] \in Nat
    BY <1>y, TimesNat
  <1>h. BelowCell(t)
    BY DEF MinInv
  <1>a. AfterOperation(t) =>
          \/ pc' = [pc EXCEPT ![t] = "min"] /\ acc' = [acc EXCEPT ![t] = array'[t]]
          \/ pc' = [pc EXCEPT ![t] = "count"]
    BY AfterOperationIs
  <1>b. AfterOperation(t) => BelowCell(t)'
    BY <1>a, <1>y, <1>n DEF BelowCell
  <1> DEFINE Goal == BelowCell(t)'
  <1> USE DEF BelowCell, vars, queue, cursor, sizes, lists, cells, loop, own, Goto, Set
  <1>1. ASSUME Start(t) PROVE Goal
    BY <1>1, <1>y, <1>h DEF Start
  <1>2. ASSUME CallEnqueue(t) PROVE Goal
    BY <1>2, <1>y, <1>h DEF CallEnqueue
  <1>3. ASSUME Insert(t) PROVE Goal
    BY <1>3, <1>y DEF Insert
  <1>4. ASSUME Flush(t) PROVE Goal
    <2>1. EndEnqueue(t)
      BY <1>4 DEF Flush
    <2> QED
      BY <2>1, <1>b, <1>y, EndEnqueueIs
  <1>5. ASSUME DeqRead(t) PROVE Goal
    BY <1>5, <1>y, <1>h DEF DeqRead, LogCondition
  <1>6. ASSUME DeqScan(t) PROVE Goal
    BY <1>6, <1>y, <1>h DEF DeqScan
  <1>7. ASSUME DeqTake(t) PROVE Goal
    BY <1>7, <1>y, <1>h DEF DeqTake
  <1>8. ASSUME DeqAdvance(t) PROVE Goal
    BY <1>8, <1>y, <1>h DEF DeqAdvance, DrawMark
  <1>9. ASSUME DeqEmpty(t) PROVE Goal
    <2>1. AfterOperation(t) \/ pc' = [pc EXCEPT ![t] = "finish"]
      BY <1>9 DEF DeqEmpty
    <2> QED
      BY <2>1, <1>y, <1>b
  <1>10. ASSUME Publish(t) PROVE Goal
    BY <1>10, <1>y, PublishIs
  <1>11. ASSUME PublishDraining(t) PROVE Goal
    BY <1>11, <1>y, <1>h DEF PublishDraining
  <1>12. ASSUME CheckGVT(t) PROVE Goal
    BY <1>12, <1>y, <1>h DEF CheckGVT
  <1>13. ASSUME WaitForCell(t) PROVE Goal
    BY <1>13, <1>y, <1>h DEF WaitForCell
  <1>14. ASSUME Spin(t) PROVE Goal
    BY <1>14, <1>y, <1>h DEF Spin
  <1>15. ASSUME WriteGVT(t) PROVE Goal
    BY <1>15, <1>b DEF WriteGVT
  <1>16. ASSUME ReadMin(t) PROVE Goal
    <2> DEFINE u == Min(others[t])
    <2>1. /\ pc[t] = "min" /\ pc' = pc /\ array' = array /\ others[t] # {}
          /\ acc' = [acc EXCEPT ![t] = Min({acc[t], array[u]})]
      BY <1>16 DEF ReadMin
    <2>2. u \in Threads
      BY <2>1, MinThread DEF TypeInv, TypeLoop
    <2>3. array[u] \in Nat
      BY <2>2, <1>y, TimesNat
    <2>4. Min({acc[t], array[u]}) \in Nat /\ Min({acc[t], array[u]}) <= acc[t]
      BY <2>3, <1>n, MinOfTwo
    <2>5. acc[t] <= array[t]
      BY <2>1, <1>h
    <2> HIDE DEF u
    <2> QED
      BY <2>1, <2>4, <2>5, <1>y, <1>n
  <1>17. ASSUME CallPrune(t) PROVE Goal
    <2>1. /\ pc[t] = "min" /\ pc' = [pc EXCEPT ![t] = "prune"] /\ array' = array
          /\ acc' = [acc EXCEPT ![t] = EndIndex(acc[t])]
      BY <1>17 DEF CallPrune
    <2>2. acc[t] <= array[t]
      BY <2>1, <1>h
    <2>3. EndIndex(acc[t]) \in Nat /\ EndIndex(acc[t]) <= acc[t] \div BucketWidth
      <3>1. /\ ThresholdNum \in Nat /\ ThresholdDen \in Nat \ {0} /\ BucketWidth \in Nat \ {0}
            /\ ThresholdNum <= ThresholdDen
        BY DriverAssumption
      <3>2. acc[t] * ThresholdNum \in Nat /\ ThresholdDen * BucketWidth \in Nat \ {0}
        BY <3>1, <1>n
      <3>3. EndIndex(acc[t]) \in Nat
            /\ EndIndex(acc[t]) <= (acc[t] * ThresholdNum) \div (ThresholdDen * BucketWidth)
        BY <3>2, HashNat DEF EndIndex
      <3>4. (acc[t] * ThresholdNum) \div (ThresholdDen * BucketWidth) <= acc[t] \div BucketWidth
        BY <3>1, <1>n, ShareOf
      <3>5. /\ (acc[t] * ThresholdNum) \div (ThresholdDen * BucketWidth) \in Nat
            /\ acc[t] \div BucketWidth \in Nat
        BY <3>1, <3>2, <1>n, DivIs
      <3> QED
        BY <3>3, <3>4, <3>5
    <2>4. acc[t] \div BucketWidth <= array[t] \div BucketWidth
      BY <2>2, <1>n, DivGrows, DriverAssumption
    <2>5. acc[t] \div BucketWidth \in Nat /\ array[t] \div BucketWidth \in Nat
      BY <1>n, DivIs, DriverAssumption
    <2>6. acc'[t] = EndIndex(acc[t]) /\ pc'[t] = "prune"
      BY <2>1, <1>y
    <2> QED
      BY <2>1, <2>3, <2>4, <2>5, <2>6
  <1>18. ASSUME PruneBucket(t) PROVE Goal
    <2>1. pc' = pc /\ acc' = acc /\ array' = array
      BY <1>18 DEF PruneBucket
    <2> QED
      BY <2>1, <1>h
  <1>19. ASSUME Count(t) PROVE Goal
    BY <1>19, <1>y, <1>h DEF Count, LogCondition
  <1>20. ASSUME SumOps(t) PROVE Goal
    BY <1>20, <1>y, <1>h DEF SumOps
  <1>21. ASSUME Finish(t) PROVE Goal
    BY <1>21, <1>y, <1>h DEF Finish
  <1>22. ASSUME Growth(t) PROVE Goal
    <2>1. array' = array /\ acc' = acc /\ pc'[t] \notin {"min", "prune"}
      BY <1>22, GrowthIs, <1>y
    <2> QED
      BY <2>1
  <1>23. ASSUME InsertFuture(t) PROVE Goal
    <2>1. EndEnqueue(t)
      BY <1>23, InsertFutureIs
    <2> QED
      BY <2>1, <1>b, <1>y, EndEnqueueIs
  <1>24. ASSUME EndHelp(t) PROVE Goal
    BY <1>24, <1>b DEF EndHelp
  <1> HIDE DEF Goal, BelowCell
  <1>25. Goal
    BY <1>1, <1>2, <1>3, <1>4, <1>5, <1>6, <1>7, <1>8, <1>9, <1>10, <1>11, <1>12,
       <1>13, <1>14, <1>15, <1>16, <1>17, <1>18, <1>19, <1>20, <1>21, <1>22, <1>23, <1>24
    DEF Step, Growth
  <1>26. \A v \in Threads \ {t} : BelowCell(v) => BelowCell(v)'
    BY OneThread DEF BelowCell
  <1> QED
    BY <1>25, <1>26 DEF Goal, MinInv

-----------------------------------------------------------------------------
\* The invariant of the prune threshold, with SAFETY_CHECK and EMPTY_QUEUE,
\* whatever the queue loses or hands out twice.
PruneInv ==
  /\ SizeInv /\ PhaseInv /\ StartInv /\ WaitInv
  /\ GvtOrder /\ HandInv /\ InTableInv
  /\ NearInv /\ CursorAt /\ MinInv

\* Every step keeps it.
LEMMA PruneInvStep ==
  ASSUME InitSizeFits, TimestampsFit, SafetyCheck, EmptyQueue, TypeInv, PruneInv, [Next]_vars
  PROVE  PruneInv'
  <1>1. SizeInv' /\ PhaseInv' /\ StartInv' /\ WaitInv' /\ GvtOrder'
    BY SizeInvStep, PhaseInvStep, StartInvStep, WaitInvStep, GvtOrderNext DEF PruneInv
  <1>2. ASSUME NEW t \in Threads, Step(t)
        PROVE  HandInv' /\ InTableInv' /\ NearInv' /\ CursorAt' /\ MinInv'
    BY <1>2, HandStep, InTableStep, NearStep, CursorAtStep, MinStep DEF PruneInv
  <1>3. CASE Frozen
    <2>1. /\ array' = array /\ pc' = pc /\ draining' = draining /\ others' = others /\ oldCur' = oldCur
          /\ timestamp' = timestamp /\ local_min' = local_min /\ acc' = acc /\ GVT' = GVT
          /\ current' = current /\ todo' = todo /\ dequeue_size' = dequeue_size
      BY <1>3 DEF Frozen, queue, cursor, sizes, lists, cells, loop, own
    <2>2. HandInv'
      BY <2>1 DEF PruneInv, HandInv, Hand, Free, Waiting
    <2>3. InTableInv'
      BY <2>1 DEF PruneInv, InTableInv, TodoBeyond, InTable
    <2>4. NearInv'
      BY <2>1 DEF PruneInv, NearInv, Near
    <2>5. CursorAt' /\ MinInv'
      BY <2>1 DEF PruneInv, CursorAt, MinInv, BelowCell
    <2> QED
      BY <2>2, <2>3, <2>4, <2>5, <1>1 DEF PruneInv
  <1> QED
    BY <1>1, <1>2, <1>3, NextCases DEF PruneInv

\* While a thread prunes, no other thread of the main loop is in a bucket below
\* the threshold: not with an event it inserts, not with one it carries to its
\* new bucket, not in a walk.  The queue may lose or hand out twice whatever it
\* does.
THEOREM PrunesAlone ==
  ASSUME InitSizeFits, TimestampsFit, SafetyCheck, EmptyQueue
  PROVE  Spec => []PruneAloneInLoop
  <1>1. TypeInv /\ PruneInv => PruneAloneInLoop
    <2> SUFFICES ASSUME TypeInv, PruneInv, NEW t \in Threads, NEW u \in Threads,
                        pc[t] = "prune", u # t, ~draining[u],
                        NEW b \in 0 .. (acc[t] - 1), InBucket(u, b)
                 PROVE  FALSE
      BY DEF PruneAloneInLoop, HoldsBelow
    <2>1. pc[u] \in {"insert", "flush", "help_move", "move", "scan", "take"}
      BY DEF InBucket
    <2>2. Free(t) /\ Free(u)
      BY <2>1 DEF PruneInv, PhaseInv, Free, Waiting
    <2>3. array[t] = GVT /\ array[u] = GVT
      BY <2>2 DEF PruneInv, GvtOrder
    <2>4. /\ GVT \in Reached /\ acc[t] \in Nat /\ acc[t] <= GVT \div BucketWidth
          /\ timestamp[u] \in Reached /\ BucketOf(timestamp[u]) \in Nat
      BY <2>3, BucketNat DEF PruneInv, MinInv, BelowCell, TypeInv, TypeCells, TypeLoop, TypeOwn
    <2>5. BucketOf(GVT) = GVT \div BucketWidth /\ BucketOf(GVT) \in Nat
      BY <2>4, BucketsInOrder, BucketNat
    <2>6. b \in Nat /\ b < BucketOf(GVT)
      BY <2>4, <2>5
    <2>7. CASE pc[u] \in {"insert", "flush"} /\ b = BucketOf(timestamp[u])
      <3>1. GVT <= timestamp[u]
        BY <2>3, <2>7 DEF PruneInv, HandInv, Hand
      <3>2. BucketOf(GVT) <= BucketOf(timestamp[u])
        BY <2>4, <3>1, BucketsInOrder
      <3> QED
        BY <2>5, <2>6, <2>7, <3>2
    <2>8. CASE pc[u] \in {"move", "help_move"} /\ b = BucketOf(timestamp[u])
      <3>1. BucketOf(GVT) <= BucketOf(timestamp[u])
        BY <2>3, <2>8 DEF PruneInv, InTableInv, InTable
      <3> QED
        BY <2>5, <2>6, <2>8, <3>1
    <2>9. CASE pc[u] \in {"scan", "take"} /\ b = oldCur[u].index
      <3>1. BucketOf(GVT) <= oldCur[u].index
        BY <2>3, <2>9 DEF PruneInv, CursorAt
      <3> QED
        BY <2>5, <2>6, <2>9, <3>1
    <2> QED
      BY <2>7, <2>8, <2>9 DEF InBucket
  <1>2. Init => PruneInv
    <2> SUFFICES ASSUME Init PROVE PruneInv
      OBVIOUS
    <2>1. \A t \in Threads :
            /\ pc[t] = "start" /\ ~draining[t] /\ array[t] = 0 /\ local_min[t] = 0 /\ others[t] = {}
      BY DEF Init
    <2>2. /\ GVT = 0 /\ InitSize \in Nat \ {0} /\ dequeue_size = InitSize
          /\ current.index = InitSize - 1 /\ todo = NoEvents
      BY DriverAssumption DEF Init
    <2>3. SizeInv
      <3>1. PICK e \in 0 .. (WordBits - 1) : InitSize = 2^e
        BY DEF InitSizeFits
      <3>2. e \in 0 .. WordBits
        BY WordAssumption
      <3>3. Size(InitSize) /\ InitSize <= InitSize
        BY <3>1, <3>2, DriverAssumption DEF Size
      <3> QED
        BY <3>3 DEF Init, SizeInv, Size, NoEvents
    <2>4. PhaseInv /\ StartInv /\ WaitInv
      BY <2>1 DEF PhaseInv, StartInv, WaitInv
    <2>5. GvtOrder
      BY <2>1, <2>2 DEF GvtOrder, WaitsOrdered, Passed
    <2>6. HandInv /\ MinInv
      BY <2>1 DEF HandInv, Hand, Reached, MinInv, BelowCell
    <2>7. InTableInv
      BY <2>1, <2>2, FirstBucket DEF InTableInv, TodoBeyond, InTable, NoEvents
    <2>8. NearInv
      <3>1. \A x \in Threads : Near(x)
        BY <2>1, <2>2, FirstBucket DEF Near, Walking
      <3> QED
        BY <2>1, <3>1, DriverAssumption DEF NearInv
    <2>9. CursorAt
      BY <2>1, <2>2, FirstBucket DEF CursorAt
    <2> QED
      BY <2>3, <2>4, <2>5, <2>6, <2>7, <2>8, <2>9 DEF PruneInv
  <1>3. TypeInv /\ PruneInv /\ [Next]_vars => PruneInv'
    BY PruneInvStep
  <1> QED
    BY <1>1, <1>2, <1>3, TypesHold, PTL DEF Spec

-----------------------------------------------------------------------------
\* The events, as long as the table has the buckets of queue_init(): while it
\* grows the queue may answer empty with an event left, and a late insertion
\* leaves one behind current.

\* The mask of generate_mark() has dropped no bit of the marks drawn so far.
MarksKept == \A t \in Threads : \A k \in 0 .. (marks[t] - 1) : Cantor(t, k) < MarkRange

\* The table as queue_init() leaves it, and nobody in expand_array().
NeverGrown ==
  /\ dequeue_size = InitSize /\ table_size = InitSize
  /\ future = NoEvents /\ todo = NoEvents /\ closed
  /\ \A t \in Threads : pc[t] \notin {"expand", "close", "empty", "move", "help_move"}

\* An event leaves future_list by a doubling of the table only, so while the
\* table has its first size and the list is empty nothing was ever pushed.
GrownInv == InitSize <= table_size /\ (NotGrown => NeverGrown)

\* A thread that pushes an event, expands the table or moves an event finds the
\* table grown, or leaves it so.
LEMMA NoGrowth ==
  ASSUME NotGrown', TypeInv, NeverGrown, NEW t \in Threads
  PROVE  ~Growth(t) /\ ~InsertFuture(t)
  <1>1. ~DeqExpand(t)
    BY DEF DeqExpand, NoFuture, NeverGrown
  <1>2. ~ExpandSwap(t) /\ ~ExpandClose(t) /\ ~Move(t) /\ ~ExpandSize(t)
    BY DEF ExpandSwap, ExpandClose, Move, ExpandSize, NeverGrown
  <1>3. ~Pop(t)
    <2>1. \A ts \in Timestamps : ~(todo[ts] > 0)
      BY DEF NeverGrown, NoEvents
    <2> QED
      BY <2>1 DEF Pop
  <1>4. ~InsertFuture(t)
    <2> SUFFICES ASSUME InsertFuture(t) PROVE FALSE
      OBVIOUS
    <2>1. pc[t] = "insert" /\ Push(timestamp[t])
      BY InsertFutureIs
    <2>2. timestamp[t] \in Timestamps
      BY <2>1 DEF TypeInv, TypeOwn, InHand
    <2>3. future' = OneMore(future, timestamp[t])
      BY <2>1 DEF Push, NeverGrown
    <2>4. future'[timestamp[t]] = 1
      BY <2>2, <2>3 DEF OneMore, Set, NeverGrown, NoEvents
    <2>5. future'[timestamp[t]] = 0
      BY <2>2 DEF NotGrown, NoEvents
    <2> QED
      BY <2>4, <2>5
  <1> QED
    BY <1>1, <1>2, <1>3, <1>4 DEF Growth

\* The table of insert() never shrinks, and future_list loses nothing while it
\* keeps its size.
LEMMA SizesGrow ==
  ASSUME TypeInv, GrownInv, [Next]_vars
  PROVE  /\ InitSize <= table_size'
         /\ NotGrown' => NotGrown
  <1>y. /\ table_size \in Nat \ {0} /\ InitSize \in Nat \ {0} /\ InitSize <= table_size
        /\ future \in [Timestamps -> Nat]
    BY DriverAssumption DEF TypeInv, TypeQueue, GrownInv
  <1> DEFINE Goal == InitSize <= table_size' /\ (NotGrown' => NotGrown)
  <1>k. ASSUME table_size' = table_size, future' = future PROVE Goal
    BY <1>k, <1>y DEF NotGrown
  <1>d. ASSUME table_size' = 2 * table_size PROVE Goal
    BY <1>d, <1>y DEF NotGrown
  <1>p. ASSUME table_size' = table_size, NEW x \in Timestamps, future' = OneMore(future, x) PROVE Goal
    <2>1. future'[x] = future[x] + 1 /\ future[x] \in Nat
      BY <1>p, <1>y DEF OneMore, Set
    <2>2. future' # NoEvents
      BY <2>1 DEF NoEvents
    <2> QED
      BY <2>2, <1>p, <1>y DEF NotGrown
  <1> HIDE DEF Goal
  <1> USE DEF queue, sizes, lists
  <1>1. ASSUME NEW t \in Threads, Step(t) PROVE Goal
    <2>1. CASE DeqExpand(t) \/ ExpandClose(t) \/ Pop(t) \/ ExpandSize(t)
      BY <2>1, <1>k DEF DeqExpand, ExpandClose, Pop, ExpandSize
    <2>2. CASE ExpandSwap(t)
      BY <2>2, <1>k, <1>d DEF ExpandSwap
    <2>3. CASE Move(t) \/ InsertFuture(t)
      <3>1. /\ timestamp[t] \in Timestamps /\ table_size' = table_size
            /\ future' = future \/ Push(timestamp[t])
        BY <2>3, InsertFutureIs DEF Move, TypeInv, TypeOwn, InHand
      <3>2. future' = future \/ future' = OneMore(future, timestamp[t])
        BY <3>1 DEF Push
      <3> QED
        BY <3>1, <3>2, <1>k, <1>p
    <2>4. CASE ~Growth(t) /\ ~InsertFuture(t)
      BY <1>1, <2>4, <1>k, TableKept
    <2> QED
      BY <2>1, <2>2, <2>3, <2>4 DEF Growth
  <1>2. ASSUME Frozen PROVE Goal
    BY <1>2, <1>k DEF Frozen
  <1>3. Goal
    BY <1>1, <1>2, NextCases
  <1> QED
    BY <1>3 DEF Goal

\* So what was never pushed stays unpushed until the table grows.
LEMMA GrownStep ==
  ASSUME TypeInv, GrownInv, [Next]_vars
  PROVE  GrownInv'
  <1> SUFFICES ASSUME NotGrown' PROVE NeverGrown'
    BY SizesGrow DEF GrownInv
  <1>g. NeverGrown
    BY SizesGrow DEF GrownInv
  <1>1. ASSUME NEW t \in Threads, Step(t) PROVE NeverGrown'
    <2>1. /\ UNCHANGED <<dequeue_size, table_size, future, todo, closed>>
          /\ pc'[t] \notin {"expand", "close", "empty", "move", "help_move"}
      BY <1>1, <1>g, NoGrowth, TableKept
    <2>2. \A v \in Threads \ {t} : pc'[v] = pc[v]
      BY <1>1, OneThread
    <2> QED
      BY <2>1, <2>2, <1>g DEF NeverGrown
  <1>2. CASE Frozen
    BY <1>2, <1>g DEF Frozen, queue, sizes, lists, NeverGrown
  <1> QED
    BY <1>1, <1>2, NextCases

\* A walk of such a table meets the events of its bucket and no others.
LEMMA WalkOfTable ==
  ASSUME InitSizeFits, TypeInv, NeverGrown, NEW i \in Nat, i < InitSize
  PROVE  BucketEvents(i) = {x \in Linked : BucketOf(x) = i}
  <1>1. PICK e \in 0 .. (WordBits - 1) : InitSize = 2^e
    BY DEF InitSizeFits
  <1>2. e \in 0 .. WordBits /\ InitSize \in Nat
    BY WordAssumption, DriverAssumption
  <1>3. InitSize <= 2^WordBits /\ 2^WordBits \in Nat
    BY <1>1, <1>2, SizeInWord, PowerAbove, WordAssumption DEF Size
  <1> QED
    BY <1>2, <1>3, WalkIsExact

\* The timestamps with an event that anybody can take.
Live == {x \in Timestamps : live[x] > 0}

\* v will meet the events at x before it takes any later one.
Guards(v, x) ==
  /\ array[v] <= x
  /\ pc[v] \notin {"finish", "done"}
  /\ pc[v] = "scan" => oldCur[v].index <= BucketOf(x)
  /\ pc[v] = "advance" => oldCur[v].index < BucketOf(x)
  /\ pc[v] \in {"take", "publish"} => timestamp[v] <= x

\* Every event has a guard; one before the timestamp of a waiting thread has a
\* guard that has not let it go; and none is before the cell of a free thread.
Guarded ==
  \A x \in Live :
    /\ \E v \in Threads : Guards(v, x)
    /\ \A t \in Threads : Waiting(t) /\ x < array[t] => \E v \in Threads \ Passed(t) : Guards(v, x)
    /\ \A t \in Threads : Free(t) => array[t] <= x

\* A mark somebody drew, or the first value of current: its mark is the one of
\* the first flush of thread 0, but no CAS moves current from the last bucket.
Known(c) ==
  \/ c.index = InitSize - 1
  \/ \E t \in Threads : \E k \in 0 .. (marks[t] - 1) : c.mark = GenerateMark(t, k)

MarksFresh ==
  /\ Known(current)
  /\ \A t \in Threads : pc[t] \in {"scan", "advance"} => Known(oldCur[t])

\* current is never past an event, and the bucket that a dequeue() has found
\* empty has no events if its CAS of current will succeed.
CursorRight ==
  /\ \A x \in Live : current.index <= BucketOf(x)
  /\ \A t \in Threads :
       pc[t] = "advance" /\ oldCur[t] = current /\ oldCur[t].index + 1 < dequeue_size =>
         \A x \in Live : BucketOf(x) # current.index

\* Only a flush brings a new event.
LEMMA LiveSteps ==
  ASSUME NotGrown', TypeInv, NeverGrown, NEW t \in Threads, Step(t)
  PROVE  \/ Live' \subseteq Live
         \/ Flush(t) /\ Live' \subseteq Live \cup {timestamp[t]}
  <1>y. live \in [Timestamps -> Nat]
    BY DEF TypeInv, TypeQueue
  <1>1. CASE live' = live
    BY <1>1 DEF Live
  <1>2. CASE DeqTake(t)
    <2>1. live' = live \/ live' = [live EXCEPT ![timestamp[t]] = live[timestamp[t]] - 1]
      BY <1>2 DEF DeqTake, OneLess, Set
    <2> QED
      BY <2>1, <1>y DEF Live
  <1>3. CASE Flush(t)
    <2>1. live' = live \/ live' = [live EXCEPT ![timestamp[t]] = live[timestamp[t]] + 1]
      BY <1>3 DEF Flush, OneMore, Set
    <2> QED
      BY <1>3, <2>1, <1>y DEF Live
  <1>4. live' = live \/ DeqTake(t) \/ Flush(t)
    BY NoGrowth DEF Step, Growth, Start, CallEnqueue, Insert, EndHelp, DeqRead, DeqScan, DeqAdvance,
           DeqEmpty, Publish, PublishDraining, CheckGVT, WaitForCell, Spin, WriteGVT,
           ReadMin, CallPrune, PruneBucket, Count, SumOps, Finish, vars, queue
  <1> QED
    BY <1>1, <1>2, <1>3, <1>4

\* Every event of the table has a bucket of the table.
EventsFit ==
  /\ \A x \in Live : BucketOf(x) < table_size
  /\ \A t \in Threads : pc[t] = "flush" => BucketOf(timestamp[t]) < table_size

\* Every step keeps it so.
LEMMA EventsFitStep ==
  ASSUME NotGrown', TypeInv, NeverGrown, EventsFit, NEW t \in Threads, Step(t)
  PROVE  EventsFit'
  <1>y. pc \in [Threads -> Locations]
    BY DEF TypeInv, TypePc
  <1>s. table_size' = table_size
    BY NoGrowth, TableKept
  <1>o. \A v \in Threads \ {t} : pc'[v] = pc[v] /\ timestamp'[v] = timestamp[v]
    BY OneThread
  <1>1. \A x \in Live' : BucketOf(x) < table_size
    <2>1. Flush(t) => BucketOf(timestamp[t]) < table_size
      BY DEF Flush, EventsFit
    <2> QED
      BY <2>1, LiveSteps DEF EventsFit
  <1>2. ASSUME pc'[t] = "flush" PROVE BucketOf(timestamp'[t]) < table_size
    <2>1. Insert(t)
      <3>1. AfterOperation(t) => pc'[t] \in {"min", "count"}
        BY <1>y, AfterOperationIs
      <3>2. EndEnqueue(t) => pc'[t] \in {"help", "min", "count"}
        BY <1>y, <3>1, EndEnqueueIs
      <3> USE DEF vars, Goto
      <3>3. CASE Start(t) \/ CallEnqueue(t) \/ Flush(t) \/ EndHelp(t)
        BY <3>3, <1>2, <1>y, <3>1, <3>2 DEF Start, CallEnqueue, Flush, EndHelp
      <3>4. CASE DeqRead(t) \/ DeqScan(t) \/ DeqTake(t) \/ DeqAdvance(t) \/ DeqEmpty(t)
        BY <3>4, <1>2, <1>y, <3>1 DEF DeqRead, DeqScan, DeqTake, DeqAdvance, DeqEmpty
      <3>5. CASE Publish(t) \/ PublishDraining(t) \/ CheckGVT(t) \/ WaitForCell(t) \/ Spin(t) \/ WriteGVT(t)
        BY <3>5, <1>2, <1>y, <3>1
           DEF Publish, PublishDraining, CheckGVT, WaitForCell, Spin, WriteGVT
      <3>6. CASE ReadMin(t) \/ CallPrune(t) \/ PruneBucket(t) \/ Count(t) \/ SumOps(t) \/ Finish(t)
        BY <3>6, <1>2, <1>y DEF ReadMin, CallPrune, PruneBucket, Count, SumOps, Finish
      <3> QED
        BY <3>3, <3>4, <3>5, <3>6, NoGrowth DEF Step, Growth
    <2> QED
      BY <2>1 DEF Insert, own
  <1> QED
    BY <1>1, <1>2, <1>s, <1>o DEF EventsFit

\* What was known stays known.
LEMMA KnownStays ==
  ASSUME TypeInv, NEW t \in Threads, marks' \in {marks, [marks EXCEPT ![t] = marks[t] + 1]}
  PROVE  \A c : Known(c) => Known(c)'
  <1>1. marks \in [Threads -> Nat]
    BY DEF TypeInv, TypeQueue
  <1>2. \A v \in Threads : marks[v] \in Nat /\ marks'[v] \in Nat /\ marks[v] <= marks'[v]
    BY <1>1
  <1>3. \A v \in Threads : \A k \in 0 .. (marks[v] - 1) : k \in 0 .. (marks'[v] - 1)
    BY <1>2
  <1> QED
    BY <1>3 DEF Known

\* A write of current with a new mark is noticed by every dequeue() that can move
\* current on.
LEMMA NewMark ==
  ASSUME TypeInv, NeverGrown, MarksKept', NEW t \in Threads, NEW i \in Nat,
         marks' = [marks EXCEPT ![t] = marks[t] + 1]
  PROVE  /\ \A c : c = Drawn(t, i) => Known(c)'
         /\ \A c : Known(c) /\ c.index + 1 < dequeue_size => c # Drawn(t, i)
  <1>1. marks \in [Threads -> Nat] /\ marks[t] \in Nat /\ Threads \subseteq Nat /\ t \in Nat
    BY DriverAssumption DEF TypeInv, TypeQueue
  <1> DEFINE m == GenerateMark(t, marks[t])
             d == Drawn(t, i)
  <1>2. d.index = i /\ d.mark = m
    BY DEF Drawn
  <1>3. marks[t] \in 0 .. (marks'[t] - 1)
    BY <1>1
  <1>4. \A c : c.mark = m => Known(c)'
    BY <1>3 DEF Known
  <1>5. Cantor(t, marks[t]) < MarkRange
    BY <1>3 DEF MarksKept
  <1>6. ASSUME NEW v \in Threads, NEW k \in 0 .. (marks[v] - 1), GenerateMark(v, k) = m
        PROVE  FALSE
    <2>1. v \in Nat /\ k \in Nat /\ marks[v] \in Nat /\ k \in 0 .. (marks'[v] - 1)
      BY <1>1
    <2>2. Cantor(v, k) < MarkRange
      BY <2>1 DEF MarksKept
    <2>3. v = t /\ k = marks[t]
      BY <1>1, <1>5, <1>6, <2>1, <2>2, MarksUnique, DriverAssumption
    <2> QED
      BY <2>1, <2>3
  <1>7. ASSUME NEW c, Known(c), c.index + 1 < dequeue_size PROVE c # d
    <2>1. c.index # InitSize - 1
      BY <1>7, DriverAssumption DEF NeverGrown
    <2>2. PICK v \in Threads : \E k \in 0 .. (marks[v] - 1) : c.mark = GenerateMark(v, k)
      BY <1>7, <2>1 DEF Known
    <2>3. c.mark # m
      BY <1>6, <2>2
    <2> QED
      BY <1>2, <2>3
  <1>8. \A c : c = d => Known(c)'
    BY <1>2, <1>4
  <1> QED
    BY <1>7, <1>8

-----------------------------------------------------------------------------
\* What a thread of the main loop has in hand or has taken is not before its cell.
AheadInv ==
  /\ HandInv
  /\ \A t \in Threads : pc[t] = "publish" /\ ~draining[t] => array[t] <= timestamp[t]

\* The invariants of the order, but for the events.
OrderInv == PhaseInv /\ StartInv /\ WaitInv /\ InStep /\ AheadInv

\* What a free thread takes is not before its cell: a flushed event is not, and
\* neither is one whose enqueuer, in the main loop, is still at its flush.
LEMMA TakenAhead ==
  ASSUME TypeInv, OrderInv, Guarded, NEW t \in Threads, Free(t), NEW x \in Linked
  PROVE  array[t] <= x
  <1>1. CASE x \in Live
    BY <1>1 DEF Guarded
  <1>2. CASE x \notin Live
    <2>1. PICK u \in pending : x = timestamp[u]
      BY <1>2 DEF Linked, Live
    <2>2. u \in Threads /\ pc[u] = "flush" /\ ~draining[u]
      BY DEF TypeInv, TypeQueue, OrderInv, PhaseInv
    <2>3. array[u] <= x
      BY <2>1, <2>2 DEF OrderInv, AheadInv, HandInv, Hand
    <2>4. t = u \/ array[t] <= array[u]
      BY <2>2 DEF OrderInv, InStep
    <2>5. array[t] \in Nat /\ array[u] \in Nat /\ x \in Nat
      BY <2>1, <2>2, TimesNat DEF TypeInv, TypeCells, TypeOwn
    <2> QED
      BY <2>3, <2>4, <2>5
  <1> QED
    BY <1>1, <1>2

\* Every step keeps what a thread has in hand ahead of its cell.
LEMMA AheadStep ==
  ASSUME SafetyCheck, NotGrown', TypeInv, NeverGrown, OrderInv, Guarded, NEW t \in Threads, Step(t)
  PROVE  AheadInv'
  <1>y. pc \in [Threads -> Locations]
    BY DEF TypeInv, TypePc
  <1>1. HandInv'
    BY HandStep DEF OrderInv, AheadInv
  <1>2. ASSUME pc'[t] = "publish", ~draining'[t] PROVE array'[t] <= timestamp'[t]
    <2>1. DeqTake(t)
      <3>1. AfterOperation(t) => pc'[t] \in {"min", "count"}
        BY <1>y, AfterOperationIs
      <3>2. EndEnqueue(t) => pc'[t] \in {"help", "min", "count"}
        BY <1>y, <3>1, EndEnqueueIs
      <3> USE DEF vars, Goto
      <3>3. CASE Start(t) \/ CallEnqueue(t) \/ Insert(t) \/ Flush(t) \/ EndHelp(t)
        BY <3>3, <1>2, <1>y, <3>1, <3>2 DEF Start, CallEnqueue, Insert, Flush, EndHelp
      <3>4. CASE DeqRead(t) \/ DeqScan(t) \/ DeqAdvance(t) \/ DeqEmpty(t)
        BY <3>4, <1>2, <1>y, <3>1 DEF DeqRead, DeqScan, DeqAdvance, DeqEmpty
      <3>5. CASE Publish(t) \/ PublishDraining(t) \/ CheckGVT(t) \/ WaitForCell(t) \/ Spin(t) \/ WriteGVT(t)
        BY <3>5, <1>2, <1>y, <3>1
           DEF Publish, PublishDraining, CheckGVT, WaitForCell, Spin, WriteGVT
      <3>6. CASE ReadMin(t) \/ CallPrune(t) \/ PruneBucket(t) \/ Count(t) \/ SumOps(t) \/ Finish(t)
        BY <3>6, <1>2, <1>y DEF ReadMin, CallPrune, PruneBucket, Count, SumOps, Finish
      <3> QED
        BY <3>3, <3>4, <3>5, <3>6, NoGrowth DEF Step, Growth
    <2>2. /\ array' = array /\ draining' = draining /\ pc[t] = "take"
          /\ \/ timestamp' = timestamp /\ timestamp[t] \in Linked
             \/ pc' = [pc EXCEPT ![t] = "read"]
      <3>1. /\ pc[t] = "take" /\ array' = array /\ draining' = draining
            /\ timestamp[t] \in Timestamps
        BY <2>1 DEF DeqTake, TypeInv, TypeOwn, InHand, cells
      <3> QED
        BY <2>1, <3>1 DEF DeqTake, Linked, Goto
    <2>3. Free(t)
      BY <2>2, <1>2 DEF Free, Waiting
    <2> QED
      BY <2>2, <2>3, <1>2, <1>y, TakenAhead
  <1>3. \A v \in Threads \ {t} :
          /\ pc'[v] = pc[v] /\ draining'[v] = draining[v]
          /\ array'[v] = array[v] /\ timestamp'[v] = timestamp[v]
    BY OneThread
  <1> QED
    BY <1>1, <1>2, <1>3 DEF OrderInv, AheadInv

-----------------------------------------------------------------------------
\* The events are guarded.

\* Whether another thread guards an event does not change.
LEMMA OtherGuards ==
  ASSUME TypeInv, NEW t \in Threads, Step(t), NEW v \in Threads \ {t}, NEW x
  PROVE  Guards(v, x)' <=> Guards(v, x)
  BY OneThread DEF Guards

\* A thread goes on guarding the events it guards.
LEMMA OwnGuard ==
  ASSUME InitSizeFits, TimestampsFit, SafetyCheck, EmptyQueue,
         NotGrown', TypeInv, NeverGrown, EventsFit, OrderInv, CursorRight,
         NEW t \in Threads, Step(t), NEW x \in Live, Guards(t, x)
  PROVE  Guards(t, x)'
  <1>y. /\ pc \in [Threads -> Locations] /\ array \in [Threads -> Times]
        /\ timestamp \in [Threads -> Reached] /\ oldCur \in [Threads -> Cursors]
    BY DEF TypeInv, TypeQueue, TypeCells, TypePc, TypeOwn
  <1>x. /\ x \in Timestamps /\ x \in Reached /\ x \in Linked /\ BucketOf(x) \in Nat
    BY BucketNat DEF Live, Reached, Linked
  <1>h. Guards(t, x)
    OBVIOUS
  <1>a. AfterOperation(t) => pc' = [pc EXCEPT ![t] = "min"] \/ pc' = [pc EXCEPT ![t] = "count"]
    BY AfterOperationIs
  <1> DEFINE Goal == Guards(t, x)'
  <1> USE DEF Guards, vars, queue, cursor, sizes, lists, cells, loop, own, Goto, Set
  <1>1. ASSUME Start(t) PROVE Goal
    <2>1. array' = array
      BY <1>1, <1>y DEF Start, OrderInv, StartInv
    <2> QED
      BY <1>1, <2>1, <1>y, <1>h DEF Start
  <1>2. ASSUME CallEnqueue(t) PROVE Goal
    BY <1>2, <1>y, <1>h DEF CallEnqueue
  <1>3. ASSUME Insert(t) PROVE Goal
    BY <1>3, <1>y, <1>h DEF Insert
  <1>4. ASSUME Flush(t) PROVE Goal
    <2>1. EndEnqueue(t) /\ array' = array
      BY <1>4 DEF Flush
    <2>2. pc'[t] \in {"help", "min", "count"}
      BY <2>1, <1>y, <1>a, EndEnqueueIs
    <2> QED
      BY <2>1, <2>2, <1>y, <1>h
  <1>5. ASSUME DeqRead(t) PROVE Goal
    <2>1. /\ pc' = [pc EXCEPT ![t] = "scan"] /\ oldCur' = [oldCur EXCEPT ![t] = current]
          /\ array' = array /\ timestamp' = timestamp
      BY <1>5 DEF DeqRead
    <2>2. current.index <= BucketOf(x)
      BY DEF CursorRight
    <2> QED
      BY <2>1, <2>2, <1>y, <1>h
  <1>6. ASSUME DeqScan(t) PROVE Goal
    <2> DEFINE i == oldCur[t].index
    <2>1. /\ pc[t] = "scan" /\ oldCur' = oldCur /\ array' = array /\ i <= BucketOf(x)
          /\ \/ /\ pc' = [pc EXCEPT ![t] = "advance"]
                /\ timestamp' = timestamp /\ BucketEvents(i) = {}
             \/ /\ pc' = [pc EXCEPT ![t] = "take"] /\ BucketEvents(i) # {}
                /\ timestamp' = [timestamp EXCEPT ![t] = Min(BucketEvents(i))]
      BY <1>6, <1>h DEF DeqScan
    <2>2. i \in Nat /\ i < InitSize
      BY <1>y DEF Cursors, TypeInv, TypeQueue, NeverGrown
    <2>3. BucketEvents(i) = {y \in Linked : BucketOf(y) = i}
      BY <2>2, WalkOfTable
    <2> HIDE DEF i
    <2>4. CASE BucketEvents(i) = {}
      <3>1. i < BucketOf(x)
        BY <2>1, <2>2, <2>3, <2>4, <1>x
      <3> QED
        BY <2>1, <2>4, <3>1, <1>y, <1>h DEF i
    <2>5. CASE BucketEvents(i) # {}
      <3> DEFINE y == Min(BucketEvents(i))
      <3>1. \A z \in Linked : z \in Reached
        BY DEF Linked, TypeInv, TypeOwn, TypeQueue, Reached
      <3>2. BucketEvents(i) \in SUBSET Nat
        BY <2>3, <3>1, TimesNat
      <3>3. y \in BucketEvents(i) /\ \A z \in BucketEvents(i) : y <= z
        BY <2>5, <3>2, MinIs
      <3>4. y \in Reached /\ y \in Nat /\ x \in Nat /\ BucketOf(y) = i
        BY <2>3, <3>1, <3>2, <3>3, <1>x, TimesNat
      <3>5. y <= x
        <4>1. CASE BucketOf(x) = i
          BY <2>3, <3>3, <4>1, <1>x
        <4>2. CASE BucketOf(x) # i
          <5>1. ~(BucketOf(x) <= BucketOf(y))
            BY <2>1, <2>2, <3>4, <4>2, <1>x
          <5>2. ~(x <= y)
            BY <3>4, <5>1, <1>x, BucketsInOrder
          <5> QED
            BY <3>4, <5>2
        <4> QED
          BY <4>1, <4>2
      <3> HIDE DEF y
      <3>6. pc' = [pc EXCEPT ![t] = "take"] /\ timestamp' = [timestamp EXCEPT ![t] = y]
        BY <2>1, <2>5 DEF y
      <3> QED
        BY <2>1, <3>5, <3>6, <1>y, <1>h
    <2> QED
      BY <2>4, <2>5
  <1>7. ASSUME DeqTake(t) PROVE Goal
    BY <1>7, <1>y, <1>h DEF DeqTake
  <1>8. ASSUME DeqAdvance(t) PROVE Goal
    BY <1>8, <1>y, <1>h DEF DeqAdvance, DrawMark
  <1>9. ASSUME DeqEmpty(t) PROVE Goal
    <2>1. /\ pc[t] = "advance" /\ oldCur[t].index + 1 >= InitSize
      BY <1>9 DEF DeqEmpty, NeverGrown
    <2>2. oldCur[t].index < BucketOf(x) /\ oldCur[t].index \in Nat /\ InitSize \in Nat
      BY <2>1, <1>h, <1>y, DriverAssumption DEF Cursors
    <2>3. BucketOf(x) < InitSize
      BY DEF EventsFit, NeverGrown
    <2> QED
      BY <2>1, <2>2, <2>3, <1>x
  <1>10. ASSUME Publish(t) PROVE Goal
    <2>1. /\ pc[t] = "publish" /\ pc' = [pc EXCEPT ![t] = "check"]
          /\ array' = [array EXCEPT ![t] = timestamp[t]]
      BY <1>10, PublishIs
    <2> QED
      BY <2>1, <1>y, <1>h
  <1>11. ASSUME PublishDraining(t) PROVE Goal
    BY <1>11, <1>y, <1>h DEF PublishDraining
  <1>12. ASSUME CheckGVT(t) PROVE Goal
    BY <1>12, <1>y, <1>h DEF CheckGVT
  <1>13. ASSUME WaitForCell(t) PROVE Goal
    BY <1>13, <1>y, <1>h DEF WaitForCell
  <1>14. ASSUME Spin(t) PROVE Goal
    BY <1>14, <1>y, <1>h DEF Spin
  <1>15. ASSUME WriteGVT(t) PROVE Goal
    <2>1. AfterOperation(t) /\ array' = array
      BY <1>15 DEF WriteGVT
    <2> QED
      BY <2>1, <1>y, <1>h, <1>a
  <1>16. ASSUME ReadMin(t) PROVE Goal
    BY <1>16, <1>y, <1>h DEF ReadMin
  <1>17. ASSUME CallPrune(t) PROVE Goal
    BY <1>17, <1>y, <1>h DEF CallPrune
  <1>18. ASSUME PruneBucket(t) PROVE Goal
    BY <1>18, <1>y, <1>h DEF PruneBucket
  <1>19. ASSUME Count(t) PROVE Goal
    BY <1>19, <1>y, <1>h DEF Count, LogCondition
  <1>20. ASSUME SumOps(t) PROVE Goal
    BY <1>20, <1>y, <1>h DEF SumOps
  <1>21. ASSUME Finish(t) PROVE Goal
    BY <1>21, <1>y, <1>h DEF Finish
  <1>22. ASSUME EndHelp(t) PROVE Goal
    BY <1>22, <1>y, <1>h, <1>a DEF EndHelp
  <1> HIDE DEF Goal
  <1>23. Goal
    BY <1>1, <1>2, <1>3, <1>4, <1>5, <1>6, <1>7, <1>8, <1>9, <1>10, <1>11, <1>12,
       <1>13, <1>14, <1>15, <1>16, <1>17, <1>18, <1>19, <1>20, <1>21, <1>22, NoGrowth
    DEF Step, Growth
  <1> QED
    BY <1>23 DEF Goal

\* Only a flush or an advance writes current, and a dequeue() remembers it.
LEMMA CursorSteps ==
  ASSUME NotGrown', TypeInv, NeverGrown, NEW t \in Threads, Step(t), ~Flush(t), ~DeqAdvance(t)
  PROVE  /\ current' = current /\ marks' = marks
         /\ pc'[t] = "scan" => DeqRead(t)
         /\ pc'[t] = "advance" => DeqScan(t)
  <1>y. pc \in [Threads -> Locations]
    BY DEF TypeInv, TypePc
  <1>a. AfterOperation(t) => pc'[t] \in {"min", "count"}
    BY <1>y, AfterOperationIs
  <1> DEFINE Goal == /\ current' = current /\ marks' = marks
                     /\ pc'[t] = "scan" => DeqRead(t)
                     /\ pc'[t] = "advance" => DeqScan(t)
  <1> USE DEF vars, queue, cursor, Goto
  <1>1. ASSUME Start(t) \/ CallEnqueue(t) \/ Insert(t) \/ EndHelp(t) PROVE Goal
    BY <1>1, <1>y, <1>a DEF Start, CallEnqueue, Insert, EndHelp
  <1>2. ASSUME DeqRead(t) PROVE Goal
    BY <1>2, <1>y DEF DeqRead
  <1>3. ASSUME DeqScan(t) PROVE Goal
    BY <1>3, <1>y DEF DeqScan
  <1>4. ASSUME DeqTake(t) \/ DeqEmpty(t) PROVE Goal
    BY <1>4, <1>y, <1>a DEF DeqTake, DeqEmpty
  <1>5. ASSUME Publish(t) \/ PublishDraining(t) \/ CheckGVT(t) \/ WaitForCell(t) \/ Spin(t) \/ WriteGVT(t)
        PROVE  Goal
    BY <1>5, <1>y, <1>a DEF Publish, PublishDraining, CheckGVT, WaitForCell, Spin, WriteGVT
  <1>6. ASSUME ReadMin(t) \/ CallPrune(t) \/ PruneBucket(t) \/ Count(t) \/ SumOps(t) \/ Finish(t)
        PROVE  Goal
    BY <1>6, <1>y DEF ReadMin, CallPrune, PruneBucket, Count, SumOps, Finish
  <1> HIDE DEF Goal
  <1>7. Goal
    BY <1>1, <1>2, <1>3, <1>4, <1>5, <1>6, NoGrowth DEF Step, Growth
  <1> QED
    BY <1>7 DEF Goal

\* A write of current is of a new mark.
LEMMA CursorWrites ==
  ASSUME TypeInv, NEW t \in Threads, Flush(t) \/ DeqAdvance(t)
  PROVE  /\ marks' = [marks EXCEPT ![t] = marks[t] + 1]
         /\ current' = current \/ \E i \in Nat : current' = Drawn(t, i)
         /\ pc'[t] \notin {"scan", "advance"}
  <1>y. pc \in [Threads -> Locations]
    BY DEF TypeInv, TypePc
  <1>1. CASE Flush(t)
    <2>1. timestamp[t] \in Reached /\ BucketOf(timestamp[t]) \in Nat
      BY BucketNat DEF TypeInv, TypeOwn
    <2>2. EndEnqueue(t) /\ DrawMark(t) /\
          current' = IF BucketOf(timestamp[t]) <= current.index THEN Drawn(t, BucketOf(timestamp[t])) ELSE current
      BY <1>1 DEF Flush
    <2>3. pc'[t] \in {"help", "min", "count"}
      BY <2>2, <1>y, EndEnqueueIs, AfterOperationIs
    <2> QED
      BY <2>1, <2>2, <2>3 DEF DrawMark, Set
  <1>2. CASE DeqAdvance(t)
    <2>1. oldCur[t].index + 1 \in Nat
      BY DEF TypeInv, TypeQueue, Cursors
    <2>2. /\ DrawMark(t) /\ pc' = [pc EXCEPT ![t] = "read"]
          /\ current' = IF current = oldCur[t] THEN Drawn(t, oldCur[t].index + 1) ELSE current
      BY <1>2 DEF DeqAdvance, Goto
    <2> QED
      BY <2>1, <2>2, <1>y DEF DrawMark, Set
  <1> QED
    BY <1>1, <1>2

\* The marks that a CAS of current compares stay marks that somebody drew.
LEMMA MarksFreshStep ==
  ASSUME NotGrown', TypeInv, NeverGrown, MarksFresh, MarksKept', NEW t \in Threads, Step(t)
  PROVE  MarksFresh'
  <1>y. /\ pc \in [Threads -> Locations] /\ oldCur \in [Threads -> Cursors]
    BY DEF TypeInv, TypePc, TypeQueue
  <1>o. \A v \in Threads \ {t} : pc'[v] = pc[v] /\ oldCur'[v] = oldCur[v]
    BY OneThread
  <1>1. CASE Flush(t) \/ DeqAdvance(t)
    <2>1. /\ marks' = [marks EXCEPT ![t] = marks[t] + 1]
          /\ current' = current \/ \E i \in Nat : current' = Drawn(t, i)
          /\ pc'[t] \notin {"scan", "advance"}
      BY <1>1, CursorWrites
    <2>2. \A c : Known(c) => Known(c)'
      BY <2>1, KnownStays
    <2>3. \A i \in Nat : \A c : c = Drawn(t, i) => Known(c)'
      BY <2>1, NewMark
    <2>4. Known(current)'
      BY <2>1, <2>2, <2>3 DEF MarksFresh, Known
    <2>5. \A v \in Threads : pc'[v] \in {"scan", "advance"} => Known(oldCur[v])' 
      BY <2>1, <2>2, <1>o DEF MarksFresh, Known
    <2> QED
      BY <2>4, <2>5 DEF MarksFresh
  <1>2. CASE ~Flush(t) /\ ~DeqAdvance(t)
    <2>1. /\ current' = current /\ marks' = marks
          /\ pc'[t] = "scan" => DeqRead(t)
          /\ pc'[t] = "advance" => DeqScan(t)
      BY <1>2, CursorSteps
    <2>2. DeqRead(t) => oldCur'[t] = current
      BY <1>y DEF DeqRead, Set
    <2>3. DeqScan(t) => oldCur'[t] = oldCur[t] /\ pc[t] = "scan"
      BY DEF DeqScan
    <2>4. \A v \in Threads : pc'[v] \in {"scan", "advance"} => Known(oldCur[v])'
      BY <2>1, <2>2, <2>3, <1>o DEF MarksFresh, Known
    <2> QED
      BY <2>1, <2>4 DEF MarksFresh, Known
  <1> QED
    BY <1>1, <1>2

\* The cursor after a step.
LEMMA CursorStep ==
  ASSUME InitSizeFits, NotGrown', TypeInv, NeverGrown, MarksFresh, CursorRight, MarksKept',
         NEW t \in Threads, Step(t)
  PROVE  CursorRight'
  <1>y. /\ pc \in [Threads -> Locations] /\ oldCur \in [Threads -> Cursors]
        /\ current \in Cursors /\ \A x \in Timestamps : BucketOf(x) \in Nat
        /\ current.index \in Nat /\ \A v \in Threads : oldCur[v].index \in Nat
        /\ dequeue_size' = dequeue_size
    BY BucketNat, NoGrowth, TableKept DEF TypeInv, TypeQueue, TypePc, Reached, Cursors
  <1>l. \/ Live' \subseteq Live
        \/ Flush(t) /\ Live' \subseteq Live \cup {timestamp[t]}
    BY LiveSteps
  <1>o. \A v \in Threads \ {t} : pc'[v] = pc[v] /\ oldCur'[v] = oldCur[v]
    BY OneThread
  <1>t. \A x \in Live : x \in Timestamps /\ current.index <= BucketOf(x)
    BY DEF Live, CursorRight
  \* No dequeue() has read the value that a step writes.
  <1>w. ASSUME Flush(t) \/ DeqAdvance(t), NEW i \in Nat, current' = Drawn(t, i)
        PROVE  \A v \in Threads :
                 ~(pc'[v] = "advance" /\ oldCur'[v] = current' /\ oldCur'[v].index + 1 < dequeue_size')
    <2>1. /\ marks' = [marks EXCEPT ![t] = marks[t] + 1] /\ pc'[t] # "advance"
      BY <1>w, CursorWrites
    <2>2. \A c : Known(c) /\ c.index + 1 < dequeue_size => c # Drawn(t, i)
      BY <2>1, NewMark
    <2> QED
      BY <2>1, <2>2, <1>w, <1>o, <1>y DEF MarksFresh
  <1>1. CASE Flush(t)
    <2>1. timestamp[t] \in Timestamps
      BY <1>1 DEF Flush, TypeInv, TypeOwn, InHand
    <2>2. CASE BucketOf(timestamp[t]) <= current.index
      <3>1. current' = Drawn(t, BucketOf(timestamp[t])) /\ current'.index = BucketOf(timestamp[t])
        BY <1>1, <2>2 DEF Flush, Drawn
      <3>2. ASSUME NEW x \in Live' PROVE current'.index <= BucketOf(x)
        <4>1. CASE x = timestamp[t]
          BY <3>1, <4>1, <2>1, <1>y
        <4>2. CASE x \in Live
          BY <3>1, <4>2, <1>t, <2>2, <2>1, <1>y
        <4> QED
          BY <4>1, <4>2, <1>l, <3>2
      <3>3. BucketOf(timestamp[t]) \in Nat
        BY <2>1, <1>y
      <3> QED
        BY <3>1, <3>2, <3>3, <1>1, <1>w DEF CursorRight
    <2>3. CASE ~(BucketOf(timestamp[t]) <= current.index)
      <3>1. current' = current /\ pc'[t] # "advance"
        BY <1>1, <2>3, CursorWrites DEF Flush
      <3>2. current.index < BucketOf(timestamp[t])
        BY <2>1, <2>3, <1>y
      <3>3. \A x \in Live' : x \in Live \/ x = timestamp[t]
        BY <1>l
      <3>4. \A x \in Live' : current'.index <= BucketOf(x)
        BY <3>1, <3>2, <3>3, <2>1, <1>y, <1>t
      <3>5. ASSUME NEW v \in Threads, pc'[v] = "advance", oldCur'[v] = current',
                   oldCur'[v].index + 1 < dequeue_size', NEW x \in Live'
            PROVE  BucketOf(x) # current'.index
        <4>1. pc[v] = "advance" /\ oldCur[v] = current /\ oldCur[v].index + 1 < dequeue_size
          BY <3>1, <3>5, <1>o, <1>y
        <4>2. \A z \in Live : BucketOf(z) # current.index
          BY <4>1 DEF CursorRight
        <4> QED
          BY <3>1, <3>2, <3>3, <4>2, <3>5, <1>y, <2>1
      <3> QED
        BY <3>4, <3>5 DEF CursorRight
    <2> QED
      BY <2>2, <2>3
  <1>2. CASE DeqAdvance(t)
    <2>1. /\ Live' \subseteq Live /\ pc[t] = "advance" /\ oldCur[t].index + 1 < dequeue_size
          /\ current' = IF current = oldCur[t] THEN Drawn(t, oldCur[t].index + 1) ELSE current
      BY <1>2 DEF DeqAdvance, Live
    <2>2. CASE current = oldCur[t]
      <3>1. current' = Drawn(t, current.index + 1) /\ current'.index = current.index + 1
        BY <2>1, <2>2 DEF Drawn
      <3>2. \A x \in Live : BucketOf(x) # current.index
        BY <2>1, <2>2 DEF CursorRight
      <3>3. \A x \in Live' : current'.index <= BucketOf(x)
        BY <2>1, <3>1, <3>2, <1>t, <1>y
      <3>4. current.index + 1 \in Nat
        BY <1>y
      <3> QED
        BY <3>1, <3>3, <3>4, <1>2, <1>w DEF CursorRight
    <2>3. CASE current # oldCur[t]
      <3>1. current' = current /\ pc'[t] # "advance"
        BY <1>2, <2>1, <2>3, CursorWrites
      <3> QED
        BY <2>1, <3>1, <1>o, <1>y DEF CursorRight
    <2> QED
      BY <2>2, <2>3
  <1>3. CASE ~Flush(t) /\ ~DeqAdvance(t)
    <2>1. Live' \subseteq Live
      BY <1>3, <1>l
    <2>2. current' = current /\ (pc'[t] = "advance" => DeqScan(t))
      BY <1>3, CursorSteps
    <2>3. ASSUME pc'[t] = "advance", oldCur'[t] = current PROVE \A x \in Live : BucketOf(x) # current.index
      <3>1. DeqScan(t)
        BY <2>2, <2>3
      <3>2. pc[t] = "scan" /\ oldCur[t] = current
        BY <3>1, <2>3 DEF DeqScan
      <3>3. BucketEvents(current.index) = {}
        BY <3>1, <3>2, <2>3, <1>y DEF DeqScan, Goto
      <3>4. current.index < InitSize
        BY DEF TypeInv, TypeQueue, NeverGrown
      <3>5. \A x \in Linked : BucketOf(x) # current.index
        BY <3>3, <3>4, <1>y, WalkOfTable
      <3> QED
        BY <3>5 DEF Live, Linked
    <2> QED
      BY <2>1, <2>2, <2>3, <1>o, <1>y DEF CursorRight
  <1> QED
    BY <1>1, <1>2, <1>3

\* A step that leaves the cells alone and brings no event.
LEMMA GuardedQuiet ==
  ASSUME Guarded, Quiet, Live' \subseteq Live,
         \A x \in Live : \A v \in Threads : Guards(v, x) => Guards(v, x)'
  PROVE  Guarded'
  <1> SUFFICES ASSUME NEW x \in Live'
               PROVE  /\ \E v \in Threads : Guards(v, x)'
                      /\ \A t \in Threads : Waiting(t)' /\ x < array'[t] =>
                           \E v \in Threads \ Passed(t)' : Guards(v, x)'
                      /\ \A t \in Threads : Free(t)' => array'[t] <= x
    BY DEF Guarded
  <1>1. x \in Live
    OBVIOUS
  <1>2. \E v \in Threads : Guards(v, x)'
    BY <1>1 DEF Guarded
  <1>3. ASSUME NEW t \in Threads, Waiting(t)', x < array'[t]
        PROVE  \E v \in Threads \ Passed(t)' : Guards(v, x)'
    <2>1. Waiting(t) /\ x < array[t] /\ Passed(t)' = Passed(t)
      BY <1>3 DEF Quiet
    <2>2. PICK v \in Threads \ Passed(t) : Guards(v, x)
      BY <1>1, <2>1 DEF Guarded
    <2> QED
      BY <1>1, <2>1, <2>2
  <1>4. ASSUME NEW t \in Threads, Free(t)' PROVE array'[t] <= x
    <2>1. Free(t) /\ array' = array
      BY <1>4 DEF Quiet
    <2> QED
      BY <1>1, <2>1 DEF Guarded
  <1> QED
    BY <1>2, <1>3, <1>4

\* Every step keeps the events guarded: the new event of a flush is guarded by
\* the thread that flushes it, and the guard of an event that a thread leaves
\* behind is a thread that has not let it go.
LEMMA GuardedStep ==
  ASSUME InitSizeFits, TimestampsFit, SafetyCheck, EmptyQueue,
         NotGrown', TypeInv, NeverGrown, EventsFit, OrderInv, Guarded, CursorRight,
         NEW t \in Threads, Step(t)
  PROVE  Guarded'
  <1>y. /\ pc \in [Threads -> Locations] /\ draining \in [Threads -> BOOLEAN]
        /\ array \in [Threads -> Times] /\ others \in [Threads -> SUBSET Threads]
    BY DEF TypeInv, TypePc, TypeCells, TypeLoop
  <1>n. /\ \A v \in Threads : array[v] \in Nat /\ timestamp[v] \in Nat
        /\ \A x \in Live : x \in Nat
    BY TimesNat, DriverAssumption DEF TypeInv, TypeCells, TypeOwn, Live
  <1>p. \A v \in Threads : Passed(v) \subseteq Threads \ {v}
    BY DEF Passed, Others
  <1>o. \A v \in Threads \ {t} :
          /\ array'[v] = array[v] /\ Passed(v)' = Passed(v)
          /\ (Waiting(v)' <=> Waiting(v)) /\ (Free(v)' <=> Free(v))
    BY OneThread DEF Passed, Waiting, Free, Others
  <1>g. \A x \in Live : \A v \in Threads : Guards(v, x) => Guards(v, x)'
    BY OwnGuard, OtherGuards
  <1>l. ~Flush(t) => Live' \subseteq Live
    BY LiveSteps
  \* What is left to show of the threads but t.
  <1>r. ASSUME NEW x \in Live
        PROVE  /\ \E v \in Threads : Guards(v, x)'
               /\ \A w \in Threads \ {t} : Waiting(w)' /\ x < array'[w] =>
                    \E v \in Threads \ Passed(w)' : Guards(v, x)'
               /\ \A w \in Threads \ {t} : Free(w)' => array'[w] <= x
    <2>1. \E v \in Threads : Guards(v, x)'
      BY <1>g DEF Guarded
    <2>2. ASSUME NEW w \in Threads \ {t}, Waiting(w)', x < array'[w]
          PROVE  \E v \in Threads \ Passed(w)' : Guards(v, x)'
      <3>1. Waiting(w) /\ x < array[w] /\ Passed(w)' = Passed(w)
        BY <1>o, <2>2
      <3>2. PICK v \in Threads \ Passed(w) : Guards(v, x)
        BY <3>1 DEF Guarded
      <3> QED
        BY <1>g, <3>1, <3>2
    <2>3. \A w \in Threads \ {t} : Free(w)' => array'[w] <= x
      BY <1>o DEF Guarded
    <2> QED
      BY <2>1, <2>2, <2>3
  \* So a step is right if it is for t, and brings no event.
  <1>s. ASSUME ~Flush(t),
               \A x \in Live : Waiting(t)' /\ x < array'[t] =>
                 \E v \in Threads \ Passed(t)' : Guards(v, x)',
               \A x \in Live : Free(t)' => array'[t] <= x
        PROVE  Guarded'
    <2>1. Live' \subseteq Live
      BY <1>l, <1>s
    <2>2. \A x \in Live' :
            /\ \E v \in Threads : Guards(v, x)'
            /\ \A w \in Threads : Waiting(w)' /\ x < array'[w] =>
                 \E v \in Threads \ Passed(w)' : Guards(v, x)'
            /\ \A w \in Threads : Free(w)' => array'[w] <= x
      BY <1>r, <1>s, <2>1
    <2> QED
      BY <2>2 DEF Guarded
  <1>1. CASE Flush(t)
    <2>0. PICK x : x = timestamp[t]
      OBVIOUS
    <2>1. /\ pc[t] = "flush" /\ EndEnqueue(t) /\ array' = array /\ draining' = draining
      BY <1>1 DEF Flush, cells
    <2>2. /\ pc'[t] \in {"help", "min", "count"}
      BY <2>1, <1>y, EndEnqueueIs, AfterOperationIs
    <2>3. ~draining[t] /\ Free(t) /\ array[t] <= x /\ ~Waiting(t)'
      BY <2>0, <2>1, <2>2 DEF OrderInv, PhaseInv, AheadInv, HandInv, Hand, Free, Waiting
    <2>4. Guards(t, x)'
      BY <2>1, <2>2, <2>3 DEF Guards
    <2>5. ASSUME NEW w \in Threads, Waiting(w)', x < array'[w]
          PROVE  \E v \in Threads \ Passed(w)' : Guards(v, x)'
      <3>1. w # t /\ x < array[w] /\ Passed(w)' = Passed(w)
        BY <2>1, <2>3, <2>5, <1>o
      <3>2. t \in Passed(w) => Behind(w, t)
        BY <2>3 DEF OrderInv, InStep
      <3>3. ~Behind(w, t)
        BY <2>0, <2>3, <3>1, <1>n DEF Behind
      <3> QED
        BY <2>4, <3>1, <3>2, <3>3
    <2>6. ASSUME NEW w \in Threads, Free(w)' PROVE array'[w] <= x
      <3>1. CASE w = t
        BY <2>1, <2>3, <3>1
      <3>2. CASE w # t
        <4>1. Free(w)
          BY <1>o, <2>6, <3>2
        <4>2. array[w] <= array[t]
          BY <2>3, <3>2, <4>1 DEF OrderInv, InStep
        <4> QED
          BY <2>0, <2>1, <2>3, <4>2, <1>n
      <3> QED
        BY <3>1, <3>2
    <2>7. ASSUME NEW z \in Live'
          PROVE  /\ \E v \in Threads : Guards(v, z)'
                 /\ \A w \in Threads : Waiting(w)' /\ z < array'[w] =>
                      \E v \in Threads \ Passed(w)' : Guards(v, z)'
                 /\ \A w \in Threads : Free(w)' => array'[w] <= z
      <3>1. CASE z = x
        BY <2>4, <2>5, <2>6, <3>1
      <3>2. CASE z \in Live
        <4>1. Free(t)' => array'[t] <= z
          BY <2>1, <2>3, <3>2 DEF Guarded
        <4> QED
          BY <1>r, <2>3, <3>2, <4>1
      <3>3. Live' \subseteq Live \cup {timestamp[t]}
        BY LiveSteps
      <3> QED
        BY <2>0, <3>1, <3>2, <3>3
    <2> QED
      BY <2>7 DEF Guarded
  <1>2. CASE Publish(t)
    <2>1. /\ pc[t] = "publish" /\ ~draining[t] /\ pc' = [pc EXCEPT ![t] = "check"]
      BY <1>2, PublishIs
    <2>2. ~Free(t)' /\ Passed(t)' = {}
      BY <2>1, <1>y DEF Free, Waiting, Passed
    <2>3. ~Flush(t)
      BY <2>1 DEF Flush
    <2>4. \A z \in Live : \E v \in Threads : Guards(v, z)'
      BY <1>r
    <2> QED
      BY <1>s, <2>2, <2>3, <2>4
  <1>3. CASE PublishDraining(t) \/ Finish(t)
    <2>1. /\ draining[t] /\ draining' = draining /\ pc[t] # "flush"
          /\ pc' \in {[pc EXCEPT ![t] = "read"], [pc EXCEPT ![t] = "done"]}
      BY <1>3 DEF PublishDraining, Finish, OrderInv, PhaseInv, Goto, own
    <2>2. ~Free(t)' /\ ~Waiting(t)' /\ ~Flush(t)
      BY <2>1, <1>y DEF Free, Waiting, Flush
    <2> QED
      BY <1>s, <2>2
  <1>4. CASE WaitForCell(t)
    <2> DEFINE u == Min(others[t])
    <2>1. /\ pc[t] = "wait" /\ pc' = pc /\ array' = array
          /\ others' = [others EXCEPT ![t] = others[t] \ {u}]
          /\ others[t] # {} /\ ~KeepsWaiting(t, u)
      BY <1>4 DEF WaitForCell, Set, own, cells
    <2>2. u \in others[t] /\ u \in Threads /\ u # t
      BY <2>1, MinThread DEF TypeInv, TypeLoop
    <2>3. array[t] = timestamp[t] /\ Waiting(t)
      BY <2>1 DEF OrderInv, WaitInv, Waiting
    <2>4. array[t] <= array[u]
      BY <2>1, <2>2, <2>3, <1>n DEF KeepsWaiting
    <2> HIDE DEF u
    <2>5. Passed(t)' \subseteq Passed(t) \cup {u} /\ ~Free(t)' /\ ~Flush(t)
      BY <2>1, <1>y DEF Free, Waiting, Passed, Others, Flush
    <2>6. ASSUME NEW x \in Live, x < array'[t] PROVE \E v \in Threads \ Passed(t)' : Guards(v, x)'
      <3>1. PICK v \in Threads \ Passed(t) : Guards(v, x)
        BY <2>1, <2>3, <2>6 DEF Guarded
      <3>2. array[v] <= x
        BY <3>1 DEF Guards
      <3>3. v # u
        BY <2>1, <2>2, <2>4, <2>6, <3>2, <1>n
      <3> QED
        BY <1>g, <2>5, <3>1, <3>3
    <2> QED
      BY <1>s, <2>5, <2>6
  <1>5. CASE WriteGVT(t)
    <2>1. /\ pc[t] = "wait" /\ others[t] = {} /\ array' = array /\ AfterOperation(t)
      BY <1>5 DEF WriteGVT
    <2>2. pc'[t] \in {"min", "count"}
      BY <2>1, <1>y, AfterOperationIs
    <2>3. ~Waiting(t)' /\ ~Flush(t)
      BY <2>1, <2>2 DEF Waiting, Flush
    <2>4. Passed(t) = Others(t) /\ Waiting(t)
      BY <2>1 DEF Passed, Waiting
    <2>5. ASSUME NEW x \in Live PROVE array[t] <= x
      <3>1. SUFFICES ASSUME x < array[t] PROVE FALSE
        BY <1>n
      <3>2. PICK v \in Threads \ Passed(t) : Guards(v, x)
        BY <2>4, <3>1 DEF Guarded
      <3>3. v = t
        BY <2>4, <3>2 DEF Others
      <3> QED
        BY <3>1, <3>2, <3>3, <1>n DEF Guards
    <2> QED
      BY <1>s, <2>1, <2>3, <2>5
  <1>6. CASE ~Flush(t) /\ ~Loud(t)
    <2>1. Quiet
      BY <1>6, QuietSteps DEF OrderInv
    <2> QED
      BY <1>6, <1>g, <1>l, <2>1, GuardedQuiet
  <1> QED
    BY <1>1, <1>2, <1>3, <1>4, <1>5, <1>6 DEF Loud

\* GVT has passed no cell of the main loop.
GvtInv == \A t \in Threads : ~draining[t] => GVT <= array[t]

\* GVT is written by a thread whose cell comes before all others of the loop.
LEMMA GvtStep ==
  ASSUME SafetyCheck, TypeInv, OrderInv, GvtInv, NEW t \in Threads, Step(t)
  PROVE  GvtInv'
  <1>y. /\ array \in [Threads -> Times] /\ draining \in [Threads -> BOOLEAN]
        /\ \A v \in Threads : array[v] \in Nat /\ timestamp[v] \in Nat
        /\ GVT \in Nat
    BY TimesNat DEF TypeInv, TypeCells, TypePc, TypeOwn
  <1>1. CASE WriteGVT(t)
    <2>1. /\ pc[t] = "wait" /\ others[t] = {} /\ GVT' = timestamp[t] /\ array' = array
          /\ draining' = draining
      BY <1>1 DEF WriteGVT
    <2>2. array[t] = timestamp[t] /\ ~draining[t] /\ Passed(t) = Others(t)
      BY <2>1 DEF OrderInv, WaitInv, PhaseInv, Passed
    <2>3. GVT <= array[t]
      BY <2>2 DEF GvtInv
    <2>4. ASSUME NEW v \in Threads, ~draining[v] PROVE array[t] <= array[v]
      <3>1. v = t \/ v \in Passed(t)
        BY <2>2 DEF Others
      <3> QED
        BY <2>4, <3>1, <1>y DEF OrderInv, InStep, Behind
    <2> QED
      BY <2>1, <2>2, <2>3, <2>4 DEF GvtInv
  <1>2. CASE Publish(t)
    <2>1. /\ pc[t] = "publish" /\ ~draining[t] /\ array' = [array EXCEPT ![t] = timestamp[t]]
          /\ draining' = draining
      BY <1>2, PublishIs
    <2>2. GVT' = GVT
      BY <1>2, <2>1, GvtKept DEF WriteGVT
    <2>3. GVT <= array[t] /\ array[t] <= timestamp[t]
      BY <2>1 DEF GvtInv, OrderInv, AheadInv
    <2> QED
      BY <2>1, <2>2, <2>3, <1>y DEF GvtInv
  <1>3. CASE PublishDraining(t) \/ Finish(t)
    <2>1. /\ draining[t] /\ draining' = draining /\ GVT' = GVT
          /\ \A v \in Threads \ {t} : array'[v] = array[v]
      BY <1>3, <1>y DEF PublishDraining, Finish, OrderInv, PhaseInv, Set, own
    <2> QED
      BY <2>1, <1>y DEF GvtInv
  <1>4. CASE WaitForCell(t)
    BY <1>4, <1>y DEF WaitForCell, GvtInv, cells, own
  <1>5. CASE ~Loud(t)
    <2>1. Quiet
      BY <1>5, QuietSteps DEF OrderInv
    <2>2. GVT' = GVT
      BY <1>5, GvtKept DEF Loud
    <2> QED
      BY <2>1, <2>2, <1>y DEF GvtInv, Quiet
  <1> QED
    BY <1>1, <1>2, <1>3, <1>4, <1>5 DEF Loud

-----------------------------------------------------------------------------
\* The inductive invariant, of the program with SAFETY_CHECK and EMPTY_QUEUE:
\* where the events are with respect to current and to the threads as long as
\* the table has not grown.
Settled ==
  /\ InStep /\ AheadInv /\ GvtInv
  /\ EventsFit /\ Guarded /\ MarksFresh /\ CursorRight

DriverIndInv ==
  /\ PhaseInv /\ StartInv /\ WaitInv /\ MinInv /\ GrownInv
  /\ NotGrown => Settled

\* The events prune() meets are not before its thread's cell, so not in a bucket
\* below the threshold.
LEMMA PruneMeetsNothing ==
  ASSUME InitSizeFits, TimestampsFit, TypeInv, DriverIndInv, NotGrown,
         NEW t \in Threads, pc[t] = "prune", j[t] < acc[t]
  PROVE  BucketEvents(j[t]) = {}
  <1>1. Free(t) /\ ~draining[t]
    BY DEF DriverIndInv, PhaseInv, Free, Waiting
  <1>2. /\ array[t] \in Reached /\ j[t] \in Nat /\ acc[t] \in Nat
        /\ acc[t] <= array[t] \div BucketWidth
    BY <1>1 DEF DriverIndInv, Settled, AheadInv, HandInv, Hand, MinInv, BelowCell, TypeInv, TypeLoop
  <1>3. BucketOf(array[t]) = array[t] \div BucketWidth /\ BucketOf(array[t]) \in Nat
        /\ BucketOf(array[t]) < 2^WordBits /\ 2^WordBits \in Nat
    <2>1. BucketOf(array[t]) < 2^WordBits
      BY <1>2, HashNat, TimesNat, DriverAssumption DEF BucketOf
    <2>2. 2^WordBits \in Nat
      BY PowerAbove, WordAssumption
    <2> QED
      BY <1>2, <2>1, <2>2, BucketsInOrder, BucketNat
  <1>4. j[t] < BucketOf(array[t]) /\ j[t] < 2^WordBits
    BY <1>2, <1>3
  <1>5. ASSUME NEW x \in BucketEvents(j[t]) PROVE FALSE
    <2>1. x \in Linked /\ BucketOf(x) = j[t]
      BY <1>2, <1>4, <1>5, WalkIsExact
    <2>2. array[t] <= x
      BY <1>1, <2>1, TakenAhead DEF DriverIndInv, Settled, OrderInv
    <2>3. x \in Reached
      BY <2>1 DEF Linked, TypeInv, TypeOwn, TypeQueue, Reached
    <2>4. BucketOf(array[t]) <= BucketOf(x)
      BY <1>2, <2>2, <2>3, BucketsInOrder
    <2> QED
      BY <1>2, <1>3, <1>4, <2>1, <2>4
  <1> QED
    BY <1>5

\* No step stops the program before the table grows.
LEMMA NeverStoppedStep ==
  ASSUME InitSizeFits, TimestampsFit, LogPeriod # 0, TypeInv, DriverIndInv, NeverStopped, [Next]_vars
  PROVE  NeverStopped'
  <1> SUFFICES ASSUME NotGrown' PROVE outcome' \in {"running", "printed"}
    BY DEF NeverStopped
  <1>g. NotGrown /\ Settled
    BY SizesGrow DEF DriverIndInv
  <1>o. outcome \in {"running", "printed"}
    BY <1>g DEF NeverStopped
  <1> DEFINE Goal == outcome' \in {"running", "printed"}
  <1>1. ASSUME NEW t \in Threads, CheckGVT(t) PROVE Goal
    <2>1. pc[t] = "check"
      BY <1>1 DEF CheckGVT
    <2>2. timestamp[t] = array[t] /\ GVT <= array[t]
      BY <1>g, <2>1 DEF DriverIndInv, Settled, WaitInv, PhaseInv, GvtInv
    <2>3. array[t] \in Nat /\ GVT \in Nat
      BY TimesNat DEF TypeInv, TypeCells
    <2>4. ~(timestamp[t] < GVT)
      BY <2>2, <2>3
    <2> QED
      BY <1>1, <1>o, <2>4 DEF CheckGVT
  <1>2. ASSUME NEW t \in Threads, PruneBucket(t) PROVE Goal
    <2>1. BucketEvents(j[t]) = {}
      BY <1>2, <1>g, PruneMeetsNothing DEF PruneBucket
    <2> QED
      BY <1>2, <1>o, <2>1 DEF PruneBucket
  <1>3. ASSUME NEW t \in Threads, LogCondition(t) PROVE Goal
    BY <1>3, <1>o DEF LogCondition
  <1>4. outcome' = outcome \/ outcome' = "printed"
        \/ \E t \in Threads : CheckGVT(t) \/ PruneBucket(t) \/ LogCondition(t)
    <2>1. ASSUME NEW t \in Threads, Step(t)
          PROVE  outcome' = outcome \/ CheckGVT(t) \/ PruneBucket(t) \/ LogCondition(t)
      <3>1. CASE Growth(t) \/ InsertFuture(t)
        BY <3>1, GrowthIs, InsertFutureIs
      <3>2. CASE ~Growth(t) /\ ~InsertFuture(t)
        BY <2>1, <3>2 DEF Step, Growth, Start, CallEnqueue, Insert, Flush, EndHelp, DeqRead, DeqScan, DeqTake,
             DeqAdvance, DeqEmpty, Publish, PublishDraining, WaitForCell, Spin, WriteGVT, ReadMin, CallPrune,
             Count, SumOps, Finish, vars
      <3> QED
        BY <3>1, <3>2
    <2> QED
      BY <2>1 DEF Next, Exited, PrintCheck, vars
  <1> QED
    BY <1>1, <1>2, <1>3, <1>4, <1>o

\* Every step keeps the inductive invariant.
LEMMA DriverIndStep ==
  ASSUME InitSizeFits, TimestampsFit, SafetyCheck, EmptyQueue,
         TypeInv, DriverIndInv, MarksKept', [Next]_vars
  PROVE  DriverIndInv'
  <1>1. PhaseInv' /\ StartInv' /\ WaitInv' /\ GrownInv'
    BY PhaseInvStep, StartInvStep, WaitInvStep, GrownStep DEF DriverIndInv
  <1>2. MinInv'
    <2>1. ASSUME NEW t \in Threads, Step(t) PROVE MinInv'
      BY <2>1, MinStep DEF DriverIndInv
    <2>2. CASE Frozen
      BY <2>2 DEF Frozen, cells, loop, DriverIndInv, MinInv, BelowCell
    <2> QED
      BY <2>1, <2>2, NextCases
  <1>3. ASSUME NotGrown' PROVE Settled'
    <2>1. Settled /\ NeverGrown /\ OrderInv /\ HandInv
      BY <1>3, SizesGrow DEF DriverIndInv, GrownInv, Settled, OrderInv, AheadInv
    <2>2. ASSUME NEW t \in Threads, Step(t) PROVE Settled'
      <3>1. InStep'
        BY <2>1, <2>2, InStepStep DEF DriverIndInv, Settled, AheadInv
      <3>0. GvtInv'
        BY <2>1, <2>2, GvtStep DEF Settled
      <3>2. AheadInv' /\ EventsFit' /\ Guarded'
        BY <1>3, <2>1, <2>2, AheadStep, EventsFitStep, GuardedStep DEF Settled
      <3>3. MarksFresh' /\ CursorRight'
        BY <1>3, <2>1, <2>2, MarksFreshStep, CursorStep DEF Settled
      <3> QED
        BY <3>0, <3>1, <3>2, <3>3 DEF Settled
    <2>3. CASE Frozen
      <3>1. /\ array' = array /\ pc' = pc /\ draining' = draining /\ others' = others /\ oldCur' = oldCur
            /\ timestamp' = timestamp /\ local_min' = local_min /\ acc' = acc /\ GVT' = GVT
            /\ live' = live /\ current' = current /\ marks' = marks
            /\ dequeue_size' = dequeue_size /\ table_size' = table_size
        BY <2>3 DEF Frozen, queue, cursor, sizes, cells, loop, own
      <3>2. InStep' /\ GvtInv'
        BY <2>1, <3>1 DEF Settled, InStep, Free, Waiting, Passed, Behind, GvtInv
      <3>3. AheadInv'
        BY <2>1, <3>1 DEF Settled, AheadInv, HandInv, Hand, Free, Waiting
      <3>4. EventsFit' /\ Guarded'
        BY <2>1, <3>1 DEF Settled, EventsFit, Guarded, Guards, Live, Free, Waiting, Passed
      <3>5. MarksFresh'
        BY <2>1, <3>1 DEF Settled, MarksFresh, Known
      <3>6. CursorRight'
        BY <2>1, <3>1 DEF Settled, CursorRight, Live
      <3> QED
        BY <3>2, <3>3, <3>4, <3>5, <3>6 DEF Settled
    <2> QED
      BY <2>2, <2>3, NextCases
  <1> QED
    BY <1>1, <1>2, <1>3 DEF DriverIndInv

\* With SAFETY_CHECK and EMPTY_QUEUE, as long as the table has not grown every
\* event of the table is guarded by a thread that will meet it, current is not
\* past one, and the threads are in step with their cells: when INIT_SIZE is a
\* power of two and generate_mark() has cut no mark.  The mark of queue_init()
\* may be drawn.
THEOREM DriverInvariance ==
  ASSUME InitSizeFits, TimestampsFit, SafetyCheck, EmptyQueue
  PROVE  Spec /\ []MarksKept => []DriverIndInv
  <1>1. Init => DriverIndInv
    <2> SUFFICES ASSUME Init PROVE DriverIndInv
      OBVIOUS
    <2>1. \A t \in Threads :
            /\ pc[t] = "start" /\ ~draining[t] /\ array[t] = 0 /\ local_min[t] = 0
            /\ others[t] = {}
      BY DEF Init
    <2>2. PhaseInv /\ StartInv /\ WaitInv
      BY <2>1 DEF PhaseInv, StartInv, WaitInv
    <2>3. GrownInv
      BY <2>1, DriverAssumption DEF Init, GrownInv, NeverGrown
    <2>4. InStep /\ AheadInv
      BY <2>1 DEF InStep, AheadInv, HandInv, Hand, Passed, Reached
    <2>5. Live = {}
      BY DEF Init, Live, NoEvents
    <2>6. EventsFit /\ Guarded /\ CursorRight
      BY <2>1, <2>5 DEF EventsFit, Guarded, CursorRight
    <2>7. MarksFresh
      BY <2>1 DEF Init, MarksFresh, Known
    <2>8. MinInv
      BY <2>1 DEF MinInv, BelowCell
    <2>9. GvtInv
      BY <2>1 DEF Init, GvtInv
    <2> QED
      BY <2>2, <2>3, <2>4, <2>6, <2>7, <2>8, <2>9 DEF DriverIndInv, Settled
  <1>2. TypeInv /\ DriverIndInv /\ MarksKept' /\ [Next]_vars => DriverIndInv'
    BY DriverIndStep
  <1> QED
    BY <1>1, <1>2, TypesHold, PTL DEF Spec

\* Then no thread stops the program before the table grows, however many there
\* are: no timestamp is below GVT at its check, prune() meets no event that
\* nobody took, and the log period is never a zero divisor when the run does
\* enough operations.
THEOREM ProgramNeverStopped ==
  ASSUME InitSizeFits, TimestampsFit, SafetyCheck, EmptyQueue, LogPeriod # 0
  PROVE  Spec /\ []MarksKept => []NeverStopped
  <1>1. Init => NeverStopped
    BY DEF Init, NeverStopped
  <1>2. TypeInv /\ DriverIndInv /\ NeverStopped /\ [Next]_vars => NeverStopped'
    BY NeverStoppedStep
  <1> QED
    BY <1>1, <1>2, TypesHold, DriverInvariance, PTL DEF Spec

-----------------------------------------------------------------------------
\* How many operations the threads do.

\* Sum is the sum over all of the domain.
LEMMA SumIs == \A f : Sum(f) = SumOver(f)[DOMAIN f]
  BY FoldIsSum DEF Sum

\* What a sum over threads is made of, and how it changes.
LEMMA ThreadsTakeOut ==
  ASSUME NEW f \in [Threads -> Int], NEW s \in SUBSET Threads, NEW i \in s
  PROVE  SumOver(f)[s] = f[i] + SumOver(f)[s \ {i}]
  <1>1. IsFiniteSet(Threads)
    BY DriverAssumption
  <1> QED
    BY <1>1, SumTakeOut

\* The same sum after one thread has changed its share.
LEMMA ThreadsChange ==
  ASSUME NEW f \in [Threads -> Int], NEW h \in [Threads -> Int], NEW i \in Threads,
         \A k \in Threads \ {i} : h[k] = f[k], NEW s \in SUBSET Threads
  PROVE  SumOver(h)[s] = SumOver(f)[s] + (IF i \in s THEN h[i] - f[i] ELSE 0)
  <1>1. IsFiniteSet(Threads)
    BY DriverAssumption
  <1> QED
    BY <1>1, SumChange

\* The operations of some of the threads.
Counted(s) == SumOver(ops_count)[s]

\* The thread can still count an operation: it is in the main loop, and not
\* bound to find TOTAL_OPS operations done.
MayCount(t) ==
  /\ ~draining[t]
  /\ ~(pc[t] \in {"start", "loop", "sum"} /\ acc[t] + Counted(others[t]) >= TotalOps)

\* The threads that can still count.
Counters == {t \in Threads : MayCount(t)}

\* Once TOTAL_OPS operations are counted, the threads that can still count leave
\* room for one operation each, and one thread has used its own: it is the one
\* that counted up to TOTAL_OPS, and it will read that.  A thread reads a
\* tot_count that is not above what the threads it has read have counted.
OpsInv ==
  /\ Counted(Threads) >= TotalOps =>
       Counted(Threads) + Cardinality(Counters)
         <= TotalOps + Cardinality(Threads) - 1
  /\ \A t \in Threads :
       /\ pc[t] \in {"start", "loop", "sum"} => acc[t] <= Counted(Threads \ others[t])
       /\ draining[t] => Counted(Threads) >= TotalOps

\* The operations of some threads are a number.
LEMMA CountedNat == TypeInv => \A s \in SUBSET Threads : Counted(s) \in Nat
  <1> SUFFICES ASSUME TypeInv PROVE \A s \in SUBSET Threads : Counted(s) \in Nat
    OBVIOUS
  <1>1. ops_count \in [Threads -> Nat]
    BY DEF TypeInv, TypeCells
  <1> QED
    BY <1>1, SumNat, DriverAssumption DEF Counted

\* A step that counts nothing, after which no more threads can count.
LEMMA OpsKept ==
  ASSUME TypeInv, OpsInv, ops_count' = ops_count,
         \A v \in Threads : MayCount(v)' => MayCount(v)
  PROVE  Counted(Threads)' >= TotalOps =>
           Counted(Threads)' + Cardinality(Counters')
             <= TotalOps + Cardinality(Threads) - 1
  <1> DEFINE M == Counters
             N == Counters'
  <1>1. N \subseteq M /\ IsFiniteSet(M) /\ IsFiniteSet(N)
    <2>1. M \subseteq Threads /\ N \subseteq M
      BY DEF Counters
    <2> QED
      BY <2>1, FS_Subset, DriverAssumption
  <1>2. Cardinality(N) <= Cardinality(M) /\ Cardinality(N) \in Nat /\ Cardinality(M) \in Nat
    BY <1>1, FS_Subset, FS_CardinalityType
  <1>3. Counted(Threads)' = Counted(Threads)
    BY DEF Counted
  <1>4. Counted(Threads) \in Nat /\ TotalOps \in Nat /\ Cardinality(Threads) \in Nat
    BY CountedNat, FS_CardinalityType, DriverAssumption
  <1>5. Counted(Threads) >= TotalOps =>
          Counted(Threads) + Cardinality(M) <= TotalOps + Cardinality(Threads) - 1
    BY DEF OpsInv
  <1> HIDE DEF M, N
  <1>6. Counted(Threads)' >= TotalOps =>
          Counted(Threads)' + Cardinality(N) <= TotalOps + Cardinality(Threads) - 1
    BY <1>2, <1>3, <1>4, <1>5
  <1> QED
    BY <1>6 DEF N

\* Every step of a thread keeps the count: a thread that counts could count,
\* and can no more once TOTAL_OPS operations are counted.
LEMMA OpsStep ==
  ASSUME TypeInv, PhaseInv, OpsInv, NEW t \in Threads, Step(t)
  PROVE  OpsInv'
  <1>y. /\ pc \in [Threads -> Locations] /\ draining \in [Threads -> BOOLEAN]
        /\ acc \in [Threads -> Nat] /\ others \in [Threads -> SUBSET Threads]
        /\ ops_count \in [Threads -> Nat] /\ TotalOps \in Nat
    BY DriverAssumption DEF TypeInv, TypeCells, TypePc, TypeLoop
  <1>p. pc[t] \in {"start", "loop", "insert", "flush", "check", "wait", "min", "prune", "count", "sum"} =>
          ~draining[t]
    BY DEF PhaseInv
  <1>l. pc[t] \in {"start", "loop"} => others[t] = {}
    BY DEF TypeInv, TypeLoop
  <1>n. \A s \in SUBSET Threads : Counted(s) \in Nat
    BY CountedNat
  <1>e. Counted({}) = 0
    <2>1. IsFiniteSet(DOMAIN ops_count)
      BY <1>y, DriverAssumption
    <2> QED
      BY <2>1, SumNone DEF Counted
  <1>h. /\ pc[t] \in {"start", "loop", "sum"} => acc[t] <= Counted(Threads \ others[t])
        /\ draining[t] => Counted(Threads) >= TotalOps
    BY DEF OpsInv
  <1>o. \A v \in Threads \ {t} :
          /\ pc'[v] = pc[v] /\ acc'[v] = acc[v] /\ others'[v] = others[v] /\ draining'[v] = draining[v]
    BY OneThread
  <1>a. AfterOperation(t) => pc'[t] \in {"min", "count"}
    BY <1>y, AfterOperationIs
  \* A step that counts nothing, by what it does to t.
  <1>s. ASSUME ops_count' = ops_count, MayCount(t)' => MayCount(t),
               pc'[t] \in {"start", "loop", "sum"} => acc'[t] <= Counted(Threads \ others'[t]),
               draining'[t] => Counted(Threads) >= TotalOps
        PROVE  OpsInv'
    <2>1. \A s : Counted(s)' = Counted(s)
      BY <1>s DEF Counted
    <2>2. \A v \in Threads \ {t} : MayCount(v)' <=> MayCount(v)
      <3> TAKE v \in Threads \ {t}
      <3>1. Counted(others[v])' = Counted(others[v])
        BY <1>o, <1>s DEF Counted
      <3> QED
        BY <1>o, <3>1 DEF MayCount
    <2>3. Counted(Threads)' >= TotalOps =>
            Counted(Threads)' + Cardinality(Counters')
              <= TotalOps + Cardinality(Threads) - 1
      BY <1>s, <2>2, OpsKept
    <2>4. ASSUME NEW v \in Threads
          PROVE  /\ pc'[v] \in {"start", "loop", "sum"} => acc'[v] <= Counted(Threads \ others[v])'
                 /\ draining'[v] => Counted(Threads)' >= TotalOps
      <3>1. Counted(Threads)' = Counted(Threads)
        BY <2>1
      <3>2. Counted(Threads \ others[v])' = SumOver(ops_count)[Threads \ others'[v]]
        BY <1>s DEF Counted
      <3>3. CASE v = t
        BY <1>s, <3>1, <3>2, <3>3 DEF Counted
      <3>4. CASE v # t
        BY <1>o, <3>1, <3>2, <3>4 DEF Counted, OpsInv
      <3> QED
        BY <3>3, <3>4
    <2> HIDE DEF Counted
    <2> QED
      BY <2>3, <2>4 DEF OpsInv
  <1> USE DEF vars, queue, cursor, sizes, lists, cells, loop, own, Goto, Set
  <1>1. CASE Start(t)
    <2>1. /\ pc[t] = "start" /\ ops_count' = ops_count /\ acc' = acc /\ others' = others
          /\ draining' = draining /\ pc'[t] = "loop"
      BY <1>1, <1>y DEF Start
    <2>2. Counted(others[t])' = Counted(others[t])
      BY <2>1 DEF Counted
    <2>3. MayCount(t)' => MayCount(t)
      BY <2>1, <2>2 DEF MayCount
    <2> QED
      BY <2>1, <2>3, <1>s, <1>h
  <1>2. CASE CallEnqueue(t)
    <2>1. /\ pc[t] = "loop" /\ acc[t] < TotalOps /\ ops_count' = ops_count /\ draining' = draining
          /\ pc'[t] = "insert"
      BY <1>2, <1>y DEF CallEnqueue
    <2>2. ~draining[t] /\ acc[t] + Counted(others[t]) = acc[t]
      <3>1. ~draining[t] /\ others[t] = {} /\ acc[t] \in Nat
        BY <2>1, <1>l, <1>p, <1>y
      <3> QED
        BY <3>1, <1>e
    <2>3. MayCount(t)
      BY <2>1, <2>2, <1>y DEF MayCount
    <2> QED
      BY <2>1, <2>2, <2>3, <1>s
  <1>3. CASE Insert(t)
    <2>1. /\ ops_count' = ops_count /\ draining' = draining /\ pc[t] \notin {"start", "loop", "sum"}
          /\ pc'[t] \notin {"start", "loop", "sum"}
      BY <1>3, <1>y, <1>a DEF Insert
    <2> QED
      BY <2>1, <1>h, <1>s DEF MayCount
  <1>4. CASE Flush(t)
    <2>1. /\ ops_count' = ops_count /\ draining' = draining /\ pc[t] \notin {"start", "loop", "sum"}
          /\ EndEnqueue(t)
      BY <1>4, Zenon DEF Flush
    <2>2. pc'[t] \in {"help", "min", "count"}
      BY <2>1, <1>a, <1>y, EndEnqueueIs
    <2> QED
      BY <2>1, <2>2, <1>h, <1>s DEF MayCount
  <1>5. CASE DeqRead(t)
    <2>1. /\ ops_count' = ops_count /\ pc' = [pc EXCEPT ![t] = "scan"]
          /\ \/ /\ pc[t] = "loop"
                /\ draining' = [draining EXCEPT ![t] = (acc[t] >= TotalOps)]
             \/ /\ pc[t] = "read"
                /\ draining' = draining
      BY <1>5 DEF DeqRead
    <2>2. CASE pc[t] = "loop"
      <3>1. ~draining[t] /\ others[t] = {} /\ acc[t] <= Counted(Threads)
        BY <2>2, <1>h, <1>l, <1>p
      <3>2. draining'[t] <=> acc[t] >= TotalOps
        BY <2>1, <2>2, <1>y
      <3>3. draining'[t] => Counted(Threads) >= TotalOps
        BY <3>1, <3>2, <1>n, <1>y
      <3>4. acc[t] + Counted(others[t]) = acc[t]
        BY <3>1, <1>e, <1>y
      <3>5. ~draining'[t] => MayCount(t)
        BY <2>2, <3>1, <3>2, <3>4 DEF MayCount
      <3>6. MayCount(t)' => ~draining'[t]
        BY DEF MayCount
      <3>7. pc'[t] = "scan"
        BY <2>1, <1>y
      <3> QED
        BY <2>1, <3>3, <3>5, <3>6, <3>7, <1>s
    <2>3. CASE pc[t] = "read"
      <3>1. draining' = draining /\ pc'[t] = "scan"
        BY <2>1, <2>3, <1>y
      <3> QED
        BY <2>1, <2>3, <3>1, <1>h, <1>s DEF MayCount
    <2> QED
      BY <2>1, <2>2, <2>3
  <1>6. CASE DeqScan(t)
    <2>1. /\ ops_count' = ops_count /\ draining' = draining /\ pc[t] \notin {"start", "loop", "sum"}
          /\ pc'[t] \notin {"start", "loop", "sum"}
      BY <1>6, <1>y, <1>a DEF DeqScan
    <2> QED
      BY <2>1, <1>h, <1>s DEF MayCount
  <1>7. CASE DeqTake(t)
    <2>1. /\ ops_count' = ops_count /\ draining' = draining /\ pc[t] \notin {"start", "loop", "sum"}
          /\ pc'[t] \notin {"start", "loop", "sum"}
      BY <1>7, <1>y, <1>a DEF DeqTake
    <2> QED
      BY <2>1, <1>h, <1>s DEF MayCount
  <1>8. CASE DeqAdvance(t)
    <2>1. /\ ops_count' = ops_count /\ draining' = draining /\ pc[t] \notin {"start", "loop", "sum"}
          /\ pc'[t] \notin {"start", "loop", "sum"}
      BY <1>8, <1>y, <1>a DEF DeqAdvance, DrawMark
    <2> QED
      BY <2>1, <1>h, <1>s DEF MayCount
  <1>9. CASE DeqEmpty(t)
    <2>1. /\ ops_count' = ops_count /\ draining' = draining /\ pc[t] \notin {"start", "loop", "sum"}
          /\ pc'[t] \notin {"start", "loop", "sum"}
      BY <1>9, <1>y, <1>a DEF DeqEmpty
    <2> QED
      BY <2>1, <1>h, <1>s DEF MayCount
  <1>10. CASE Publish(t)
    <2>1. /\ ops_count' = ops_count /\ draining' = draining /\ pc[t] \notin {"start", "loop", "sum"}
          /\ pc'[t] \notin {"start", "loop", "sum"}
      BY <1>10, <1>y, <1>a DEF Publish
    <2> QED
      BY <2>1, <1>h, <1>s DEF MayCount
  <1>11. CASE PublishDraining(t)
    <2>1. /\ ops_count' = ops_count /\ draining' = draining /\ pc[t] \notin {"start", "loop", "sum"}
          /\ pc'[t] \notin {"start", "loop", "sum"}
      BY <1>11, <1>y, <1>a DEF PublishDraining
    <2> QED
      BY <2>1, <1>h, <1>s DEF MayCount
  <1>12. CASE CheckGVT(t)
    <2>1. /\ ops_count' = ops_count /\ draining' = draining /\ pc[t] \notin {"start", "loop", "sum"}
          /\ pc'[t] \notin {"start", "loop", "sum"}
      BY <1>12, <1>y, <1>a DEF CheckGVT
    <2> QED
      BY <2>1, <1>h, <1>s DEF MayCount
  <1>13. CASE WaitForCell(t)
    <2>1. /\ ops_count' = ops_count /\ draining' = draining /\ pc[t] \notin {"start", "loop", "sum"}
          /\ pc'[t] \notin {"start", "loop", "sum"}
      BY <1>13, <1>y, <1>a DEF WaitForCell
    <2> QED
      BY <2>1, <1>h, <1>s DEF MayCount
  <1>14. CASE Spin(t)
    <2>1. /\ ops_count' = ops_count /\ draining' = draining /\ pc[t] \notin {"start", "loop", "sum"}
          /\ pc'[t] \notin {"start", "loop", "sum"}
      BY <1>14, <1>y, <1>a DEF Spin
    <2> QED
      BY <2>1, <1>h, <1>s DEF MayCount
  <1>15. CASE WriteGVT(t)
    <2>1. /\ ops_count' = ops_count /\ draining' = draining /\ pc[t] \notin {"start", "loop", "sum"}
          /\ pc'[t] \notin {"start", "loop", "sum"}
      BY <1>15, <1>y, <1>a DEF WriteGVT
    <2> QED
      BY <2>1, <1>h, <1>s DEF MayCount
  <1>16. CASE ReadMin(t)
    <2>1. /\ ops_count' = ops_count /\ draining' = draining /\ pc[t] \notin {"start", "loop", "sum"}
          /\ pc'[t] \notin {"start", "loop", "sum"}
      BY <1>16, <1>y, <1>a DEF ReadMin
    <2> QED
      BY <2>1, <1>h, <1>s DEF MayCount
  <1>17. CASE CallPrune(t)
    <2>1. /\ ops_count' = ops_count /\ draining' = draining /\ pc[t] \notin {"start", "loop", "sum"}
          /\ pc'[t] \notin {"start", "loop", "sum"}
      BY <1>17, <1>y, <1>a DEF CallPrune
    <2> QED
      BY <2>1, <1>h, <1>s DEF MayCount
  <1>18. CASE PruneBucket(t)
    <2>1. /\ ops_count' = ops_count /\ draining' = draining /\ pc[t] \notin {"start", "loop", "sum"}
          /\ pc'[t] \notin {"start", "loop", "sum"}
      BY <1>18, <1>y, <1>a DEF PruneBucket
    <2> QED
      BY <2>1, <1>h, <1>s DEF MayCount
  <1>19. CASE Count(t)
    <2>1. /\ pc[t] \in {"count", "prune"} /\ ~draining[t] /\ draining' = draining
          /\ ops_count' = [ops_count EXCEPT ![t] = ops_count[t] + 1]
          /\ others' = [others EXCEPT ![t] = Others(t)]
          /\ acc' = [acc EXCEPT ![t] = ops_count'[t]]
          /\ pc' = [pc EXCEPT ![t] = "sum"]
      BY <1>19, <1>p DEF Count
    <2>2. ops_count \in [Threads -> Int] /\ ops_count[t] + 1 \in Int
      BY <1>y
    <2>3. ASSUME NEW s \in SUBSET Threads
          PROVE  SumOver(ops_count')[s] = Counted(s) + (IF t \in s THEN 1 ELSE 0)
      <3>1. ops_count' \in [Threads -> Int] /\ \A v \in Threads \ {t} : ops_count'[v] = ops_count[v]
        BY <2>1, <1>y
      <3>2. SumOver(ops_count')[s]
              = SumOver(ops_count)[s] + (IF t \in s THEN ops_count'[t] - ops_count[t] ELSE 0)
        BY <2>2, <3>1, ThreadsChange
      <3>3. ops_count'[t] - ops_count[t] = 1
        BY <2>1, <1>y
      <3> QED
        BY <3>2, <3>3 DEF Counted
    <2>4. Counted(Threads)' = Counted(Threads) + 1
      BY <2>3 DEF Counted
    <2>5. others'[t] = Others(t) /\ pc'[t] = "sum" /\ acc'[t] = ops_count[t] + 1
      BY <2>1, <1>y
    <2>6. Counted(others[t])' = Counted(Others(t)) /\ Others(t) \in SUBSET Threads
      <3>1. Others(t) \in SUBSET Threads /\ t \notin Others(t)
        BY DEF Others
      <3>2. SumOver(ops_count')[Others(t)] = Counted(Others(t)) + 0
        BY <2>3, <3>1
      <3> QED
        BY <2>5, <3>1, <3>2, <1>n DEF Counted
    <2>7. Counted(Threads) = ops_count[t] + Counted(Others(t))
      BY <2>2, ThreadsTakeOut DEF Counted, Others
    <2>8. acc'[t] + Counted(others[t])' = Counted(Threads)'
      BY <2>4, <2>5, <2>6, <2>7, <1>n, <1>y
    <2>9. Counted(Threads)' >= TotalOps => ~MayCount(t)'
      BY <2>5, <2>8 DEF MayCount
    <2>10. \A v \in Threads \ {t} : MayCount(v)' => MayCount(v)
      <3> TAKE v \in Threads \ {t}
      <3>1. Counted(others[v])' >= Counted(others[v])
        <4>1. others'[v] = others[v] /\ others[v] \in SUBSET Threads
          BY <1>o, <1>y
        <4>2. Counted(others[v])' = Counted(others[v]) + (IF t \in others[v] THEN 1 ELSE 0)
          BY <2>3, <4>1 DEF Counted
        <4> QED
          BY <4>1, <4>2, <1>n
      <3>2. Counted(others[v])' \in Nat
        <4>1. others'[v] = others[v] /\ others[v] \in SUBSET Threads
          BY <1>o, <1>y
        <4>2. Counted(others[v])' = Counted(others[v]) + (IF t \in others[v] THEN 1 ELSE 0)
          BY <2>3, <4>1 DEF Counted
        <4> QED
          BY <4>1, <4>2, <1>n
      <3>3. acc'[v] = acc[v] /\ acc[v] \in Nat /\ Counted(others[v]) \in Nat
        BY <1>o, <1>n, <1>y
      <3>4. acc[v] + Counted(others[v]) >= TotalOps => acc'[v] + Counted(others[v])' >= TotalOps
        BY <3>1, <3>2, <3>3, <1>y
      <3> QED
        BY <1>o, <3>4 DEF MayCount
    <2>11. MayCount(t)
      BY <2>1 DEF MayCount
    <2>12. Counted(Threads)' >= TotalOps =>
             Counted(Threads)' + Cardinality(Counters')
               <= TotalOps + Cardinality(Threads) - 1
      <3> DEFINE M == Counters
                 N == Counters'
      <3>1. SUFFICES ASSUME Counted(Threads)' >= TotalOps
                     PROVE  Counted(Threads)' + Cardinality(N) <= TotalOps + Cardinality(Threads) - 1
        OBVIOUS
      <3>2. N \subseteq M \ {t} /\ t \in M /\ M \subseteq Threads
        BY <2>9, <2>10, <2>11, <3>1 DEF Counters
      <3> HIDE DEF M, N
      <3>3. IsFiniteSet(M) /\ Cardinality(M) <= Cardinality(Threads)
        BY <3>2, FS_Subset, DriverAssumption
      <3>4. IsFiniteSet(M \ {t}) /\ Cardinality(M \ {t}) = Cardinality(M) - 1
        BY <3>2, <3>3, FS_RemoveElement
      <3>5. IsFiniteSet(N) /\ Cardinality(N) <= Cardinality(M) - 1
        BY <3>2, <3>4, FS_Subset
      <3>6. /\ Cardinality(N) \in Nat /\ Cardinality(M) \in Nat /\ Cardinality(Threads) \in Nat
            /\ Counted(Threads) \in Nat
        BY <3>3, <3>5, <1>n, FS_CardinalityType, DriverAssumption
      <3>7. CASE Counted(Threads) >= TotalOps
        <4>1. Counted(Threads) + Cardinality(M) <= TotalOps + Cardinality(Threads) - 1
          BY <3>7 DEF OpsInv, M
        <4> QED
          BY <2>4, <3>5, <3>6, <4>1, <1>y
      <3>8. CASE ~(Counted(Threads) >= TotalOps)
        BY <2>4, <3>1, <3>3, <3>5, <3>6, <3>8, <1>y
      <3> QED
        BY <3>7, <3>8
    <2>13. ASSUME NEW v \in Threads
           PROVE  /\ pc'[v] \in {"start", "loop", "sum"} => acc'[v] <= Counted(Threads \ others[v])'
                  /\ draining'[v] => Counted(Threads)' >= TotalOps
      <3>1. draining'[v] => Counted(Threads)' >= TotalOps
        <4>1. draining[v] => Counted(Threads) >= TotalOps
          BY DEF OpsInv
        <4>2. Counted(Threads) \in Nat
          BY <1>n
        <4> QED
          BY <2>1, <2>4, <4>1, <4>2, <1>y
      <3>2. ASSUME pc'[v] \in {"start", "loop", "sum"} PROVE acc'[v] <= Counted(Threads \ others[v])'
        <4>1. CASE v = t
          <5>1. Threads \ others'[t] = {t}
            BY <2>5 DEF Others
          <5>2. Counted(Threads \ others[t])' = Counted({t}) + 1
            <6>1. {t} \in SUBSET Threads /\ t \in {t}
              OBVIOUS
            <6>2. SumOver(ops_count')[{t}] = Counted({t}) + 1
              BY <2>3, <6>1
            <6> QED
              BY <5>1, <6>2 DEF Counted
          <5>3. {t} \in SUBSET Threads /\ t \in {t} /\ {t} \ {t} = {}
            OBVIOUS
          <5>4. Counted({t}) = ops_count[t] + Counted({})
            <6>1. SumOver(ops_count)[{t}] = ops_count[t] + SumOver(ops_count)[{t} \ {t}]
              BY <2>2, <5>3, ThreadsTakeOut
            <6> QED
              BY <5>3, <6>1 DEF Counted
          <5>5. Counted({t}) = ops_count[t]
            BY <5>4, <1>e, <1>y
          <5>6. acc'[t] = Counted(Threads \ others[t])' /\ ops_count[t] + 1 \in Nat
            BY <2>5, <5>2, <5>5, <1>y
          <5> QED
            BY <2>5, <4>1, <5>6
        <4>2. CASE v # t
          <5>1. others'[v] = others[v] /\ acc'[v] = acc[v] /\ pc'[v] = pc[v]
            BY <1>o, <4>2
          <5>2. acc[v] <= Counted(Threads \ others[v])
            BY <3>2, <5>1 DEF OpsInv
          <5>3. Counted(Threads \ others[v])'
                  = Counted(Threads \ others[v]) + (IF t \in Threads \ others[v] THEN 1 ELSE 0)
            BY <2>3, <5>1 DEF Counted
          <5>4. Counted(Threads \ others[v]) \in Nat
            BY <1>n
          <5> QED
            BY <5>1, <5>2, <5>3, <5>4, <1>y
        <4> QED
          BY <4>1, <4>2
      <3> QED
        BY <3>1, <3>2
    <2>14. /\ \A v \in Threads : pc'[v] \in {"start", "loop", "sum"} =>
                                  acc'[v] <= Counted(Threads \ others[v])'
           /\ \A v \in Threads : draining'[v] => Counted(Threads)' >= TotalOps
      BY <2>13
    <2> HIDE DEF Counted, MayCount, queue, cursor, sizes, lists, cells, loop, own, vars, Goto, Set
    <2> QED
      BY <2>12, <2>14 DEF OpsInv
  <1>20. CASE SumOps(t)
    <2> DEFINE u == Min(others[t])
    <2>1. /\ pc[t] = "sum" /\ ops_count' = ops_count /\ draining' = draining
          /\ acc' = [acc EXCEPT ![t] = acc[t] + ops_count[u]]
          /\ others' = [others EXCEPT ![t] = others[t] \ {u}]
      BY <1>20 DEF SumOps
    <2>2. u \in others[t] /\ u \in Threads
      <3>1. others[t] # {}
        BY <2>1 DEF TypeInv, TypeLoop
      <3> QED
        BY <3>1, <1>y, MinThread
    <2> HIDE DEF u
    <2>3. acc'[t] = acc[t] + ops_count[u] /\ others'[t] = others[t] \ {u}
      BY <2>1, <1>y
    <2>4. ops_count \in [Threads -> Int]
      BY <1>y
    <2>5. Counted(others[t]) = ops_count[u] + Counted(others[t] \ {u})
      <3> DEFINE R == others[t]
      <3>1. R \in SUBSET Threads /\ u \in R
        BY <2>2, <1>y
      <3> HIDE DEF R
      <3>2. SumOver(ops_count)[R] = ops_count[u] + SumOver(ops_count)[R \ {u}]
        BY <2>4, <3>1, ThreadsTakeOut
      <3> QED
        BY <3>2 DEF Counted, R
    <2>6. Counted(Threads \ (others[t] \ {u})) = ops_count[u] + Counted(Threads \ others[t])
      <3> DEFINE S == Threads \ (others[t] \ {u})
      <3>1. u \in S /\ S \ {u} = Threads \ others[t] /\ S \in SUBSET Threads
        BY <2>2
      <3> HIDE DEF S
      <3>2. Counted(S) = ops_count[u] + Counted(S \ {u})
        <4>1. SumOver(ops_count)[S] = ops_count[u] + SumOver(ops_count)[S \ {u}]
          BY <2>4, <3>1, ThreadsTakeOut
        <4> QED
          BY <4>1 DEF Counted
      <3> QED
        BY <3>1, <3>2 DEF S
    <2>7. acc'[t] <= Counted(Threads \ others'[t])
      <3>1. acc[t] <= Counted(Threads \ others[t]) /\ Counted(Threads \ others[t]) \in Nat
        BY <2>1, <1>h, <1>n
      <3> QED
        BY <2>2, <2>3, <2>6, <3>1, <1>y
    <2>8. MayCount(t)' => MayCount(t)
      <3>1. acc'[t] + Counted(others[t])' = acc[t] + Counted(others[t])
        <4>1. Counted(others[t])' = Counted(others[t] \ {u})
          BY <2>1, <2>3 DEF Counted
        <4>2. Counted(others[t] \ {u}) \in Nat /\ ops_count[u] \in Nat /\ acc[t] \in Nat
          BY <2>2, <1>n, <1>y
        <4> QED
          BY <2>3, <2>5, <4>1, <4>2
      <3>2. pc'[t] \in {"sum", "loop"}
        BY <1>20, <1>y DEF SumOps
      <3> QED
        BY <2>1, <3>1, <3>2 DEF MayCount
    <2>9. draining'[t] => Counted(Threads) >= TotalOps
      BY <2>1, <1>h
    <2> QED
      BY <2>1, <2>7, <2>8, <2>9, <1>s
  <1>21. CASE Finish(t)
    <2>1. /\ ops_count' = ops_count /\ draining' = draining /\ pc[t] \notin {"start", "loop", "sum"}
          /\ pc'[t] \notin {"start", "loop", "sum"}
      BY <1>21, <1>y, <1>a DEF Finish
    <2> QED
      BY <2>1, <1>h, <1>s DEF MayCount
  <1>22. CASE Growth(t)
    <2>1. /\ ops_count' = ops_count /\ draining' = draining /\ acc' = acc /\ others' = others
          /\ pc[t] \notin {"start", "loop", "sum"}
          /\ pc'[t] \notin {"start", "loop", "sum"}
      BY <1>22, <1>y, GrowthIs
    <2> QED
      BY <2>1, <1>h, <1>s DEF MayCount
  <1>23. CASE InsertFuture(t)
    <2>1. /\ ops_count' = ops_count /\ draining' = draining /\ pc[t] \notin {"start", "loop", "sum"}
          /\ EndEnqueue(t)
      BY <1>23, InsertFutureIs
    <2>2. pc'[t] \in {"help", "min", "count"}
      BY <2>1, <1>a, <1>y, EndEnqueueIs
    <2> QED
      BY <2>1, <2>2, <1>h, <1>s DEF MayCount
  <1>24. CASE EndHelp(t)
    <2>1. /\ ops_count' = ops_count /\ draining' = draining /\ pc[t] \notin {"start", "loop", "sum"}
          /\ pc'[t] \notin {"start", "loop", "sum"}
      BY <1>24, <1>y, <1>a DEF EndHelp
    <2> QED
      BY <2>1, <1>h, <1>s DEF MayCount
  <1> QED
    BY <1>1, <1>2, <1>3, <1>4, <1>5, <1>6, <1>7, <1>8, <1>9, <1>10, <1>11, <1>12,
       <1>13, <1>14, <1>15, <1>16, <1>17, <1>18, <1>19, <1>20, <1>21, <1>22, <1>23, <1>24
    DEF Step, Growth

\* The count holds in every state, and so do the phases.
LEMMA OpsInvHolds == Spec => []OpsInv /\ []PhaseInv
  <1>1. Init => PhaseInv
    BY DEF Init, PhaseInv
  <1>2. Init => OpsInv
    <2> SUFFICES ASSUME Init PROVE OpsInv
      OBVIOUS
    <2>1. /\ \A t \in Threads : acc[t] = 0 /\ ~draining[t] /\ ops_count[t] = 0 /\ others[t] = {}
          /\ ops_count \in [Threads -> Int] /\ ops_count \in [Threads -> Nat]
      BY DEF Init
    <2>2. IsFiniteSet(Threads) /\ Cardinality(Threads) \in Nat /\ Cardinality(Threads) > 1 /\ TotalOps \in Nat
      BY FS_CardinalityType, DriverAssumption
    <2>3. Counted(Threads) = 0
      BY <2>1, <2>2, SumZero DEF Counted
    <2>4. ASSUME NEW t \in Threads PROVE acc[t] <= Counted(Threads \ others[t])
      <3>1. Threads \ others[t] = Threads
        BY <2>1
      <3> QED
        BY <2>1, <2>3, <3>1
    <2>5. Counted(Threads) >= TotalOps =>
            Counted(Threads) + Cardinality(Counters) <= TotalOps + Cardinality(Threads) - 1
      <3> DEFINE M == Counters
      <3>1. SUFFICES ASSUME TotalOps = 0
                     PROVE  Counted(Threads) + Cardinality(M) <= TotalOps + Cardinality(Threads) - 1
        BY <2>2, <2>3
      <3>2. M = {}
        <4> SUFFICES ASSUME NEW v \in Threads PROVE ~MayCount(v)
          BY DEF Counters
        <4>1. pc[v] = "start" /\ acc[v] = 0 /\ others[v] = {}
          BY DEF Init
        <4>2. Counted(others[v]) = 0
          <5>1. IsFiniteSet(DOMAIN ops_count)
            BY <2>1, <2>2
          <5> QED
            BY <4>1, <5>1, SumNone DEF Counted
        <4> QED
          BY <3>1, <4>1, <4>2 DEF MayCount
      <3>3. Cardinality(M) = 0
        BY <3>2, FS_EmptySet
      <3> QED
        BY <2>2, <2>3, <3>3
    <2> HIDE DEF Counted
    <2> QED
      BY <2>1, <2>4, <2>5 DEF OpsInv
  <1>3. TypeInv /\ PhaseInv /\ OpsInv /\ [Next]_vars => OpsInv'
    <2> SUFFICES ASSUME TypeInv, PhaseInv, OpsInv, [Next]_vars PROVE OpsInv'
      OBVIOUS
    <2>1. CASE \E t \in Threads : Step(t)
      BY <2>1, OpsStep
    <2>2. CASE Frozen
      <3>1. /\ pc' = pc /\ draining' = draining /\ acc' = acc /\ others' = others /\ ops_count' = ops_count
        BY <2>2 DEF Frozen, cells, loop, own
      <3> QED
        BY <3>1 DEF OpsInv, Counters, MayCount, Counted
    <2> QED
      BY <2>1, <2>2, NextCases
  <1> QED
    BY <1>1, <1>2, <1>3, PhaseInvStep, TypesHold, PTL DEF Spec

\* The process prints after every thread has ended.
PrintInv == outcome = "printed" => \A t \in Threads : pc[t] = "done"

\* No step of a thread prints.
LEMMA NotPrinted ==
  ASSUME NEW t \in Threads, Step(t)
  PROVE  outcome = "running" /\ outcome' # "printed"
  <1>1. outcome = "running"
    BY DEF Step
  <1>2. CASE Growth(t) \/ InsertFuture(t)
    BY <1>1, <1>2, GrowthIs, InsertFutureIs
  <1>3. CASE ~Growth(t) /\ ~InsertFuture(t)
    BY <1>1, <1>3 DEF Step, Growth, Start, CallEnqueue, Insert, Flush, EndHelp, DeqRead, DeqScan, DeqTake,
         DeqAdvance, DeqEmpty, Publish, PublishDraining, CheckGVT, WaitForCell, Spin, WriteGVT,
         ReadMin, CallPrune, PruneBucket, Count, SumOps, Finish, LogCondition, vars
  <1> QED
    BY <1>1, <1>2, <1>3

\* The process prints after every thread has ended.
LEMMA PrintInvHolds == Spec => []PrintInv
  <1>1. Init => PrintInv
    BY DEF Init, PrintInv
  <1>2. PrintInv /\ [Next]_vars => PrintInv'
    <2> SUFFICES ASSUME PrintInv, [Next]_vars PROVE PrintInv'
      OBVIOUS
    <2>1. CASE \E t \in Threads : Step(t)
      BY <2>1, NotPrinted DEF PrintInv
    <2>2. CASE PrintCheck
      BY <2>2 DEF PrintCheck, PrintInv
    <2>3. CASE UNCHANGED vars
      BY <2>3 DEF vars, PrintInv
    <2> QED
      BY <2>1, <2>2, <2>3 DEF Next, Exited
  <1> QED
    BY <1>1, <1>2, PTL DEF Spec

\* OpsBounded for every number of threads and of operations: the threads
\* together count at least TOTAL_OPS operations before the process prints, and
\* never more than THREADS - 1 beyond it.
THEOREM OperationsBounded == Spec => []OpsBounded
  <1>1. TypeInv /\ PhaseInv /\ OpsInv /\ PrintInv => OpsBounded
    <2> SUFFICES ASSUME TypeInv, PhaseInv, OpsInv, PrintInv PROVE OpsBounded
      OBVIOUS
    <2>1. Sum(ops_count) = Counted(Threads)
      <3>1. DOMAIN ops_count = Threads
        BY DEF TypeInv, TypeCells
      <3> QED
        BY <3>1, SumIs DEF Counted
    <2>2. /\ Counted(Threads) \in Nat /\ TotalOps \in Nat
          /\ Cardinality(Threads) \in Nat /\ Cardinality(Threads) > 1
      BY CountedNat, FS_CardinalityType, DriverAssumption
    <2>3. Cardinality(Counters) \in Nat
      <3>1. Counters \subseteq Threads
        BY DEF Counters
      <3> QED
        BY <3>1, FS_Subset, FS_CardinalityType, DriverAssumption
    <2>4. Counted(Threads) <= TotalOps + Cardinality(Threads) - 1
      <3>1. CASE Counted(Threads) >= TotalOps
        BY <2>2, <2>3, <3>1 DEF OpsInv
      <3>2. CASE ~(Counted(Threads) >= TotalOps)
        BY <2>2, <3>2
      <3> QED
        BY <3>1, <3>2
    <2>5. outcome = "printed" => Counted(Threads) >= TotalOps
      <3> SUFFICES ASSUME outcome = "printed" PROVE Counted(Threads) >= TotalOps
        OBVIOUS
      <3>1. 0 \in Threads
        BY DriverAssumption
      <3>2. draining[0]
        BY <3>1 DEF PrintInv, PhaseInv
      <3> QED
        BY <3>1, <3>2 DEF OpsInv
    <2> QED
      BY <2>1, <2>4, <2>5 DEF OpsBounded
  <1> QED
    BY <1>1, TypesHold, OpsInvHolds, PrintInvHolds, PTL

-----------------------------------------------------------------------------
\* What becomes of the events, and CHECK.

\* What a sum over timestamps is made of changes as one of them does.
LEMMA TimestampsChange ==
  ASSUME IsFiniteSet(Timestamps), NEW f \in [Timestamps -> Int], NEW h \in [Timestamps -> Int],
         NEW x \in Timestamps, \A k \in Timestamps \ {x} : h[k] = f[k]
  PROVE  SumOver(h)[Timestamps] = SumOver(f)[Timestamps] + (h[x] - f[x])
  <1>1. Timestamps \in SUBSET Timestamps /\ x \in Timestamps
    OBVIOUS
  <1> QED
    BY <1>1, SumChange

\* An event more, or one less, of a timestamp.
LEMMA EventsMore ==
  ASSUME IsFiniteSet(Timestamps), NEW f \in [Timestamps -> Nat], NEW x \in Timestamps
  PROVE  SumOver(OneMore(f, x))[Timestamps] = SumOver(f)[Timestamps] + 1
  <1> DEFINE h == OneMore(f, x)
  <1>1. /\ f \in [Timestamps -> Int] /\ h \in [Timestamps -> Int]
        /\ \A k \in Timestamps \ {x} : h[k] = f[k]
        /\ h[x] - f[x] = 1
    BY DEF OneMore, Set
  <1> HIDE DEF h
  <1>2. SumOver(h)[Timestamps] = SumOver(f)[Timestamps] + (h[x] - f[x])
    BY <1>1, TimestampsChange
  <1> QED
    BY <1>1, <1>2 DEF h

\* And one less of a timestamp that has one.
LEMMA EventsLess ==
  ASSUME IsFiniteSet(Timestamps), NEW f \in [Timestamps -> Nat], NEW x \in Timestamps, f[x] > 0
  PROVE  SumOver(OneLess(f, x))[Timestamps] = SumOver(f)[Timestamps] - 1
  <1> DEFINE h == OneLess(f, x)
  <1>1. /\ f \in [Timestamps -> Int] /\ h \in [Timestamps -> Int]
        /\ \A k \in Timestamps \ {x} : h[k] = f[k]
        /\ h[x] - f[x] = -1
    BY DEF OneLess, Set
  <1> HIDE DEF h
  <1>2. SumOver(h)[Timestamps] = SumOver(f)[Timestamps] + (h[x] - f[x])
    BY <1>1, TimestampsChange
  <1>3. SumOver(f)[Timestamps] \in Int
    BY <1>1, SumInt
  <1> QED
    BY <1>1, <1>2, <1>3 DEF h

\* What a sum over all threads is after one of them has changed its share.
LEMMA ShareChange ==
  ASSUME NEW f \in [Threads -> Int], NEW h \in [Threads -> Int], NEW t \in Threads,
         \A k \in Threads \ {t} : h[k] = f[k]
  PROVE  SumOver(h)[Threads] = SumOver(f)[Threads] + (h[t] - f[t])
  <1>1. Threads \in SUBSET Threads /\ t \in Threads
    OBVIOUS
  <1> QED
    BY <1>1, ThreadsChange

\* The threads whose event was taken before they have counted its enqueue, and
\* those that move a popped event.
Owed == {u \in Threads : pc[u] = "flush" /\ u \notin pending}
Carriers == {u \in Threads : pc[u] \in {"move", "help_move"}}

\* n_dequeue - n_enqueue of all threads; the flushed events of the table; those
\* of the lists and in the hands of the threads that move one.
Balance == SumOver(balance)[Threads]
LiveEvents == SumOver(live)[Timestamps]
FutureEvents == SumOver(future)[Timestamps]
TodoEvents == SumOver(todo)[Timestamps]
MovingEvents == FutureEvents + (TodoEvents + Cardinality(Carriers))

\* No event is lost or taken twice, and a thread that has ended has stored its
\* balance.
CheckInv ==
  /\ Balance + (LiveEvents + MovingEvents) = Cardinality(Owed)
  /\ \A t \in Threads : pc[t] = "done" => ops[t] = balance[t]

\* The numbers CheckInv relates.
LEMMA CheckNumbers ==
  ASSUME IsFiniteSet(Timestamps), TypeInv
  PROVE  /\ Balance \in Int /\ LiveEvents \in Int /\ FutureEvents \in Int /\ TodoEvents \in Int
         /\ MovingEvents \in Int
         /\ IsFiniteSet(Owed) /\ Cardinality(Owed) \in Nat
         /\ IsFiniteSet(Carriers) /\ Cardinality(Carriers) \in Nat
  <1>1. /\ IsFiniteSet(Threads) /\ balance \in [Threads -> Int] /\ live \in [Timestamps -> Int]
        /\ future \in [Timestamps -> Int] /\ todo \in [Timestamps -> Int]
    BY DriverAssumption DEF TypeInv, TypeOwn, TypeQueue
  <1>2. SumOver(balance)[Threads] \in Int
    <2>1. Threads \in SUBSET Threads
      OBVIOUS
    <2> QED
      BY <1>1, <2>1, SumInt
  <1>3. SumOver(live)[Timestamps] \in Int /\ SumOver(future)[Timestamps] \in Int
        /\ SumOver(todo)[Timestamps] \in Int
    <2>1. Timestamps \in SUBSET Timestamps
      OBVIOUS
    <2> QED
      BY <1>1, <2>1, SumInt
  <1>4. IsFiniteSet(Owed) /\ IsFiniteSet(Carriers)
    <2>1. Owed \subseteq Threads /\ Carriers \subseteq Threads
      BY DEF Owed, Carriers
    <2> QED
      BY <1>1, <2>1, FS_Subset
  <1>5. Cardinality(Owed) \in Nat /\ Cardinality(Carriers) \in Nat
    BY <1>4, FS_CardinalityType
  <1> QED
    BY <1>2, <1>3, <1>4, <1>5 DEF Balance, LiveEvents, FutureEvents, TodoEvents, MovingEvents

\* The steps that neither link, nor flush, nor take, nor move an event.
LEMMA CheckKept ==
  ASSUME TypeInv, CheckInv, NEW t \in Threads, Step(t),
         balance' = balance, live' = live, pending' = pending, MovingEvents' = MovingEvents,
         pc[t] # "flush", pc'[t] # "flush",
         \A v \in Threads \ {t} : ops'[v] = ops[v],
         pc'[t] = "done" => ops'[t] = balance[t]
  PROVE  CheckInv'
  <1>1. \A v \in Threads \ {t} : pc'[v] = pc[v]
    BY OneThread
  <1>2. Owed' = Owed
    BY <1>1 DEF Owed
  <1>3. Balance' = Balance /\ LiveEvents' = LiveEvents
    BY DEF Balance, LiveEvents
  <1>4. \A v \in Threads : pc'[v] = "done" => ops'[v] = balance'[v]
    BY <1>1 DEF CheckInv
  <1> QED
    BY <1>2, <1>3, <1>4 DEF CheckInv

\* The balance of all is that of a thread that has enqueued, or dequeued.
LEMMA BalanceStep ==
  ASSUME TypeInv, NEW t \in Threads
  PROVE  /\ balance' = [balance EXCEPT ![t] = balance[t] - 1] => Balance' = Balance - 1
         /\ balance' = [balance EXCEPT ![t] = balance[t] + 1] => Balance' = Balance + 1
  <1>1. balance \in [Threads -> Int] /\ SumOver(balance)[Threads] \in Int
    <2>1. balance \in [Threads -> Int] /\ IsFiniteSet(Threads) /\ Threads \in SUBSET Threads
      BY DriverAssumption DEF TypeInv, TypeOwn
    <2> QED
      BY <2>1, SumInt
  <1>2. ASSUME NEW d \in Int, balance' = [balance EXCEPT ![t] = balance[t] + d]
        PROVE  SumOver(balance')[Threads] = SumOver(balance)[Threads] + d
    <2>1. /\ balance' \in [Threads -> Int] /\ balance'[t] - balance[t] = d
          /\ \A v \in Threads \ {t} : balance'[v] = balance[v]
      BY <1>1, <1>2
    <2>2. SumOver(balance')[Threads] = SumOver(balance)[Threads] + (balance'[t] - balance[t])
      BY <1>1, <2>1, ShareChange
    <2> QED
      BY <2>1, <2>2
  <1>3. ASSUME balance' = [balance EXCEPT ![t] = balance[t] - 1] PROVE Balance' = Balance - 1
    <2>1. balance[t] - 1 = balance[t] + (-1) /\ -1 \in Int
      BY <1>1
    <2>2. balance' = [balance EXCEPT ![t] = balance[t] + (-1)]
      BY <1>3, <2>1
    <2>3. SumOver(balance')[Threads] = SumOver(balance)[Threads] + (-1)
      BY <1>2, <2>1, <2>2
    <2> QED
      BY <1>1, <2>3 DEF Balance
  <1>4. ASSUME balance' = [balance EXCEPT ![t] = balance[t] + 1] PROVE Balance' = Balance + 1
    <2>1. 1 \in Int
      OBVIOUS
    <2>2. SumOver(balance')[Threads] = SumOver(balance)[Threads] + 1
      BY <1>2, <1>4, <2>1
    <2> QED
      BY <2>2 DEF Balance
  <1> QED
    BY <1>3, <1>4

\* The balance is kept by the steps that leave the lists alone.
LEMMA CheckQuiet ==
  ASSUME IsFiniteSet(Timestamps), TypeInv, CheckInv, NEW t \in Threads, Step(t),
         ~Growth(t), ~InsertFuture(t)
  PROVE  CheckInv'
  <1>y. /\ pc \in [Threads -> Locations] /\ timestamp \in [Threads -> Reached]
        /\ balance \in [Threads -> Int] /\ live \in [Timestamps -> Nat] /\ live \in [Timestamps -> Int]
        /\ ops \in [Threads -> Int] /\ pending \subseteq {u \in Threads : pc[u] = "flush"}
    BY DEF TypeInv, TypeCells, TypePc, TypeOwn, TypeQueue
  <1>p. \A u \in Threads : pc[u] \in {"flush", "take"} => timestamp[u] \in Timestamps
    BY DEF TypeInv, TypeOwn, InHand
  <1>n. /\ Balance \in Int /\ LiveEvents \in Int /\ MovingEvents \in Int
        /\ IsFiniteSet(Owed) /\ Cardinality(Owed) \in Nat
    BY CheckNumbers
  <1>o. \A v \in Threads \ {t} : pc'[v] = pc[v]
    BY OneThread
  <1>k. MovingEvents' = MovingEvents
    <2>1. future' = future /\ todo' = todo /\ Carriers' = Carriers
      BY <1>o, TableKept DEF Carriers
    <2> QED
      BY <2>1 DEF MovingEvents, FutureEvents, TodoEvents
  <1>a. AfterOperation(t) => pc'[t] \in {"min", "count"}
    BY <1>y, AfterOperationIs
  <1> USE DEF vars, queue, cursor, sizes, lists, cells, loop, own, Goto, Set
  <1>1. CASE Start(t)
    <2>1. /\ balance' = balance /\ live' = live /\ pending' = pending /\ ops' = ops
          /\ pc[t] # "flush" /\ pc'[t] \notin {"flush", "done"}
      BY <1>1, <1>y DEF Start
    <2> QED
      BY <2>1, <1>k, CheckKept
  <1>2. CASE CallEnqueue(t)
    <2>1. /\ balance' = balance /\ live' = live /\ pending' = pending /\ ops' = ops
          /\ pc[t] # "flush" /\ pc'[t] \notin {"flush", "done"}
      BY <1>2, <1>y DEF CallEnqueue
    <2> QED
      BY <2>1, <1>k, CheckKept
  <1>3. CASE Insert(t)
    <2>1. /\ pc[t] = "insert" /\ pc'[t] = "flush" /\ pending' = pending \cup {t}
          /\ balance' = balance /\ live' = live /\ ops' = ops
      BY <1>3, <1>y DEF Insert
    <2>2. Owed' = Owed
      BY <2>1, <1>o DEF Owed
    <2>3. Balance' = Balance /\ LiveEvents' = LiveEvents
      BY <2>1 DEF Balance, LiveEvents
    <2>4. \A v \in Threads : pc'[v] = "done" => ops'[v] = balance'[v]
      BY <2>1, <1>o DEF CheckInv
    <2> QED
      BY <2>2, <2>3, <2>4, <1>k DEF CheckInv
  <1>4. CASE Flush(t)
    <2> DEFINE x == timestamp[t]
    <2>1. /\ pc[t] = "flush" /\ pending' = pending \ {t} /\ ops' = ops
          /\ live' = IF t \in pending THEN OneMore(live, x) ELSE live
          /\ EndEnqueue(t)
      BY <1>4, Zenon DEF Flush, cells
    <2>2. x \in Timestamps
      BY <2>1, <1>p
    <2>3. /\ balance' = [balance EXCEPT ![t] = balance[t] - 1]
          /\ pc'[t] \in {"help", "min", "count"}
      BY <2>1, <1>a, <1>y, EndEnqueueIs
    <2> HIDE DEF x
    <2>4. Balance' = Balance - 1
      BY <2>3, BalanceStep
    <2>5. \A v \in Threads : pc'[v] = "done" => ops'[v] = balance'[v]
      BY <2>1, <2>3, <1>o, <1>y DEF CheckInv
    <2>6. CASE t \in pending
      <3>1. LiveEvents' = LiveEvents + 1
        BY <2>1, <2>2, <2>6, <1>y, EventsMore DEF LiveEvents
      <3>2. Owed' = Owed
        BY <2>1, <2>3, <2>6, <1>o DEF Owed
      <3> QED
        BY <2>4, <2>5, <3>1, <3>2, <1>n, <1>k DEF CheckInv
    <2>7. CASE t \notin pending
      <3>1. LiveEvents' = LiveEvents
        BY <2>1, <2>7 DEF LiveEvents
      <3>2. Owed' = Owed \ {t} /\ t \in Owed
        BY <2>1, <2>3, <2>7, <1>o DEF Owed
      <3>3. Cardinality(Owed') = Cardinality(Owed) - 1
        BY <3>2, <1>n, FS_RemoveElement
      <3> QED
        BY <2>4, <2>5, <3>1, <3>3, <1>n, <1>k DEF CheckInv
    <2> QED
      BY <2>6, <2>7
  <1>5. CASE DeqRead(t)
    <2>1. /\ balance' = balance /\ live' = live /\ pending' = pending /\ ops' = ops
          /\ pc[t] # "flush" /\ pc'[t] \notin {"flush", "done"}
      BY <1>5, <1>y DEF DeqRead, LogCondition
    <2> QED
      BY <2>1, <1>k, CheckKept
  <1>6. CASE DeqScan(t)
    <2>1. /\ balance' = balance /\ live' = live /\ pending' = pending /\ ops' = ops
          /\ pc[t] # "flush" /\ pc'[t] \notin {"flush", "done"}
      BY <1>6, <1>y DEF DeqScan
    <2> QED
      BY <2>1, <1>k, CheckKept
  <1>7. CASE DeqTake(t)
    <2> DEFINE x == timestamp[t]
    <2>1. /\ pc[t] = "take" /\ pc'[t] \in {"publish", "read"} /\ ops' = ops
          /\ \/ /\ live[x] > 0 /\ live' = OneLess(live, x) /\ pending' = pending
                /\ balance' = [balance EXCEPT ![t] = balance[t] + 1]
             \/ /\ \E u \in pending : pending' = pending \ {u}
                /\ live' = live /\ balance' = [balance EXCEPT ![t] = balance[t] + 1]
             \/ live' = live /\ pending' = pending /\ balance' = balance
      BY <1>7, <1>y DEF DeqTake
    <2>2. x \in Timestamps
      BY <2>1, <1>p
    <2> HIDE DEF x
    <2>3. ASSUME balance' = [balance EXCEPT ![t] = balance[t] + 1] PROVE Balance' = Balance + 1
      BY <2>3, BalanceStep
    <2>4. \A v \in Threads : pc'[v] = "done" => ops'[v] = balance'[v]
      BY <2>1, <1>o, <1>y DEF CheckInv
    <2>5. CASE /\ live[x] > 0 /\ live' = OneLess(live, x) /\ pending' = pending
               /\ balance' = [balance EXCEPT ![t] = balance[t] + 1]
      <3>1. LiveEvents' = LiveEvents - 1
        BY <2>2, <2>5, <1>y, EventsLess DEF LiveEvents
      <3>2. Owed' = Owed
        BY <2>1, <2>5, <1>o DEF Owed
      <3> QED
        BY <2>3, <2>4, <2>5, <3>1, <3>2, <1>n, <1>k DEF CheckInv
    <2>6. CASE /\ \E u \in pending : pending' = pending \ {u}
               /\ live' = live /\ balance' = [balance EXCEPT ![t] = balance[t] + 1]
      <3>1. PICK u \in pending : pending' = pending \ {u}
        BY <2>6
      <3>2. u \in Threads /\ u # t /\ pc[u] = "flush" /\ pc'[u] = "flush"
        BY <2>1, <1>y, <1>o
      <3>3. Owed' = Owed \cup {u} /\ u \notin Owed
        BY <2>1, <3>1, <3>2, <1>o DEF Owed
      <3>4. Cardinality(Owed') = Cardinality(Owed) + 1
        BY <3>3, <1>n, FS_AddElement
      <3>5. LiveEvents' = LiveEvents
        BY <2>6 DEF LiveEvents
      <3> QED
        BY <2>3, <2>4, <2>6, <3>4, <3>5, <1>n, <1>k DEF CheckInv
    <2>7. CASE live' = live /\ pending' = pending /\ balance' = balance
      <3>1. Owed' = Owed
        BY <2>1, <2>7, <1>o DEF Owed
      <3>2. Balance' = Balance /\ LiveEvents' = LiveEvents
        BY <2>7 DEF Balance, LiveEvents
      <3> QED
        BY <2>4, <3>1, <3>2, <1>k DEF CheckInv
    <2> QED
      BY <2>1, <2>5, <2>6, <2>7
  <1>8. CASE DeqAdvance(t)
    <2>1. /\ balance' = balance /\ live' = live /\ pending' = pending /\ ops' = ops
          /\ pc[t] # "flush" /\ pc'[t] \notin {"flush", "done"}
      BY <1>8, <1>y DEF DeqAdvance, DrawMark
    <2> QED
      BY <2>1, <1>k, CheckKept
  <1>9. CASE DeqEmpty(t)
    <2>1. /\ balance' = balance /\ live' = live /\ pending' = pending /\ ops' = ops
          /\ pc[t] # "flush" /\ pc'[t] \notin {"flush", "done"}
      BY <1>9, <1>y, <1>a DEF DeqEmpty
    <2> QED
      BY <2>1, <1>k, CheckKept
  <1>10. CASE Publish(t)
    <2>1. /\ balance' = balance /\ live' = live /\ pending' = pending /\ ops' = ops
          /\ pc[t] # "flush" /\ pc'[t] \notin {"flush", "done"}
      BY <1>10, <1>y, <1>a DEF Publish
    <2> QED
      BY <2>1, <1>k, CheckKept
  <1>11. CASE PublishDraining(t)
    <2>1. /\ balance' = balance /\ live' = live /\ pending' = pending /\ ops' = ops
          /\ pc[t] # "flush" /\ pc'[t] \notin {"flush", "done"}
      BY <1>11, <1>y DEF PublishDraining
    <2> QED
      BY <2>1, <1>k, CheckKept
  <1>12. CASE CheckGVT(t)
    <2>1. /\ balance' = balance /\ live' = live /\ pending' = pending /\ ops' = ops
          /\ pc[t] # "flush" /\ pc'[t] \notin {"flush", "done"}
      BY <1>12, <1>y DEF CheckGVT
    <2> QED
      BY <2>1, <1>k, CheckKept
  <1>13. CASE WaitForCell(t)
    <2>1. /\ balance' = balance /\ live' = live /\ pending' = pending /\ ops' = ops
          /\ pc[t] # "flush" /\ pc'[t] \notin {"flush", "done"}
      BY <1>13, <1>y DEF WaitForCell
    <2> QED
      BY <2>1, <1>k, CheckKept
  <1>14. CASE Spin(t)
    <2>1. /\ balance' = balance /\ live' = live /\ pending' = pending /\ ops' = ops
          /\ pc[t] # "flush" /\ pc'[t] \notin {"flush", "done"}
      BY <1>14, <1>y DEF Spin
    <2> QED
      BY <2>1, <1>k, CheckKept
  <1>15. CASE WriteGVT(t)
    <2>1. /\ balance' = balance /\ live' = live /\ pending' = pending /\ ops' = ops
          /\ pc[t] # "flush" /\ pc'[t] \notin {"flush", "done"}
      BY <1>15, <1>y, <1>a DEF WriteGVT
    <2> QED
      BY <2>1, <1>k, CheckKept
  <1>16. CASE ReadMin(t)
    <2>1. /\ balance' = balance /\ live' = live /\ pending' = pending /\ ops' = ops
          /\ pc[t] # "flush" /\ pc'[t] \notin {"flush", "done"}
      BY <1>16, <1>y DEF ReadMin
    <2> QED
      BY <2>1, <1>k, CheckKept
  <1>17. CASE CallPrune(t)
    <2>1. /\ balance' = balance /\ live' = live /\ pending' = pending /\ ops' = ops
          /\ pc[t] # "flush" /\ pc'[t] \notin {"flush", "done"}
      BY <1>17, <1>y DEF CallPrune
    <2> QED
      BY <2>1, <1>k, CheckKept
  <1>18. CASE PruneBucket(t)
    <2>1. /\ balance' = balance /\ live' = live /\ pending' = pending /\ ops' = ops
          /\ pc[t] # "flush" /\ pc'[t] \notin {"flush", "done"}
      BY <1>18, <1>y DEF PruneBucket
    <2> QED
      BY <2>1, <1>k, CheckKept
  <1>19. CASE Count(t)
    <2>1. /\ balance' = balance /\ live' = live /\ pending' = pending /\ ops' = ops
          /\ pc[t] # "flush" /\ pc'[t] \notin {"flush", "done"}
      BY <1>19, <1>y DEF Count, LogCondition
    <2> QED
      BY <2>1, <1>k, CheckKept
  <1>20. CASE SumOps(t)
    <2>1. /\ balance' = balance /\ live' = live /\ pending' = pending /\ ops' = ops
          /\ pc[t] # "flush" /\ pc'[t] \notin {"flush", "done"}
      BY <1>20, <1>y DEF SumOps
    <2> QED
      BY <2>1, <1>k, CheckKept
  <1>21. CASE Finish(t)
    <2>1. /\ balance' = balance /\ live' = live /\ pending' = pending /\ pc[t] = "finish"
          /\ pc'[t] = "done" /\ ops' = [ops EXCEPT ![t] = balance[t]]
      BY <1>21, <1>y DEF Finish
    <2>2. ops'[t] = balance[t] /\ \A v \in Threads \ {t} : ops'[v] = ops[v]
      BY <2>1, <1>y
    <2> QED
      BY <2>1, <2>2, <1>k, CheckKept
  <1>22. CASE EndHelp(t)
    <2>1. /\ balance' = balance /\ live' = live /\ pending' = pending /\ ops' = ops
          /\ pc[t] # "flush" /\ pc'[t] \notin {"flush", "done"}
      BY <1>22, <1>y, <1>a DEF EndHelp
    <2> QED
      BY <2>1, <1>k, CheckKept
  <1> QED
    BY <1>1, <1>2, <1>3, <1>4, <1>5, <1>6, <1>7, <1>8, <1>9, <1>10, <1>11, <1>12,
       <1>13, <1>14, <1>15, <1>16, <1>17, <1>18, <1>19, <1>20, <1>21, <1>22 DEF Step, Growth

\* The balance is kept by the steps that move an event, or push one.
LEMMA CheckMoves ==
  ASSUME IsFiniteSet(Timestamps), TypeInv, CheckInv, NEW t \in Threads, Step(t),
         Growth(t) \/ InsertFuture(t)
  PROVE  CheckInv'
  <1>y. /\ pc \in [Threads -> Locations] /\ timestamp \in [Threads -> Reached]
        /\ balance \in [Threads -> Int] /\ live \in [Timestamps -> Nat]
        /\ future \in [Timestamps -> Nat] /\ todo \in [Timestamps -> Nat]
        /\ \A u \in Threads : pc[u] \in {"insert", "move", "help_move"} => timestamp[u] \in Timestamps
    BY DEF TypeInv, TypePc, TypeOwn, TypeQueue, InHand
  <1>n. /\ Balance \in Int /\ LiveEvents \in Int /\ FutureEvents \in Int /\ TodoEvents \in Int
        /\ IsFiniteSet(Carriers) /\ Cardinality(Carriers) \in Nat /\ Cardinality(Owed) \in Nat
    BY CheckNumbers
  <1>o. \A v \in Threads \ {t} : pc'[v] = pc[v]
    BY OneThread
  <1>h. Balance + (LiveEvents + (FutureEvents + (TodoEvents + Cardinality(Carriers)))) = Cardinality(Owed)
    BY DEF CheckInv, MovingEvents
  \* What a step of an expansion must keep.
  <1>g. ASSUME Growth(t),
               LiveEvents' + MovingEvents' = LiveEvents + MovingEvents, LiveEvents' \in Int, MovingEvents' \in Int
        PROVE  CheckInv'
    <2>1. /\ balance' = balance /\ ops' = ops /\ pending' = pending
          /\ pc[t] \notin {"flush", "done"} /\ pc'[t] \notin {"flush", "done"}
      BY <1>g, <1>y, GrowthIs
    <2>2. Owed' = Owed /\ Balance' = Balance
      BY <2>1, <1>o DEF Owed, Balance
    <2>3. \A v \in Threads : pc'[v] = "done" => ops'[v] = balance'[v]
      BY <2>1, <1>o DEF CheckInv
    <2>4. MovingEvents \in Int /\ Balance + (LiveEvents + MovingEvents) = Cardinality(Owed)
      BY <1>h, <1>n DEF MovingEvents
    <2>5. Balance + (LiveEvents' + MovingEvents') = Cardinality(Owed)
      BY <1>g, <2>4, <1>n
    <2> QED
      BY <2>2, <2>3, <2>5 DEF CheckInv
  \* The sums after the step.
  <1>u. /\ live' = live => LiveEvents' = LiveEvents
        /\ future' = future => FutureEvents' = FutureEvents
        /\ todo' = todo => TodoEvents' = TodoEvents
    BY DEF LiveEvents, FutureEvents, TodoEvents
  <1>p. ASSUME NEW x \in Timestamps
        PROVE  /\ live' = OneMore(live, x) => LiveEvents' = LiveEvents + 1
               /\ future' = OneMore(future, x) => FutureEvents' = FutureEvents + 1
               /\ todo' = OneMore(todo, x) => TodoEvents' = TodoEvents + 1
    BY <1>y, EventsMore DEF LiveEvents, FutureEvents, TodoEvents
  <1>1. CASE DeqExpand(t) \/ ExpandClose(t) \/ ExpandSize(t)
    <2>1. /\ live' = live /\ future' = future /\ todo' = todo
          /\ pc[t] \notin {"move", "help_move"} /\ pc'[t] \notin {"move", "help_move"}
      BY <1>1, <1>y DEF DeqExpand, ExpandClose, ExpandSize, queue, lists, Goto, Set
    <2>2. Carriers' = Carriers
      BY <2>1, <1>o DEF Carriers
    <2> QED
      BY <1>1, <2>1, <2>2, <1>u, <1>n, <1>g DEF MovingEvents, Growth
  <1>2. CASE ExpandSwap(t)
    <2>1. /\ pc[t] = "expand" /\ pc'[t] = "close" /\ live' = live
      BY <1>2, <1>y DEF ExpandSwap, Goto, Set
    <2>2. Carriers' = Carriers
      BY <2>1, <1>o DEF Carriers
    <2>3. MovingEvents' = MovingEvents
      <3>1. CASE table_size = old_size(t)
        <4>1. todo' = future /\ future' = NoEvents
          BY <1>2, <3>1 DEF ExpandSwap
        <4>2. todo = NoEvents
          <5>1. /\ dequeue_size \in Nat \ {0} /\ old_size(t) \in Nat /\ old_size(t) <= dequeue_size
                /\ table_size \in {dequeue_size, 2 * dequeue_size}
                /\ todo # NoEvents => table_size = 2 * dequeue_size
            BY DEF TypeInv, TypeQueue, Cursors, TableInv, old_size
          <5> QED
            BY <3>1, <5>1
        <4>3. SumOver(NoEvents)[Timestamps] = 0
          <5>1. NoEvents \in [Timestamps -> Int] /\ \A x \in Timestamps : NoEvents[x] = 0
            BY DEF NoEvents
          <5> QED
            BY <5>1, SumZero
        <4>4. TodoEvents' = FutureEvents /\ FutureEvents' = 0 /\ TodoEvents = 0
          BY <4>1, <4>2, <4>3 DEF FutureEvents, TodoEvents
        <4> QED
          BY <2>2, <4>4, <1>n DEF MovingEvents
      <3>2. CASE table_size # old_size(t)
        BY <1>2, <2>2, <3>2, <1>u DEF ExpandSwap, lists, MovingEvents
      <3> QED
        BY <3>1, <3>2
    <2>4. LiveEvents' = LiveEvents /\ MovingEvents \in Int
      BY <2>1, <1>u, <1>n DEF MovingEvents
    <2> QED
      BY <1>2, <2>3, <2>4, <1>n, <1>g DEF Growth
  <1>3. CASE Pop(t)
    <2>1. PICK x \in Timestamps : todo[x] > 0 /\ todo' = OneLess(todo, x)
      BY <1>3 DEF Pop
    <2>2. /\ pc[t] \in {"empty", "help"} /\ pc'[t] \in {"move", "help_move"}
          /\ live' = live /\ future' = future
      BY <1>3, <1>y DEF Pop, Goto, Set
    <2>3. TodoEvents' = TodoEvents - 1
      BY <2>1, <1>y, EventsLess DEF TodoEvents
    <2>4. Carriers' = Carriers \cup {t} /\ t \notin Carriers
      BY <2>2, <1>o DEF Carriers
    <2>5. Cardinality(Carriers') = Cardinality(Carriers) + 1
      BY <2>4, <1>n, FS_AddElement
    <2>6. LiveEvents' = LiveEvents /\ FutureEvents' = FutureEvents
      BY <2>2, <1>u
    <2>7. TodoEvents' + Cardinality(Carriers') = TodoEvents + Cardinality(Carriers)
      BY <2>3, <2>5, <1>n
    <2>8. TodoEvents' + Cardinality(Carriers') \in Int
      BY <2>7, <1>n
    <2> QED
      BY <1>3, <2>6, <2>7, <2>8, <1>n, <1>g DEF MovingEvents, Growth
  <1>4. CASE Move(t)
    <2> DEFINE x == timestamp[t]
    <2>1. /\ pc[t] \in {"move", "help_move"} /\ pc'[t] \in {"empty", "help"}
      BY <1>4, <1>y DEF Move, Goto, Set
    <2>2. \/ live' = OneMore(live, x) /\ future' = future /\ todo' = todo
          \/ live' = live /\ future' = OneMore(future, x) /\ todo' = todo
          \/ live' = live /\ future' = future /\ todo' = OneMore(todo, x)
      BY <1>4, Zenon DEF Move, Push
    <2>3. x \in Timestamps
      BY <2>1, <1>y
    <2> HIDE DEF x
    <2>4. Carriers' = Carriers \ {t} /\ t \in Carriers
      BY <2>1, <1>o DEF Carriers
    <2>5. Cardinality(Carriers') = Cardinality(Carriers) - 1
      BY <2>4, <1>n, FS_RemoveElement
    <2>6. PICK l \in Int, f \in Int, d \in Int, c \in Int :
            /\ l = LiveEvents' /\ f = FutureEvents' /\ d = TodoEvents' /\ c = Cardinality(Carriers')
            /\ c = Cardinality(Carriers) - 1
            /\ \/ l = LiveEvents + 1 /\ f = FutureEvents /\ d = TodoEvents
               \/ l = LiveEvents /\ f = FutureEvents + 1 /\ d = TodoEvents
               \/ l = LiveEvents /\ f = FutureEvents /\ d = TodoEvents + 1
      BY <2>2, <2>3, <2>5, <1>p, <1>u, <1>n
    <2>7. l + (f + (d + c)) = LiveEvents + (FutureEvents + (TodoEvents + Cardinality(Carriers)))
      BY <2>6, <1>n
    <2>8. /\ LiveEvents' + MovingEvents' = LiveEvents + MovingEvents
          /\ LiveEvents' \in Int /\ MovingEvents' \in Int
      BY <2>6, <2>7 DEF MovingEvents
    <2> QED
      BY <1>4, <2>8, <1>g DEF Growth
  <1>5. CASE InsertFuture(t)
    <2> DEFINE x == timestamp[t]
    <2>1. /\ pc[t] = "insert" /\ Push(x) /\ EndEnqueue(t)
          /\ live' = live /\ pending' = pending /\ ops' = ops
      BY <1>5, InsertFutureIs
    <2>2. /\ balance' = [balance EXCEPT ![t] = balance[t] - 1]
          /\ pc'[t] \in {"help", "min", "count"}
      BY <2>1, <1>y, EndEnqueueIs, AfterOperationIs
    <2>3. x \in Timestamps
      BY <2>1, <1>y
    <2>4. \/ future' = OneMore(future, x) /\ todo' = todo
          \/ future' = future /\ todo' = OneMore(todo, x)
      BY <2>1, Zenon DEF Push
    <2> HIDE DEF x
    <2>5. Balance' = Balance - 1
      BY <2>2, BalanceStep
    <2>6. Owed' = Owed /\ Carriers' = Carriers /\ LiveEvents' = LiveEvents
      BY <2>1, <2>2, <1>o, <1>u DEF Owed, Carriers
    <2>7. PICK b \in Int, f \in Int, d \in Int :
            /\ b = Balance' /\ f = FutureEvents' /\ d = TodoEvents' /\ b = Balance - 1
            /\ \/ f = FutureEvents + 1 /\ d = TodoEvents
               \/ f = FutureEvents /\ d = TodoEvents + 1
      BY <2>3, <2>4, <2>5, <1>p, <1>u, <1>n
    <2>8. b + (LiveEvents + (f + (d + Cardinality(Carriers)))) = Cardinality(Owed)
      BY <2>7, <1>n, <1>h
    <2>9. Balance' + (LiveEvents' + (FutureEvents' + (TodoEvents' + Cardinality(Carriers')))) = Cardinality(Owed')
      BY <2>6, <2>7, <2>8
    <2>10. \A v \in Threads : pc'[v] = "done" => ops'[v] = balance'[v]
      BY <2>1, <2>2, <1>o, <1>y DEF CheckInv
    <2> QED
      BY <2>9, <2>10 DEF CheckInv, MovingEvents
  <1> QED
    BY <1>1, <1>2, <1>3, <1>4, <1>5 DEF Growth

\* What main() has printed.
PrintedInv == outcome = "printed" => check = Sum(ops)

\* The balance holds, and what is printed is the sum of ops[].
LEMMA CheckInvHolds == IsFiniteSet(Timestamps) => (Spec => []CheckInv /\ []PrintedInv)
  <1> SUFFICES ASSUME IsFiniteSet(Timestamps) PROVE Spec => []CheckInv /\ []PrintedInv
    OBVIOUS
  <1>1. Init => CheckInv
    <2> SUFFICES ASSUME Init PROVE CheckInv
      OBVIOUS
    <2>1. /\ balance \in [Threads -> Int] /\ \A t \in Threads : balance[t] = 0
          /\ live \in [Timestamps -> Int] /\ \A x \in Timestamps : live[x] = 0
          /\ future \in [Timestamps -> Int] /\ \A x \in Timestamps : future[x] = 0
          /\ todo \in [Timestamps -> Int] /\ \A x \in Timestamps : todo[x] = 0
          /\ \A t \in Threads : pc[t] = "start"
      BY DEF Init, NoEvents
    <2>2. Balance = 0 /\ LiveEvents = 0 /\ FutureEvents = 0 /\ TodoEvents = 0
      <3>1. Threads \in SUBSET Threads /\ Timestamps \in SUBSET Timestamps /\ IsFiniteSet(Threads)
        BY DriverAssumption
      <3>2. SumOver(balance)[Threads] = 0
        BY <2>1, <3>1, SumZero
      <3>3. /\ SumOver(live)[Timestamps] = 0 /\ SumOver(future)[Timestamps] = 0
            /\ SumOver(todo)[Timestamps] = 0
        BY <2>1, <3>1, SumZero
      <3> QED
        BY <3>2, <3>3 DEF Balance, LiveEvents, FutureEvents, TodoEvents
    <2>3. Cardinality(Owed) = 0 /\ Cardinality(Carriers) = 0
      <3>1. Owed = {} /\ Carriers = {}
        BY <2>1 DEF Owed, Carriers
      <3> QED
        BY <3>1, FS_EmptySet
    <2> QED
      BY <2>1, <2>2, <2>3 DEF CheckInv, MovingEvents
  <1>2. TypeInv /\ CheckInv /\ [Next]_vars => CheckInv'
    <2> SUFFICES ASSUME TypeInv, CheckInv, [Next]_vars PROVE CheckInv'
      OBVIOUS
    <2>1. CASE \E t \in Threads : Step(t)
      BY <2>1, CheckQuiet, CheckMoves
    <2>2. CASE Frozen
      BY <2>2 DEF Frozen, queue, lists, cells, own, CheckInv, Balance, LiveEvents, FutureEvents, TodoEvents,
           MovingEvents, Owed, Carriers
    <2> QED
      BY <2>1, <2>2, NextCases
  <1>3. Init => PrintedInv
    BY DEF Init, PrintedInv
  <1>4. PrintedInv /\ [Next]_vars => PrintedInv'
    <2> SUFFICES ASSUME PrintedInv, [Next]_vars PROVE PrintedInv'
      OBVIOUS
    <2>1. CASE \E t \in Threads : Step(t)
      BY <2>1, NotPrinted DEF PrintedInv
    <2>2. CASE PrintCheck
      BY <2>2 DEF PrintCheck, PrintedInv, cells
    <2>3. CASE UNCHANGED vars
      BY <2>3 DEF vars, cells, PrintedInv
    <2> QED
      BY <2>1, <2>2, <2>3 DEF Next, Exited
  <1> QED
    BY <1>1, <1>2, <1>3, <1>4, TypesHold, PTL DEF Spec

\* What main() prints after CHECK, for every table, queue and configuration: the
\* opposite of the number of events that are left in the queue, in its buckets
\* and in its lists.  So no event is lost and none is taken twice, even when the
\* drain loops end with events left.
THEOREM CheckCountsTheQueue ==
  ASSUME IsFiniteSet(Timestamps)
  PROVE  Spec => [](outcome = "printed" => check = 0 - (Sum(live) + (Sum(future) + Sum(todo))))
  <1>1. TypeInv /\ CheckInv /\ PrintInv /\ PrintedInv =>
          (outcome = "printed" => check = 0 - (Sum(live) + (Sum(future) + Sum(todo))))
    <2> SUFFICES ASSUME TypeInv, CheckInv, PrintInv, PrintedInv, outcome = "printed"
                 PROVE  check = 0 - (Sum(live) + (Sum(future) + Sum(todo)))
      OBVIOUS
    <2>1. \A t \in Threads : pc[t] = "done"
      BY DEF PrintInv
    <2>2. Owed = {} /\ Carriers = {}
      BY <2>1 DEF Owed, Carriers
    <2>3. Cardinality(Owed) = 0 /\ Cardinality(Carriers) = 0
      BY <2>2, FS_EmptySet
    <2>4. /\ Threads \in SUBSET Threads /\ IsFiniteSet(Threads)
          /\ balance \in [Threads -> Int] /\ ops \in [Threads -> Int] /\ DOMAIN ops = Threads
          /\ DOMAIN live = Timestamps /\ DOMAIN future = Timestamps /\ DOMAIN todo = Timestamps
      BY DriverAssumption DEF TypeInv, TypeOwn, TypeCells, TypeQueue
    <2>5. Sum(live) = LiveEvents /\ Sum(future) = FutureEvents /\ Sum(todo) = TodoEvents
      BY <2>4, SumIs DEF LiveEvents, FutureEvents, TodoEvents
    <2>6. check = Balance
      <3>1. \A t \in Threads : ops[t] = balance[t]
        BY <2>1 DEF CheckInv
      <3>2. SumOver(ops)[Threads] = SumOver(balance)[Threads]
        BY <2>4, <3>1, SumSame
      <3>3. Sum(ops) = SumOver(ops)[Threads]
        BY <2>4, SumIs
      <3> QED
        BY <3>2, <3>3 DEF PrintedInv, Balance
    <2>7. TodoEvents + 0 = TodoEvents
      BY CheckNumbers
    <2>8. Balance + (LiveEvents + (FutureEvents + TodoEvents)) = 0
      BY <2>3, <2>7 DEF CheckInv, MovingEvents
    <2>9. Balance = 0 - (LiveEvents + (FutureEvents + TodoEvents))
      BY <2>8, CheckNumbers
    <2> QED
      BY <2>5, <2>6, <2>9
  <1> QED
    BY <1>1, TypesHold, CheckInvHolds, PrintInvHolds, PTL

\* CheckZero for every number of threads and every finite set of timestamps:
\* with SAFETY_CHECK, when the table has not grown and no mark is cut, a process
\* that was to empty the queue leaves no event in it, and prints 0; grown or not
\* it prints what is left.
THEOREM CheckIsZero ==
  ASSUME InitSizeFits, TimestampsFit, SafetyCheck, IsFiniteSet(Timestamps)
  PROVE  Spec /\ []MarksKept => []CheckZero
  <1> DEFINE Printed == outcome = "printed" => check = 0 - (Sum(live) + (Sum(future) + Sum(todo)))
  <1>c. Spec => []Printed
    BY CheckCountsTheQueue
  <1>1. CASE ~EmptyQueue
    <2>1. Printed => CheckZero
      BY <1>1 DEF CheckZero
    <2> HIDE DEF Printed
    <2> QED
      BY <1>c, <2>1, PTL
  <1>2. CASE EmptyQueue
    <2>1. TypeInv /\ DriverIndInv /\ PrintInv /\ Printed => CheckZero
      <3> SUFFICES ASSUME TypeInv, DriverIndInv, PrintInv, Printed, outcome = "printed", NotGrown
                   PROVE  check = 0 /\ Linked = {}
        BY DEF CheckZero
      <3>1. \A t \in Threads : pc[t] = "done"
        BY DEF PrintInv
      <3>2. Live = {}
        BY <3>1 DEF DriverIndInv, Settled, Guarded, Guards
      <3>3. pending = {}
        BY <3>1 DEF TypeInv, TypeQueue
      <3>4. Linked = {}
        BY <3>2, <3>3 DEF Linked, Live
      <3>5. live \in [Timestamps -> Nat] /\ future = NoEvents /\ todo = NoEvents
        BY DEF TypeInv, TypeQueue, DriverIndInv, GrownInv, NeverGrown
      <3>6. \A x \in Timestamps : live[x] = 0
        BY <3>2, <3>5 DEF Live
      <3>7. live = NoEvents
        BY <3>5, <3>6 DEF NoEvents
      <3>8. Sum(NoEvents) = 0
        <4>1. /\ NoEvents \in [Timestamps -> Int] /\ \A x \in Timestamps : NoEvents[x] = 0
              /\ DOMAIN NoEvents = Timestamps
          BY DEF NoEvents
        <4>2. SumOver(NoEvents)[Timestamps] = 0
          BY <4>1, SumZero
        <4> QED
          BY <4>1, <4>2, SumIs
      <3>9. check = 0 - (Sum(NoEvents) + (Sum(NoEvents) + Sum(NoEvents)))
        BY <3>5, <3>7
      <3>10. 0 - (0 + (0 + 0)) = 0
        OBVIOUS
      <3> QED
        BY <3>4, <3>8, <3>9, <3>10
    <2> HIDE DEF Printed
    <2> QED
      BY <1>2, <1>c, <2>1, TypesHold, DriverInvariance, PrintInvHolds, PTL
  <1> QED
    BY <1>1, <1>2

=============================================================================
