--------------------------- MODULE CalQueueProofs ---------------------------
(***************************************************************************)
(* Proofs about module CalQueue, for any timestamps and any number of      *)
(* threads and events.                                                     *)
(*                                                                         *)
(* Every function of the calendar is shown to take coherent calendars to   *)
(* coherent calendars and to change the counts of the events as it should: *)
(* EnqIs, DeqIs, PourIs, NewWidthIs, ResizeIs.  Coherent says that every   *)
(* event is in the bucket of its virtual bucket (InPlace), that qsize is   *)
(* exact (Exact), that no event is before lastprio (Ahead), and where the  *)
(* cursor is (Cursor).  Cursor is the delicate part: after a direct search *)
(* lastbucket is that of the event taken and buckettop is a year above     *)
(* where the search began, so the two name different virtual buckets v and *)
(* m.  What a dequeue needs is only that m + 2 <= v + nbuckets: a head     *)
(* that is due on the way is then in the current year (OnTheWay), and the  *)
(* first bucket with such a head holds a smallest event (DeqIs).           *)
(*                                                                         *)
(* Events are counted, not listed: two calendars hold the same events when *)
(* every set of timestamps has the same CountIn.                           *)
(***************************************************************************)
EXTENDS CalQueue, NumberLemmas, SequenceTheorems

-----------------------------------------------------------------------------
\* An insertion behind the first k members of a sequence.
LEMMA InsertAtIs ==
  ASSUME NEW s \in Seq(Nat), NEW k \in 0 .. Len(s), NEW e \in Nat
  PROVE  /\ InsertAt(s, k + 1, e) \in Seq(Nat)
         /\ Len(InsertAt(s, k + 1, e)) = Len(s) + 1
         /\ \A j \in 1 .. Len(s) + 1 :
              InsertAt(s, k + 1, e)[j] = IF j <= k THEN s[j] ELSE IF j = k + 1 THEN e ELSE s[j - 1]
  <1> DEFINE a == SubSeq(s, 1, k)
             b == SubSeq(s, k + 1, Len(s))
             m == a \o <<e>>
  <1>0. Len(s) \in Nat /\ k \in Nat /\ k <= Len(s) /\ \A j \in 1 .. Len(s) : s[j] \in Nat
    BY LenProperties, ElementOfSeq
  <1>1. a \in Seq(Nat) /\ Len(a) = k /\ \A j \in 1 .. k : a[j] = s[j]
    <2>1. \A j \in 1 .. k : s[j] \in Nat
      BY <1>0
    <2>2. /\ a \in Seq(Nat) /\ Len(a) = (IF 1 <= k THEN k - 1 + 1 ELSE 0)
          /\ \A j \in 1 .. k - 1 + 1 : a[j] = s[1 + j - 1]
      BY <1>0, <2>1, SubSeqProperties
    <2> HIDE DEF a
    <2> QED
      BY <1>0, <2>2
  <1>2. b \in Seq(Nat) /\ Len(b) = Len(s) - k /\ \A j \in 1 .. Len(s) - k : b[j] = s[k + j]
    <2>1. \A j \in k + 1 .. Len(s) : s[j] \in Nat
      BY <1>0
    <2>2. /\ b \in Seq(Nat)
          /\ Len(b) = (IF k + 1 <= Len(s) THEN Len(s) - (k + 1) + 1 ELSE 0)
          /\ \A j \in 1 .. Len(s) - (k + 1) + 1 : b[j] = s[(k + 1) + j - 1]
      BY <1>0, <2>1, SubSeqProperties
    <2> HIDE DEF b
    <2> QED
      BY <1>0, <2>2
  <1>3. <<e>> \in Seq(Nat) /\ Len(<<e>>) = 1 /\ <<e>>[1] = e
    OBVIOUS
  <1> HIDE DEF a, b
  <1>4. /\ m \in Seq(Nat) /\ Len(m) = k + 1
        /\ \A j \in 1 .. k + 1 : m[j] = IF j <= k THEN s[j] ELSE e
    <2>1. /\ m \in Seq(Nat) /\ Len(m) = Len(a) + Len(<<e>>)
          /\ \A j \in 1 .. Len(a) + Len(<<e>>) : m[j] = IF j <= Len(a) THEN a[j] ELSE <<e>>[j - Len(a)]
      BY <1>1, <1>3, ConcatProperties
    <2> HIDE DEF m
    <2> QED
      BY <1>0, <1>1, <1>3, <2>1
  <1>5. InsertAt(s, k + 1, e) = m \o b
    <2>1. (k + 1) - 1 = k
      BY <1>0
    <2> QED
      BY <2>1 DEF InsertAt, a, b
  <1> HIDE DEF m
  <1>6. /\ m \o b \in Seq(Nat) /\ Len(m \o b) = Len(m) + Len(b)
        /\ \A j \in 1 .. Len(m) + Len(b) : (m \o b)[j] = IF j <= Len(m) THEN m[j] ELSE b[j - Len(m)]
    BY <1>2, <1>4, ConcatProperties
  <1>7. Len(m) + Len(b) = Len(s) + 1
    BY <1>0, <1>2, <1>4
  <1>8. ASSUME NEW j \in 1 .. Len(s) + 1
        PROVE  (m \o b)[j] = IF j <= k THEN s[j] ELSE IF j = k + 1 THEN e ELSE s[j - 1]
    <2>1. CASE j <= k + 1
      BY <1>0, <1>4, <1>6, <1>7, <2>1
    <2>2. CASE ~ (j <= k + 1)
      <3>j. j \in Int /\ j > k + 1 /\ j <= Len(s) + 1
        BY <1>0, <2>2
      <3>1. j - (k + 1) \in 1 .. Len(s) - k
        BY <1>0, <3>j
      <3>2. (m \o b)[j] = b[j - (k + 1)]
        <4>1. j \in 1 .. Len(m) + Len(b) /\ ~ (j <= Len(m))
          BY <1>0, <1>4, <1>7, <3>j
        <4>2. (m \o b)[j] = b[j - Len(m)]
          BY <1>6, <4>1
        <4> QED
          BY <1>4, <4>2
      <3>3. b[j - (k + 1)] = s[k + (j - (k + 1))]
        BY <1>2, <3>1
      <3>4. k + (j - (k + 1)) = j - 1
        BY <1>0, <3>j
      <3>5. ~ (j <= k) /\ j # k + 1
        BY <1>0, <3>j
      <3> QED
        BY <3>2, <3>3, <3>4, <3>5
    <2> QED
      BY <2>1, <2>2
  <1> QED
    BY <1>5, <1>6, <1>7, <1>8

\* Where the walk of calqueue_enq() stops: behind every event that is not larger.
LEMMA PassedIs ==
  ASSUME NEW s \in Seq(Nat), NEW e \in Nat
  PROVE  /\ Passed(s, e) \in 0 .. Len(s)
         /\ \A j \in 1 .. Passed(s, e) : s[j] <= e
         /\ Passed(s, e) < Len(s) => s[Passed(s, e) + 1] > e
  <1> DEFINE Stop(k) == (\A j \in 1 .. k : s[j] <= e) /\ (k < Len(s) => s[k + 1] > e)
             T == {k \in 0 .. Len(s) : k < Len(s) => s[k + 1] > e}
  <1>0. Len(s) \in Nat /\ \A j \in 1 .. Len(s) : s[j] \in Nat
    BY LenProperties, ElementOfSeq
  <1>1. T \in SUBSET Nat /\ Len(s) \in T
    BY <1>0
  <1>2. PICK k \in T : \A m \in T : k <= m
    <2> HIDE DEF T
    <2> QED
      BY <1>1, LeastNat
  <1>3. ASSUME NEW j \in 1 .. k PROVE s[j] <= e
    <2>1. j - 1 \in 0 .. Len(s) /\ j - 1 < k /\ j - 1 < Len(s) /\ (j - 1) + 1 = j
      BY <1>0, <1>2, <1>3
    <2>2. j - 1 \notin T
      BY <1>1, <1>2, <2>1
    <2>3. s[j] \in Nat
      BY <1>0, <1>2, <1>3
    <2> QED
      BY <2>1, <2>2, <2>3
  <1>4. k \in 0 .. Len(s) /\ Stop(k)
    BY <1>2, <1>3
  <1>5. Passed(s, e) = CHOOSE n \in 0 .. Len(s) : Stop(n)
    BY DEF Passed
  <1> QED
    <2> HIDE DEF Stop
    <2>1. Passed(s, e) \in 0 .. Len(s) /\ Stop(Passed(s, e))
      BY <1>4, <1>5
    <2> QED
      BY <2>1 DEF Stop

-----------------------------------------------------------------------------
\* What a calendar is, field by field.
IsCalendar(c) ==
  c \in [calendar : [0 .. (c.nbuckets - 1) -> Seq(Nat)],
         nbuckets : Nat \ {0, 1},
         num : Nat,
         den : Nat \ {0},
         qsize : Nat,
         lastprio : Nat,
         lastbucket : 0 .. (c.nbuckets - 1),
         buckettop : Nat]

\* The buckets of d are those of c and one event more, ts, behind the first k
\* events of bucket i.
OneMore(c, d, i, k, ts) ==
  /\ i \in 0 .. (c.nbuckets - 1) /\ k \in 0 .. Len(c.calendar[i])
  /\ d.nbuckets = c.nbuckets
  /\ d.calendar \in [0 .. (c.nbuckets - 1) -> Seq(Nat)]
  /\ \A m \in 0 .. (c.nbuckets - 1) : m # i => d.calendar[m] = c.calendar[m]
  /\ Len(d.calendar[i]) = Len(c.calendar[i]) + 1
  /\ \A j \in 1 .. Len(c.calendar[i]) + 1 :
       d.calendar[i][j] = IF j <= k THEN c.calendar[i][j]
                          ELSE IF j = k + 1 THEN ts ELSE c.calendar[i][j - 1]

\* Places of a calendar.
LEMMA SlotIs ==
  ASSUME NEW c, c.nbuckets \in Nat, c.calendar \in [0 .. (c.nbuckets - 1) -> Seq(Nat)]
  PROVE  /\ \A p \in Slots(c) : /\ p = <<p[1], p[2]>> /\ p[1] \in 0 .. (c.nbuckets - 1)
                                /\ p[2] \in 1 .. Len(c.calendar[p[1]])
                                /\ EventAt(c, p) = c.calendar[p[1]][p[2]] /\ EventAt(c, p) \in Nat
         /\ \A i \in 0 .. (c.nbuckets - 1), j \in Nat :
              j \in 1 .. Len(c.calendar[i]) => <<i, j>> \in Slots(c)
         /\ \A i \in 0 .. (c.nbuckets - 1) : Len(c.calendar[i]) \in Nat
         /\ IsFiniteSet(Slots(c))
  <1>1. \A i \in 0 .. (c.nbuckets - 1) :
          /\ Len(c.calendar[i]) \in Nat /\ DOMAIN c.calendar[i] = 1 .. Len(c.calendar[i])
          /\ \A j \in 1 .. Len(c.calendar[i]) : c.calendar[i][j] \in Nat
    BY LenProperties, ElementOfSeq
  <1>2. Slots(c) = UNION {{i} \X (1 .. Len(c.calendar[i])) : i \in 0 .. (c.nbuckets - 1)}
    BY <1>1 DEF Slots
  <1>3. IsFiniteSet(Slots(c))
    <2> DEFINE Rows2 == {{i} \X (1 .. Len(c.calendar[i])) : i \in 0 .. (c.nbuckets - 1)}
               f == [i \in 0 .. (c.nbuckets - 1) |-> {i} \X (1 .. Len(c.calendar[i]))]
    <2>1. IsFiniteSet(0 .. (c.nbuckets - 1))
      BY FS_Interval
    <2>2. f \in Surjection(0 .. (c.nbuckets - 1), Rows2)
      BY DEF Surjection
    <2>3. IsFiniteSet(Rows2)
      <3> HIDE DEF Rows2, f
      <3> QED
        BY <2>1, <2>2, FS_Surjection
    <2>4. \A T \in Rows2 : IsFiniteSet(T)
      <3> SUFFICES ASSUME NEW i \in 0 .. (c.nbuckets - 1)
                   PROVE  IsFiniteSet({i} \X (1 .. Len(c.calendar[i])))
        OBVIOUS
      <3>1. IsFiniteSet({i})
        BY FS_Singleton
      <3>2. IsFiniteSet(1 .. Len(c.calendar[i]))
        <4>1. 1 \in Int /\ Len(c.calendar[i]) \in Int
          BY <1>1
        <4> QED
          BY <4>1, FS_Interval
      <3> QED
        BY <3>1, <3>2, FS_Product
    <2>5. IsFiniteSet(UNION Rows2)
      <3> HIDE DEF Rows2
      <3> QED
        BY <2>3, <2>4, FS_UNION
    <2> QED
      BY <1>2, <2>5
  <1> QED
    BY <1>1, <1>2, <1>3 DEF EventAt

\* An event more is one place more, and one event more of its timestamp.
LEMMA CountMore ==
  ASSUME NEW c, NEW d, c.nbuckets \in Nat, c.calendar \in [0 .. (c.nbuckets - 1) -> Seq(Nat)],
         NEW i, NEW k, NEW ts \in Nat, OneMore(c, d, i, k, ts), NEW X
  PROVE  CountIn(c, X) \in Nat /\ CountIn(d, X) = CountIn(c, X) + (IF ts \in X THEN 1 ELSE 0)
  <1> DEFINE N == 0 .. (c.nbuckets - 1)
             A == {p \in Slots(c) : EventAt(c, p) \in X}
             B == {p \in Slots(d) : EventAt(d, p) \in X}
             new == <<i, k + 1>>
             B0 == B \ {new}
             up(p) == IF p[1] = i /\ p[2] > k THEN <<i, p[2] + 1>> ELSE p
             down(p) == IF p[1] = i /\ p[2] > k THEN <<i, p[2] - 1>> ELSE p
             f == [p \in A |-> up(p)]
  <1>0. /\ i \in N /\ k \in 0 .. Len(c.calendar[i]) /\ k \in Nat /\ Len(c.calendar[i]) \in Nat
        /\ d.nbuckets \in Nat /\ d.nbuckets = c.nbuckets /\ d.calendar \in [N -> Seq(Nat)]
    <2>1. Len(c.calendar[i]) \in Nat
      BY LenProperties DEF OneMore
    <2> QED
      BY <2>1 DEF OneMore
  <1>c. /\ \A p \in Slots(c) : /\ p = <<p[1], p[2]>> /\ p[1] \in N
                               /\ p[2] \in 1 .. Len(c.calendar[p[1]])
                               /\ EventAt(c, p) = c.calendar[p[1]][p[2]] /\ EventAt(c, p) \in Nat
        /\ \A m \in N, j \in Nat : j \in 1 .. Len(c.calendar[m]) => <<m, j>> \in Slots(c)
        /\ \A m \in N : Len(c.calendar[m]) \in Nat
        /\ IsFiniteSet(Slots(c))
    BY SlotIs
  <1>d. /\ \A p \in Slots(d) : /\ p = <<p[1], p[2]>> /\ p[1] \in N
                               /\ p[2] \in 1 .. Len(d.calendar[p[1]])
                               /\ EventAt(d, p) = d.calendar[p[1]][p[2]] /\ EventAt(d, p) \in Nat
        /\ \A m \in N, j \in Nat : j \in 1 .. Len(d.calendar[m]) => <<m, j>> \in Slots(d)
        /\ \A m \in N : Len(d.calendar[m]) \in Nat
        /\ IsFiniteSet(Slots(d))
    BY <1>0, SlotIs
  <1>e. \A m \in N, j \in Nat : EventAt(c, <<m, j>>) = c.calendar[m][j] /\ EventAt(d, <<m, j>>) = d.calendar[m][j]
    BY DEF EventAt
  <1>m. /\ \A m \in N : m # i => d.calendar[m] = c.calendar[m]
        /\ Len(d.calendar[i]) = Len(c.calendar[i]) + 1
        /\ \A j \in 1 .. Len(c.calendar[i]) + 1 :
             d.calendar[i][j] = IF j <= k THEN c.calendar[i][j]
                                ELSE IF j = k + 1 THEN ts ELSE c.calendar[i][j - 1]
    BY DEF OneMore
  <1> DEFINE lc(m) == Len(c.calendar[m])
             ld(m) == Len(d.calendar[m])
             ec(m, j) == c.calendar[m][j]
             ed(m, j) == d.calendar[m][j]
  <1>f. /\ \A p \in A : /\ p = <<p[1], p[2]>> /\ p[1] \in N /\ p[2] \in Nat
                         /\ 1 <= p[2] /\ p[2] <= lc(p[1]) /\ ec(p[1], p[2]) \in X
        /\ \A m \in N, j \in Nat : 1 <= j /\ j <= lc(m) /\ ec(m, j) \in X => <<m, j>> \in A
    <2>1. ASSUME NEW p \in A
          PROVE  /\ p = <<p[1], p[2]>> /\ p[1] \in N /\ p[2] \in Nat
                 /\ 1 <= p[2] /\ p[2] <= lc(p[1]) /\ ec(p[1], p[2]) \in X
      BY <1>c
    <2>2. ASSUME NEW m \in N, NEW j \in Nat, 1 <= j, j <= lc(m), ec(m, j) \in X
          PROVE  <<m, j>> \in A
      <3>1. j \in 1 .. Len(c.calendar[m])
        BY <1>c, <2>2
      <3>2. <<m, j>> \in Slots(c) /\ EventAt(c, <<m, j>>) = c.calendar[m][j]
        BY <1>c, <1>e, <3>1
      <3> QED
        BY <2>2, <3>2
    <2> QED
      BY <2>1, <2>2
  <1>g. /\ \A p \in B : /\ p = <<p[1], p[2]>> /\ p[1] \in N /\ p[2] \in Nat
                         /\ 1 <= p[2] /\ p[2] <= ld(p[1]) /\ ed(p[1], p[2]) \in X
        /\ \A m \in N, j \in Nat : 1 <= j /\ j <= ld(m) /\ ed(m, j) \in X => <<m, j>> \in B
    <2>1. ASSUME NEW p \in B
          PROVE  /\ p = <<p[1], p[2]>> /\ p[1] \in N /\ p[2] \in Nat
                 /\ 1 <= p[2] /\ p[2] <= ld(p[1]) /\ ed(p[1], p[2]) \in X
      BY <1>d
    <2>2. ASSUME NEW m \in N, NEW j \in Nat, 1 <= j, j <= ld(m), ed(m, j) \in X
          PROVE  <<m, j>> \in B
      <3>1. j \in 1 .. Len(d.calendar[m])
        BY <1>d, <2>2
      <3>2. <<m, j>> \in Slots(d) /\ EventAt(d, <<m, j>>) = d.calendar[m][j]
        BY <1>d, <1>e, <3>1
      <3> QED
        BY <2>2, <3>2
    <2> QED
      BY <2>1, <2>2
  <1>h. /\ i \in N /\ k \in Nat /\ lc(i) \in Nat /\ k <= lc(i) /\ ld(i) = lc(i) + 1
        /\ \A m \in N : m # i => ld(m) = lc(m) /\ \A j \in Nat : ed(m, j) = ec(m, j)
    <2>1. i \in N /\ k \in Nat /\ lc(i) \in Nat /\ k <= lc(i) /\ ld(i) = lc(i) + 1
      BY <1>0, <1>m
    <2>2. ASSUME NEW m \in N, m # i PROVE ld(m) = lc(m) /\ \A j \in Nat : ed(m, j) = ec(m, j)
      <3>1. d.calendar[m] = c.calendar[m]
        BY <1>m, <2>2
      <3> QED
        BY <3>1
    <2> QED
      BY <2>1, <2>2
  <1>i. /\ \A j \in Nat : 1 <= j /\ j <= k => ed(i, j) = ec(i, j)
        /\ \A j \in Nat : k < j /\ j <= lc(i) => ed(i, j + 1) = ec(i, j)
        /\ ed(i, k + 1) = ts
    <2>1. ASSUME NEW j \in Nat, 1 <= j, j <= k PROVE ed(i, j) = ec(i, j)
      <3>1. j \in 1 .. Len(c.calendar[i]) + 1
        BY <1>h, <2>1
      <3> QED
        BY <1>m, <2>1, <3>1
    <2>2. ASSUME NEW j \in Nat, k < j, j <= lc(i) PROVE ed(i, j + 1) = ec(i, j)
      <3>1. j + 1 \in 1 .. Len(c.calendar[i]) + 1 /\ ~ (j + 1 <= k) /\ j + 1 # k + 1 /\ (j + 1) - 1 = j
        BY <1>h, <2>2
      <3> QED
        BY <1>m, <3>1
    <2>3. k + 1 \in 1 .. Len(c.calendar[i]) + 1 /\ ~ (k + 1 <= k)
      BY <1>h
    <2>4. ed(i, k + 1) = ts
      BY <1>m, <2>3
    <2> QED
      BY <2>1, <2>2, <2>4
  <1> HIDE DEF A, B, N, lc, ld, ec, ed
  <1>1. ASSUME NEW p \in A PROVE up(p) \in B0 /\ down(up(p)) = p
    <2>1. /\ p = <<p[1], p[2]>> /\ p[1] \in N /\ p[2] \in Nat
          /\ 1 <= p[2] /\ p[2] <= lc(p[1]) /\ ec(p[1], p[2]) \in X
      BY <1>f
    <2>2. PICK m \in N, j \in Nat : p = <<m, j>> /\ 1 <= j /\ j <= lc(m) /\ ec(m, j) \in X
      BY <2>1
    <2>3. CASE m # i
      <3>1. up(p) = p /\ down(p) = p /\ p # new
        BY <2>2, <2>3
      <3>2. <<m, j>> \in B
        BY <1>g, <1>h, <2>2, <2>3
      <3> QED
        BY <2>2, <3>1, <3>2
    <2>4. CASE m = i /\ j > k
      <3>1. up(p) = <<i, j + 1>> /\ up(p) # new /\ down(<<i, j + 1>>) = <<i, j>>
        BY <1>h, <2>2, <2>4
      <3>2. <<i, j + 1>> \in B
        BY <1>g, <1>h, <1>i, <2>2, <2>4
      <3> QED
        BY <2>2, <2>4, <3>1, <3>2
    <2>5. CASE m = i /\ ~ (j > k)
      <3>1. up(p) = p /\ down(p) = p /\ p # new
        BY <1>h, <2>2, <2>5
      <3>2. <<i, j>> \in B
        BY <1>g, <1>h, <1>i, <2>2, <2>5
      <3> QED
        BY <2>2, <2>5, <3>1, <3>2
    <2> QED
      BY <2>3, <2>4, <2>5
  <1>2. ASSUME NEW p \in B0 PROVE down(p) \in A /\ up(down(p)) = p
    <2>1. /\ p = <<p[1], p[2]>> /\ p[1] \in N /\ p[2] \in Nat
          /\ 1 <= p[2] /\ p[2] <= ld(p[1]) /\ ed(p[1], p[2]) \in X
      BY <1>g
    <2>2. PICK m \in N, j \in Nat : p = <<m, j>> /\ 1 <= j /\ j <= ld(m) /\ ed(m, j) \in X
      BY <2>1
    <2>6. ~ (m = i /\ j = k + 1)
      BY <2>2
    <2>3. CASE m # i
      <3>1. up(p) = p /\ down(p) = p
        BY <2>2, <2>3
      <3>2. <<m, j>> \in A
        BY <1>f, <1>h, <2>2, <2>3
      <3> QED
        BY <2>2, <3>1, <3>2
    <2>4. CASE m = i /\ j > k
      <3>0. j > k + 1 /\ j - 1 \in Nat /\ j - 1 > k /\ j - 1 <= lc(i) /\ (j - 1) + 1 = j
        BY <1>h, <2>2, <2>4, <2>6
      <3>1. down(p) = <<i, j - 1>> /\ up(<<i, j - 1>>) = <<i, j>>
        BY <1>h, <2>2, <2>4, <3>0
      <3>3. ed(i, (j - 1) + 1) = ec(i, j - 1)
        BY <1>i, <3>0
      <3>2. <<i, j - 1>> \in A
        BY <1>f, <1>h, <2>2, <2>4, <3>0, <3>3
      <3> QED
        BY <2>2, <2>4, <3>1, <3>2
    <2>5. CASE m = i /\ ~ (j > k)
      <3>1. up(p) = p /\ down(p) = p
        BY <1>h, <2>2, <2>5
      <3>2. <<i, j>> \in A
        BY <1>f, <1>h, <1>i, <2>2, <2>5
      <3> QED
        BY <2>2, <2>5, <3>1, <3>2
    <2> QED
      BY <2>3, <2>4, <2>5
  <1>7. new \in B <=> ts \in X
    <2>1. k + 1 \in Nat /\ 1 <= k + 1 /\ k + 1 <= ld(i)
      BY <1>h
    <2>2. ts \in X => <<i, k + 1>> \in B
      BY <1>g, <1>h, <1>i, <2>1
    <2>3. <<i, k + 1>> \in B => ed(i, k + 1) \in X
      BY <1>g
    <2> QED
      BY <1>i, <2>2, <2>3
  <1>4. IsFiniteSet(A) /\ IsFiniteSet(B) /\ Cardinality(A) \in Nat /\ Cardinality(B) \in Nat
    <2>1. A \in SUBSET Slots(c) /\ B \in SUBSET Slots(d)
      BY DEF A, B
    <2>2. IsFiniteSet(A) /\ IsFiniteSet(B)
      BY <1>c, <1>d, <2>1, FS_Subset
    <2> QED
      BY <2>2, FS_CardinalityType
  <1>5. Cardinality(B0) = Cardinality(A)
    <2> HIDE DEF B0, up, down
    <2>1. f \in [A -> B0]
      BY <1>1
    <2>2. \A p, q \in A : f[p] = f[q] => p = q
      BY <1>1
    <2>3. \A q \in B0 : \E p \in A : f[p] = q
      <3> SUFFICES ASSUME NEW q \in B0 PROVE \E p \in A : f[p] = q
        OBVIOUS
      <3>1. down(q) \in A /\ up(down(q)) = q
        BY <1>2
      <3> QED
        BY <3>1
    <2> HIDE DEF f
    <2>4. f \in Bijection(A, B0)
      BY <2>1, <2>2, <2>3 DEF Bijection, Injection, Surjection, IsInjective
    <2>5. ExistsBijection(A, B0)
      BY <2>4 DEF ExistsBijection
    <2> QED
      BY <1>4, <2>5, FS_Bijection
  <1>6. Cardinality(B0) = IF new \in B THEN Cardinality(B) - 1 ELSE Cardinality(B)
    <2> HIDE DEF new
    <2> QED
      BY <1>4, FS_RemoveElement
  <1>8. CountIn(c, X) = Cardinality(A) /\ CountIn(d, X) = Cardinality(B)
    BY DEF CountIn, A, B
  <1> HIDE DEF B0, new
  <1>9. CASE ts \in X
    <2>1. Cardinality(B) - 1 = Cardinality(A)
      BY <1>5, <1>6, <1>7, <1>9
    <2>2. Cardinality(B) = Cardinality(A) + 1
      BY <1>4, <2>1
    <2> QED
      BY <1>4, <1>8, <1>9, <2>2
  <1>10. CASE ts \notin X
    <2>1. Cardinality(B) = Cardinality(A)
      BY <1>5, <1>6, <1>7, <1>10
    <2>2. Cardinality(A) + 0 = Cardinality(A)
      BY <1>4
    <2> QED
      BY <1>4, <1>8, <1>10, <2>1, <2>2
  <1> QED
    BY <1>9, <1>10

-----------------------------------------------------------------------------
\* Virtual buckets and due events.

\* Which half of a width a timestamp rounds to.
LEMMA RoundedIs ==
  ASSUME NEW c, c.num \in Nat, c.den \in Nat \ {0}, NEW ts \in Nat
  PROVE  /\ Rounded(c, ts) \in Nat /\ Truncated(c, ts) \in Nat
         /\ c.num # 0 => /\ 2 * c.num \in Nat \ {0} /\ 2 * ts * c.den \in Nat
                         /\ (2 * c.num) * Rounded(c, ts) <= 2 * ts * c.den + c.num
                         /\ 2 * ts * c.den + c.num < (2 * c.num) * (Rounded(c, ts) + 1)
  <1> DEFINE x == 2 * ts * c.den + c.num
             w == 2 * c.num
  <1>1. CASE c.num = 0
    BY <1>1 DEF Rounded, Truncated
  <1>2. CASE c.num # 0
    <2>1. w \in Nat \ {0} /\ 2 * ts * c.den \in Nat /\ ts * c.den \in Nat /\ c.num \in Nat \ {0}
      BY <1>2
    <2>2. x \in Nat
      BY <2>1
    <2>3. Rounded(c, ts) = x \div w /\ Truncated(c, ts) = (ts * c.den) \div c.num
      BY <1>2 DEF Rounded, Truncated
    <2>4. Truncated(c, ts) \in Nat
      <3>1. (ts * c.den) \div c.num \in Nat
        BY <2>1, DivIs
      <3> QED
        BY <2>3, <3>1
    <2> HIDE DEF x, w
    <2>5. x \div w \in Nat /\ w * (x \div w) <= x /\ x < w * (x \div w + 1)
      BY <2>1, <2>2, DivIs
    <2> QED
      BY <2>1, <2>3, <2>4, <2>5 DEF x, w
  <1> QED
    BY <1>1, <1>2

\* Later events have later virtual buckets.
LEMMA RoundedGrows ==
  ASSUME NEW c, c.num \in Nat, c.den \in Nat \ {0}, NEW s \in Nat, NEW ts \in Nat, s <= ts
  PROVE  Rounded(c, s) <= Rounded(c, ts)
  <1>1. CASE c.num = 0
    BY <1>1 DEF Rounded
  <1>2. CASE c.num # 0
    <2>1. 2 * c.num \in Nat \ {0} /\ 2 * s * c.den + c.num \in Nat /\ 2 * ts * c.den + c.num \in Nat
      BY <1>2
    <2>2. 2 * s * c.den + c.num <= 2 * ts * c.den + c.num
      <3>1. s * c.den <= ts * c.den /\ s * c.den \in Nat /\ ts * c.den \in Nat
        OBVIOUS
      <3>2. 2 * s * c.den = 2 * (s * c.den) /\ 2 * ts * c.den = 2 * (ts * c.den)
        OBVIOUS
      <3> QED
        BY <3>1, <3>2
    <2>3. (2 * s * c.den + c.num) \div (2 * c.num) <= (2 * ts * c.den + c.num) \div (2 * c.num)
      BY <2>1, <2>2, DivGrows
    <2> QED
      BY <1>2, <2>3 DEF Rounded
  <1> QED
    BY <1>1, <1>2

\* An earlier virtual bucket holds earlier events.
LEMMA RoundedLess ==
  ASSUME NEW c, c.num \in Nat, c.den \in Nat \ {0}, NEW s \in Nat, NEW ts \in Nat,
         Rounded(c, s) < Rounded(c, ts)
  PROVE  s < ts
  <1>1. CASE ts <= s
    BY <1>1, RoundedGrows, RoundedIs
  <1> QED
    BY <1>1

\* With buckettop one and a half widths past virtual bucket m, the events of
\* the virtual buckets up to m + 1 are due.
LEMMA DueIs ==
  ASSUME NEW c, c.num \in Nat \ {0}, c.den \in Nat \ {0}, NEW h \in Nat, NEW m \in Nat
  PROVE  2 * c.den * h < (2 * m + 3) * c.num <=> Rounded(c, h) <= m + 1
  <1> DEFINE R == Rounded(c, h)
             w == c.num
             y == c.den * h
  <1>1. /\ R \in Nat /\ (2 * w) * R <= 2 * y + w /\ 2 * y + w < (2 * w) * (R + 1)
    <2>1. /\ R \in Nat /\ (2 * w) * R <= 2 * h * c.den + w
          /\ 2 * h * c.den + w < (2 * w) * (R + 1)
      BY RoundedIs
    <2>2. 2 * h * c.den = 2 * y
      OBVIOUS
    <2> HIDE DEF R, w, y
    <2> QED
      BY <2>1, <2>2
  <1>2. 2 * c.den * h = 2 * y /\ y \in Nat /\ w \in Nat \ {0}
    OBVIOUS
  <1> HIDE DEF R, w, y
  <1>3. (2 * w) * R = 2 * (w * R) /\ (2 * w) * (R + 1) = 2 * (w * R) + 2 * w /\ w * R \in Nat
    BY <1>1, <1>2
  <1>4. (2 * m + 3) * w = 2 * (w * m) + 3 * w /\ w * m \in Nat
    BY <1>2
  <1>5. ASSUME R <= m + 1 PROVE 2 * y < (2 * m + 3) * w
    <2>1. w * R <= w * (m + 1) /\ w * (m + 1) = w * m + w
      BY <1>1, <1>2, <1>5
    <2> QED
      BY <1>1, <1>2, <1>3, <1>4, <2>1
  <1>6. ASSUME m + 2 <= R PROVE ~ (2 * y < (2 * m + 3) * w)
    <2>1. w * (m + 2) <= w * R /\ w * (m + 2) = w * m + 2 * w
      BY <1>1, <1>2, <1>6
    <2> QED
      BY <1>1, <1>2, <1>3, <1>4, <2>1
  <1>7. R <= m + 1 \/ m + 2 <= R
    BY <1>1
  <1> QED
    BY <1>2, <1>5, <1>6, <1>7, <1>1 DEF R, w

-----------------------------------------------------------------------------
\* Every event is in the bucket of its virtual bucket, and the lists are sorted.
InPlace(c) ==
  \A i \in 0 .. (c.nbuckets - 1) :
    /\ \A k \in 1 .. Len(c.calendar[i]) : Rounded(c, c.calendar[i][k]) % c.nbuckets = i
    /\ \A j, k \in 1 .. Len(c.calendar[i]) : j <= k => c.calendar[i][j] <= c.calendar[i][k]

Exact(c) == c.qsize = Cardinality(Slots(c))

\* No event is before the last one taken.
Ahead(c) == \A p \in Slots(c) : c.lastprio <= EventAt(c, p)

\* The bucket of the cursor is that of some virtual bucket v that is not past
\* lastprio, and buckettop is that of some m.  The two agree after every
\* operation but a direct search, which leaves m up to a year ahead of v.
Cursor(c) ==
  c.num # 0 =>
    \E v \in 0 .. Rounded(c, c.lastprio), m \in 0 .. c.buckettop :
      /\ v % c.nbuckets = c.lastbucket
      /\ c.buckettop = 2 * m + 3
      /\ m + 2 <= v + c.nbuckets

\* What every function of the calendar relies on and leaves.
Coherent(c) == IsCalendar(c) /\ InPlace(c) /\ Exact(c) /\ Ahead(c) /\ Cursor(c)

LEMMA CalendarIs ==
  ASSUME NEW c, IsCalendar(c)
  PROVE  /\ c.calendar \in [0 .. (c.nbuckets - 1) -> Seq(Nat)]
         /\ c.nbuckets \in Nat /\ c.nbuckets \in Nat \ {0} /\ 2 <= c.nbuckets
         /\ c.num \in Nat /\ c.den \in Nat \ {0} /\ c.qsize \in Nat /\ c.lastprio \in Nat
         /\ c.lastbucket \in 0 .. (c.nbuckets - 1) /\ c.buckettop \in Nat
         /\ \A i \in 0 .. (c.nbuckets - 1) : /\ c.calendar[i] \in Seq(Nat)
                                             /\ Len(c.calendar[i]) \in Nat
                                             /\ \A k \in 1 .. Len(c.calendar[i]) : c.calendar[i][k] \in Nat
  <1>1. /\ c.calendar \in [0 .. (c.nbuckets - 1) -> Seq(Nat)]
        /\ c.nbuckets \in Nat /\ c.nbuckets \in Nat \ {0} /\ 2 <= c.nbuckets
        /\ c.num \in Nat /\ c.den \in Nat \ {0} /\ c.qsize \in Nat /\ c.lastprio \in Nat
        /\ c.lastbucket \in 0 .. (c.nbuckets - 1) /\ c.buckettop \in Nat
    BY DEF IsCalendar
  <1>2. \A i \in 0 .. (c.nbuckets - 1) : c.calendar[i] \in Seq(Nat)
    BY <1>1
  <1> QED
    BY <1>1, <1>2, LenProperties, ElementOfSeq

\* The width alone decides a virtual bucket.
LEMMA SameWidth ==
  ASSUME NEW c, NEW d, d.num = c.num, d.den = c.den
  PROVE  \A ts : Rounded(d, ts) = Rounded(c, ts)
  BY DEF Rounded

\* An event is queued when its count is not 0.
LEMMA HasEvent ==
  ASSUME NEW c, c.nbuckets \in Nat, c.calendar \in [0 .. (c.nbuckets - 1) -> Seq(Nat)]
  PROVE  /\ \A X : CountIn(c, X) \in Nat
         /\ \A X : CountIn(c, X) # 0 <=> \E p \in Slots(c) : EventAt(c, p) \in X
         /\ CountIn(c, Nat) = Cardinality(Slots(c))
  <1>1. IsFiniteSet(Slots(c)) /\ \A p \in Slots(c) : EventAt(c, p) \in Nat
    BY SlotIs
  <1>2. ASSUME NEW X
        PROVE  CountIn(c, X) \in Nat /\ (CountIn(c, X) # 0 <=> \E p \in Slots(c) : EventAt(c, p) \in X)
    <2> DEFINE A == {p \in Slots(c) : EventAt(c, p) \in X}
    <2>1. A \in SUBSET Slots(c)
      OBVIOUS
    <2>2. A # {} <=> \E p \in Slots(c) : EventAt(c, p) \in X
      OBVIOUS
    <2>3. CountIn(c, X) = Cardinality(A)
      BY DEF CountIn
    <2> HIDE DEF A
    <2>4. IsFiniteSet(A)
      BY <1>1, <2>1, FS_Subset
    <2>5. Cardinality(A) \in Nat /\ (Cardinality(A) = 0 <=> A = {})
      BY <2>4, FS_CardinalityType, FS_EmptySet
    <2> QED
      BY <2>2, <2>3, <2>5
  <1>3. {p \in Slots(c) : EventAt(c, p) \in Nat} = Slots(c)
    BY <1>1
  <1> QED
    BY <1>2, <1>3 DEF CountIn

LEMMA AheadIs ==
  ASSUME NEW c, c.nbuckets \in Nat, c.calendar \in [0 .. (c.nbuckets - 1) -> Seq(Nat)]
  PROVE  Ahead(c) <=> \A e \in Nat : CountIn(c, {e}) # 0 => c.lastprio <= e
  <1>1. \A p \in Slots(c) : EventAt(c, p) \in Nat
    BY SlotIs
  <1>2. \A e : CountIn(c, {e}) # 0 <=> \E p \in Slots(c) : EventAt(c, p) \in {e}
    BY HasEvent
  <1> QED
    BY <1>1, <1>2 DEF Ahead

\* An event is linked in its place.
LEMMA LinkIs ==
  ASSUME NEW c, IsCalendar(c), InPlace(c), NEW ts \in Nat
  PROVE  LET i == Rounded(c, ts) % c.nbuckets
             d == LinkEvent(c, i, ts)
         IN  /\ i \in 0 .. (c.nbuckets - 1)
             /\ IsCalendar(d) /\ InPlace(d)
             /\ OneMore(c, d, i, Passed(c.calendar[i], ts), ts)
             /\ d.nbuckets = c.nbuckets /\ d.num = c.num /\ d.den = c.den /\ d.qsize = c.qsize + 1
             /\ d.lastprio = c.lastprio /\ d.lastbucket = c.lastbucket /\ d.buckettop = c.buckettop
  <1> DEFINE i == Rounded(c, ts) % c.nbuckets
             d == LinkEvent(c, i, ts)
             N == 0 .. (c.nbuckets - 1)
             s == c.calendar[i]
             k == Passed(s, ts)
             t == InsertAt(s, k + 1, ts)
  <1>0. /\ c.calendar \in [N -> Seq(Nat)]
        /\ c.nbuckets \in Nat \ {0} /\ c.num \in Nat /\ c.den \in Nat \ {0} /\ c.qsize \in Nat
    BY CalendarIs
  <1>1. i \in N
    <2>1. Rounded(c, ts) \in Nat
      BY <1>0, RoundedIs
    <2> QED
      BY <1>0, <2>1, ModIs
  <1>2. d = [c EXCEPT !.calendar = [c.calendar EXCEPT ![i] = t], !.qsize = c.qsize + 1]
    BY DEF LinkEvent
  <1> HIDE DEF i, d
  <1>3. s \in Seq(Nat) /\ Len(s) \in Nat /\ \A j \in 1 .. Len(s) : s[j] \in Nat
    BY <1>1, CalendarIs
  <1>4. k \in 0 .. Len(s) /\ (\A j \in 1 .. k : s[j] <= ts) /\ (k < Len(s) => s[k + 1] > ts)
    BY <1>3, PassedIs
  <1> HIDE DEF s, k
  <1>5. /\ t \in Seq(Nat) /\ Len(t) = Len(s) + 1
        /\ \A j \in 1 .. Len(s) + 1 : t[j] = IF j <= k THEN s[j] ELSE IF j = k + 1 THEN ts ELSE s[j - 1]
    <2>1. /\ InsertAt(s, k + 1, ts) \in Seq(Nat) /\ Len(InsertAt(s, k + 1, ts)) = Len(s) + 1
          /\ \A j \in 1 .. Len(s) + 1 : InsertAt(s, k + 1, ts)[j] =
               IF j <= k THEN s[j] ELSE IF j = k + 1 THEN ts ELSE s[j - 1]
      <3>1. s \in Seq(Nat)
        BY <1>3
      <3>2. k \in 0 .. Len(s)
        BY <1>4
      <3> QED
        BY ONLY <3>1, <3>2, ts \in Nat, InsertAtIs
    <2> QED
      BY <2>1
  <1> HIDE DEF t
  <1>6. /\ d.calendar = [c.calendar EXCEPT ![i] = t]
        /\ d.nbuckets = c.nbuckets /\ d.num = c.num /\ d.den = c.den /\ d.qsize = c.qsize + 1
        /\ d.lastprio = c.lastprio /\ d.lastbucket = c.lastbucket /\ d.buckettop = c.buckettop
    BY <1>2 DEF IsCalendar
  <1>7. d.calendar \in [N -> Seq(Nat)] /\ d.calendar[i] = t /\ \A m \in N : m # i => d.calendar[m] = c.calendar[m]
    BY <1>0, <1>1, <1>5, <1>6
  <1>8. IsCalendar(d)
    <2> DEFINE C == [calendar : [N -> Seq(Nat)], nbuckets : Nat \ {0, 1}, num : Nat, den : Nat \ {0},
                     qsize : Nat, lastprio : Nat, lastbucket : N, buckettop : Nat]
    <2>1. c \in C
      BY DEF IsCalendar
    <2>2. [c.calendar EXCEPT ![i] = t] \in [N -> Seq(Nat)] /\ c.qsize + 1 \in Nat
      BY <1>0, <1>6, <1>7
    <2>3. d \in C
      BY <1>2, <2>1, <2>2
    <2> QED
      BY <1>6, <2>3 DEF IsCalendar
  <1>9. OneMore(c, d, i, k, ts)
    BY <1>1, <1>4, <1>5, <1>6, <1>7 DEF OneMore, s
  <1>10. InPlace(d)
    <2>1. \A x : Rounded(d, x) = Rounded(c, x)
      BY <1>6, SameWidth
    <2>2. /\ \A j \in 1 .. Len(s) : Rounded(c, s[j]) % c.nbuckets = i
          /\ \A j, m \in 1 .. Len(s) : j <= m => s[j] <= s[m]
      BY <1>1 DEF InPlace, s
    <2>3. ASSUME NEW j \in 1 .. Len(t) PROVE Rounded(c, t[j]) % c.nbuckets = i
      <3>1. CASE j <= k
        <4>1. j \in 1 .. Len(s) /\ t[j] = s[j]
          BY <1>3, <1>4, <1>5, <3>1
        <4> QED
          BY <2>2, <4>1
      <3>2. CASE j = k + 1
        <4>1. t[j] = ts
          BY <1>3, <1>4, <1>5, <3>2
        <4> QED
          BY <4>1 DEF i
      <3>3. CASE ~ (j <= k) /\ j # k + 1
        <4>1. j - 1 \in 1 .. Len(s) /\ t[j] = s[j - 1]
          BY <1>3, <1>4, <1>5, <3>3
        <4> QED
          BY <2>2, <4>1
      <3> QED
        BY <3>1, <3>2, <3>3
    <2>4. ASSUME NEW j \in 1 .. Len(s), k < j PROVE ts < s[j]
      <3>1. k < Len(s) /\ k + 1 \in 1 .. Len(s) /\ k + 1 <= j
        BY <1>3, <1>4, <2>4
      <3>2. s[k + 1] <= s[j] /\ s[k + 1] > ts /\ s[k + 1] \in Nat /\ s[j] \in Nat
        BY <1>3, <1>4, <2>2, <3>1
      <3> QED
        BY <3>2
    <2>5. ASSUME NEW j \in 1 .. Len(t), NEW m \in 1 .. Len(t), j <= m PROVE t[j] <= t[m]
      <3>1. CASE m <= k
        <4>1. j \in 1 .. Len(s) /\ t[j] = s[j] /\ m \in 1 .. Len(s) /\ t[m] = s[m]
          BY <1>3, <1>4, <1>5, <2>5, <3>1
        <4> QED
          BY <2>2, <2>5, <4>1
      <3>2. CASE j <= k /\ m = k + 1
        <4>1. j \in 1 .. k /\ t[j] = s[j] /\ t[m] = ts
          BY <1>3, <1>4, <1>5, <3>2
        <4> QED
          BY <1>4, <4>1
      <3>3. CASE j <= k /\ m > k + 1
        <4>1. j \in 1 .. Len(s) /\ t[j] = s[j] /\ m - 1 \in 1 .. Len(s) /\ t[m] = s[m - 1] /\ j <= m - 1
          BY <1>3, <1>4, <1>5, <2>5, <3>3
        <4> QED
          BY <2>2, <4>1
      <3>4. CASE j = k + 1 /\ m = k + 1
        <4>1. t[j] = ts /\ t[m] = ts
          BY <1>3, <1>4, <1>5, <3>4
        <4> QED
          BY <4>1
      <3>5. CASE j = k + 1 /\ m > k + 1
        <4>1. t[j] = ts /\ m - 1 \in 1 .. Len(s) /\ t[m] = s[m - 1] /\ k < m - 1
          BY <1>3, <1>4, <1>5, <3>5
        <4>2. ts < s[m - 1] /\ s[m - 1] \in Nat
          BY <1>3, <2>4, <4>1
        <4> QED
          BY <4>1, <4>2
      <3>6. CASE j > k + 1
        <4>1. j - 1 \in 1 .. Len(s) /\ t[j] = s[j - 1] /\ m - 1 \in 1 .. Len(s) /\ t[m] = s[m - 1] /\ j - 1 <= m - 1
          BY <1>3, <1>4, <1>5, <2>5, <3>6
        <4> QED
          BY <2>2, <4>1
      <3> QED
        BY <1>3, <1>4, <1>5, <2>5, <3>1, <3>2, <3>3, <3>4, <3>5, <3>6
    <2>6. ASSUME NEW m \in N
          PROVE  /\ \A j \in 1 .. Len(d.calendar[m]) : Rounded(d, d.calendar[m][j]) % d.nbuckets = m
                 /\ \A j, n \in 1 .. Len(d.calendar[m]) : j <= n => d.calendar[m][j] <= d.calendar[m][n]
      <3>1. CASE m = i
        BY <1>6, <1>7, <2>1, <2>3, <2>5, <3>1
      <3>2. CASE m # i
        <4>1. d.calendar[m] = c.calendar[m]
          BY <1>7, <3>2
        <4> QED
          BY <1>6, <2>1, <4>1 DEF InPlace
      <3> QED
        BY <3>1, <3>2
    <2> QED
      BY <1>6, <2>6 DEF InPlace
  <1> QED
    BY <1>1, <1>6, <1>8, <1>9, <1>10 DEF i, d, k, s

\* Equal buckets hold the same events in the same places.
LEMMA SameBuckets ==
  ASSUME NEW c, NEW d, d.calendar = c.calendar, d.nbuckets = c.nbuckets, d.num = c.num, d.den = c.den
  PROVE  /\ Slots(d) = Slots(c) /\ \A p : EventAt(d, p) = EventAt(c, p)
         /\ \A X : CountIn(d, X) = CountIn(c, X)
         /\ InPlace(c) => InPlace(d)
  <1>1. Slots(d) = Slots(c) /\ \A p : EventAt(d, p) = EventAt(c, p)
    BY DEF Slots, EventAt
  <1>2. \A ts : Rounded(d, ts) = Rounded(c, ts)
    BY SameWidth
  <1>3. \A X : CountIn(d, X) = CountIn(c, X)
    <2> SUFFICES ASSUME NEW X PROVE CountIn(d, X) = CountIn(c, X)
      OBVIOUS
    <2>1. {p \in Slots(d) : EventAt(d, p) \in X} = {p \in Slots(c) : EventAt(c, p) \in X}
      BY <1>1
    <2> QED
      BY <2>1 DEF CountIn
  <1>4. InPlace(c) => InPlace(d)
    BY <1>2 DEF InPlace
  <1> QED
    BY <1>1, <1>3, <1>4

\* Calendars with the same buckets to fill.
SameFrame(c, d) == d.nbuckets = c.nbuckets /\ d.num = c.num /\ d.den = c.den

\* The calendar d is c and one event more.
Added(c, d, ts) ==
  /\ Coherent(d) /\ SameFrame(c, d) /\ d.qsize = c.qsize + 1
  /\ \A X : CountIn(d, X) = CountIn(c, X) + (IF ts \in X THEN 1 ELSE 0)

\* calqueue_enq() adds the event and stays coherent.
LEMMA EnqIs ==
  ASSUME NEW c, Coherent(c), NEW ts \in Nat
  PROVE  Added(c, enq(c, ts), ts)
  <1> DEFINE n == Rounded(c, ts)
             i == n % c.nbuckets
             l == LinkEvent(c, i, ts)
             d == enq(c, ts)
  <1>0. IsCalendar(c) /\ InPlace(c) /\ Exact(c) /\ Ahead(c) /\ Cursor(c)
    BY DEF Coherent
  <1>1. /\ c.calendar \in [0 .. (c.nbuckets - 1) -> Seq(Nat)] /\ c.nbuckets \in Nat /\ 2 <= c.nbuckets
        /\ c.num \in Nat /\ c.den \in Nat \ {0} /\ c.qsize \in Nat /\ c.lastprio \in Nat
        /\ c.lastbucket \in 0 .. (c.nbuckets - 1) /\ c.buckettop \in Nat
    BY <1>0, CalendarIs
  <1>2. n \in Nat
    BY <1>1, RoundedIs
  <1>3. /\ i \in 0 .. (c.nbuckets - 1) /\ IsCalendar(l) /\ InPlace(l)
        /\ OneMore(c, l, i, Passed(c.calendar[i], ts), ts)
        /\ l.nbuckets = c.nbuckets /\ l.num = c.num /\ l.den = c.den /\ l.qsize = c.qsize + 1
        /\ l.lastprio = c.lastprio /\ l.lastbucket = c.lastbucket /\ l.buckettop = c.buckettop
    BY <1>0, LinkIs
  <1>4. d = IF ts >= c.lastprio THEN l
            ELSE [l EXCEPT !.lastprio = ts, !.lastbucket = i, !.buckettop = TopOf(c, n)]
    BY DEF enq
  <1>5. \A X : CountIn(c, X) \in Nat /\ CountIn(l, X) = CountIn(c, X) + (IF ts \in X THEN 1 ELSE 0)
    BY <1>1, <1>3, CountMore
  <1> HIDE DEF n, i, l, d
  <1>6. TopOf(c, n) \in Nat /\ (c.num # 0 => TopOf(c, n) = 2 * n + 3)
    BY <1>2 DEF TopOf
  <1>7. /\ IsCalendar(d) /\ d.calendar = l.calendar
        /\ d.nbuckets = c.nbuckets /\ d.num = c.num /\ d.den = c.den /\ d.qsize = c.qsize + 1
    <2>1. CASE ts >= c.lastprio
      BY <1>3, <1>4, <2>1
    <2>2. CASE ~ (ts >= c.lastprio)
      <3> DEFINE N == 0 .. (l.nbuckets - 1)
                 C == [calendar : [N -> Seq(Nat)], nbuckets : Nat \ {0, 1}, num : Nat, den : Nat \ {0},
                       qsize : Nat, lastprio : Nat, lastbucket : N, buckettop : Nat]
      <3>1. l \in C
        BY <1>3 DEF IsCalendar
      <3>2. d = [l EXCEPT !.lastprio = ts, !.lastbucket = i, !.buckettop = TopOf(c, n)]
        BY <1>4, <2>2
      <3>3. i \in N
        BY <1>3
      <3>4. d \in C
        BY <1>6, <3>1, <3>2, <3>3
      <3>5. d.calendar = l.calendar /\ d.nbuckets = l.nbuckets /\ d.num = l.num /\ d.den = l.den /\ d.qsize = l.qsize
        BY <3>1, <3>2
      <3> QED
        BY <1>3, <3>4, <3>5 DEF IsCalendar
    <2> QED
      BY <2>1, <2>2
  <1>8. /\ InPlace(d) /\ \A X : CountIn(d, X) = CountIn(l, X)
    BY <1>3, <1>7, SameBuckets
  <1>9. \A X : CountIn(d, X) = CountIn(c, X) + (IF ts \in X THEN 1 ELSE 0)
    BY <1>5, <1>8
  <1>10. d.calendar \in [0 .. (d.nbuckets - 1) -> Seq(Nat)] /\ d.nbuckets \in Nat
    BY <1>7, CalendarIs
  <1>11. Exact(d)
    <2>1. CountIn(d, Nat) = CountIn(c, Nat) + 1
      BY <1>9
    <2>2. CountIn(d, Nat) = Cardinality(Slots(d)) /\ CountIn(c, Nat) = Cardinality(Slots(c))
      BY <1>1, <1>10, HasEvent
    <2> QED
      BY <1>0, <1>7, <2>1, <2>2 DEF Exact
  <1>12. d.lastprio = IF ts >= c.lastprio THEN c.lastprio ELSE ts
    <2>1. CASE ts >= c.lastprio
      BY <1>3, <1>4, <2>1
    <2>2. CASE ~ (ts >= c.lastprio)
      BY <1>3, <1>4, <2>2 DEF IsCalendar
    <2> QED
      BY <2>1, <2>2
  <1>13. Ahead(d)
    <2>1. ASSUME NEW e \in Nat, CountIn(d, {e}) # 0 PROVE d.lastprio <= e
      <3>1. CASE e = ts
        BY <1>1, <1>12, <3>1
      <3>2. CASE e # ts
        <4>1. CountIn(d, {e}) = CountIn(c, {e}) + 0 /\ CountIn(c, {e}) \in Nat
          BY <1>5, <1>9, <3>2
        <4>2. c.lastprio <= e
          BY <1>0, <1>1, <2>1, <4>1, AheadIs
        <4> QED
          BY <1>1, <1>12, <4>2
      <3> QED
        BY <3>1, <3>2
    <2> QED
      BY <1>10, <2>1, AheadIs
  <1>14. Cursor(d)
    <2> SUFFICES ASSUME d.num # 0
                 PROVE  \E v \in 0 .. Rounded(d, d.lastprio), m \in 0 .. d.buckettop :
                          /\ v % d.nbuckets = d.lastbucket
                          /\ d.buckettop = 2 * m + 3
                          /\ m + 2 <= v + d.nbuckets
      BY DEF Cursor
    <2>0. \A x : Rounded(d, x) = Rounded(c, x)
      BY <1>7, SameWidth
    <2>1. CASE ts >= c.lastprio
      <3>1. d.lastprio = c.lastprio /\ d.lastbucket = c.lastbucket /\ d.buckettop = c.buckettop
        BY <1>3, <1>4, <2>1
      <3>2. PICK v \in 0 .. Rounded(c, c.lastprio), m \in 0 .. c.buckettop :
              v % c.nbuckets = c.lastbucket /\ c.buckettop = 2 * m + 3 /\ m + 2 <= v + c.nbuckets
        BY <1>0, <1>7 DEF Cursor
      <3> QED
        BY <1>7, <2>0, <3>1, <3>2
    <2>2. CASE ~ (ts >= c.lastprio)
      <3>1. d.lastprio = ts /\ d.lastbucket = i /\ d.buckettop = 2 * n + 3
        BY <1>3, <1>4, <1>6, <1>7, <2>2 DEF IsCalendar
      <3>2. n \in 0 .. Rounded(d, d.lastprio) /\ n \in 0 .. d.buckettop /\ n % d.nbuckets = d.lastbucket
        BY <1>2, <1>7, <2>0, <3>1 DEF n, i
      <3>3. n + 2 <= n + d.nbuckets
        BY <1>1, <1>2, <1>7
      <3> QED
        BY <3>1, <3>2, <3>3
    <2> QED
      BY <2>1, <2>2
  <1> QED
    BY <1>7, <1>8, <1>9, <1>11, <1>13, <1>14 DEF Coherent, Added, SameFrame, d

\* The calendar d is c without the head of bucket i, and with that top.
Beheaded(c, d, i, top) ==
  /\ IsCalendar(d) /\ InPlace(d) /\ OneMore(d, c, i, 0, Head(c.calendar[i]))
  /\ 1 \in 1 .. Len(c.calendar[i]) /\ Head(c.calendar[i]) = c.calendar[i][1]
  /\ Head(c.calendar[i]) \in Nat
  /\ d.nbuckets = c.nbuckets /\ d.num = c.num /\ d.den = c.den /\ d.qsize = c.qsize - 1
  /\ d.lastprio = Head(c.calendar[i]) /\ d.lastbucket = i /\ d.buckettop = top

\* The head of a bucket is taken.
LEMMA TakeIs ==
  ASSUME NEW c, IsCalendar(c), InPlace(c), c.qsize # 0,
         NEW i \in 0 .. (c.nbuckets - 1), c.calendar[i] # <<>>, NEW top \in Nat
  PROVE  Beheaded(c, TakeHead(c, i, top), i, top)
  <1> DEFINE N == 0 .. (c.nbuckets - 1)
             d == TakeHead(c, i, top)
             s == c.calendar[i]
             t == Tail(s)
             e == Head(s)
  <1>0. /\ c.calendar \in [N -> Seq(Nat)] /\ s \in Seq(Nat) /\ Len(s) \in Nat
        /\ c.nbuckets \in Nat /\ c.num \in Nat /\ c.den \in Nat \ {0} /\ c.qsize \in Nat
        /\ \A j \in 1 .. Len(s) : s[j] \in Nat
    BY CalendarIs
  <1>1. e \in Nat /\ t \in Seq(Nat) /\ Len(t) = Len(s) - 1 /\ \A j \in 1 .. Len(t) : t[j] = s[j + 1]
    BY <1>0, HeadTailProperties
  <1>2. Len(s) \in Nat \ {0} /\ e = s[1]
    <2>1. Len(s) \in Nat \ {0}
      BY <1>0, EmptySeq
    <2> QED
      BY <1>0, <2>1
  <1>3. d = [c EXCEPT !.calendar = [c.calendar EXCEPT ![i] = t], !.qsize = c.qsize - 1,
                      !.buckettop = top, !.lastbucket = i, !.lastprio = e]
    BY DEF TakeHead
  <1> HIDE DEF d, s, t, e
  <1>4. /\ d.calendar = [c.calendar EXCEPT ![i] = t]
        /\ d.nbuckets = c.nbuckets /\ d.num = c.num /\ d.den = c.den /\ d.qsize = c.qsize - 1
        /\ d.lastprio = e /\ d.lastbucket = i /\ d.buckettop = top
    BY <1>3 DEF IsCalendar
  <1>5. d.calendar \in [N -> Seq(Nat)] /\ d.calendar[i] = t /\ \A m \in N : m # i => d.calendar[m] = c.calendar[m]
    BY <1>0, <1>1, <1>4
  <1>6. IsCalendar(d)
    <2> DEFINE C == [calendar : [N -> Seq(Nat)], nbuckets : Nat \ {0, 1}, num : Nat, den : Nat \ {0},
                     qsize : Nat, lastprio : Nat, lastbucket : N, buckettop : Nat]
    <2>1. c \in C
      BY DEF IsCalendar
    <2>2. [c.calendar EXCEPT ![i] = t] \in [N -> Seq(Nat)] /\ c.qsize - 1 \in Nat /\ i \in N
      BY <1>0, <1>4, <1>5
    <2>3. d \in C
      BY <1>1, <1>3, <2>1, <2>2
    <2> QED
      BY <1>4, <2>3 DEF IsCalendar
  <1>7. OneMore(d, c, i, 0, e)
    <2>1. \A j \in 1 .. Len(t) + 1 : s[j] = IF j <= 0 THEN t[j] ELSE IF j = 0 + 1 THEN e ELSE t[j - 1]
      <3> SUFFICES ASSUME NEW j \in 1 .. Len(t) + 1
                   PROVE  s[j] = IF j <= 0 THEN t[j] ELSE IF j = 0 + 1 THEN e ELSE t[j - 1]
        OBVIOUS
      <3>1. CASE j = 1
        BY <1>2, <3>1
      <3>2. CASE j # 1
        <4>1. j - 1 \in 1 .. Len(t) /\ (j - 1) + 1 = j /\ ~ (j <= 0) /\ j # 0 + 1
          BY <1>1, <1>2, <3>2
        <4>2. t[j - 1] = s[j]
          BY <1>1, <4>1
        <4> QED
          BY <4>1, <4>2
      <3> QED
        BY <3>1, <3>2
    <2>2. 0 \in 0 .. Len(t) /\ Len(s) = Len(t) + 1
      BY <1>1, <1>2
    <2> QED
      BY <1>0, <1>4, <1>5, <2>1, <2>2 DEF OneMore, s
  <1>8. InPlace(d)
    <2>1. \A x : Rounded(d, x) = Rounded(c, x)
      BY <1>4, SameWidth
    <2>2. /\ \A j \in 1 .. Len(s) : Rounded(c, s[j]) % c.nbuckets = i
          /\ \A j, m \in 1 .. Len(s) : j <= m => s[j] <= s[m]
      BY DEF InPlace, s
    <2>3. \A j \in 1 .. Len(t) : j + 1 \in 1 .. Len(s) /\ t[j] = s[j + 1]
      BY <1>1, <1>2
    <2>4. ASSUME NEW j \in 1 .. Len(t), NEW m \in 1 .. Len(t), j <= m PROVE t[j] <= t[m]
      <3>1. j + 1 \in 1 .. Len(s) /\ m + 1 \in 1 .. Len(s) /\ j + 1 <= m + 1
        BY <2>3, <2>4
      <3> QED
        BY <2>2, <2>3, <3>1
    <2>5. ASSUME NEW m \in N
          PROVE  /\ \A j \in 1 .. Len(d.calendar[m]) : Rounded(d, d.calendar[m][j]) % d.nbuckets = m
                 /\ \A j, n \in 1 .. Len(d.calendar[m]) : j <= n => d.calendar[m][j] <= d.calendar[m][n]
      <3>1. CASE m = i
        BY <1>4, <1>5, <2>1, <2>2, <2>3, <2>4, <3>1
      <3>2. CASE m # i
        <4>1. d.calendar[m] = c.calendar[m]
          BY <1>5, <3>2
        <4> QED
          BY <1>4, <2>1, <4>1 DEF InPlace
      <3> QED
        BY <3>1, <3>2
    <2> QED
      BY <1>4, <2>5 DEF InPlace
  <1>9. 1 \in 1 .. Len(s)
    BY <1>2
  <1> QED
    BY <1>1, <1>2, <1>4, <1>6, <1>7, <1>8, <1>9 DEF d, s, e, Beheaded

-----------------------------------------------------------------------------
\* Where the virtual buckets of the queued events lie on the cursor's way.

\* The bucket that a dequeue looks into after k steps, and buckettop then.
BucketAfter(c, k) == (c.lastbucket + k) % c.nbuckets

\* A calendar whose cursor is in the bucket of virtual bucket v with the top of m.
CursorAt(c, v, m) ==
  /\ v \in Nat /\ m \in Nat /\ v <= Rounded(c, c.lastprio)
  /\ v % c.nbuckets = c.lastbucket
  /\ c.buckettop = 2 * m + 3
  /\ m + 2 <= v + c.nbuckets

\* An event is some years and k buckets ahead, and if the bucket's head is not
\* due there, at least two buckets above what is due.
LEMMA OnTheWay ==
  ASSUME NEW c, Coherent(c), c.num # 0, NEW v, NEW m, CursorAt(c, v, m), NEW p \in Slots(c)
  PROVE  \E q \in Nat, k \in 0 .. (c.nbuckets - 1) :
           /\ Rounded(c, EventAt(c, p)) = v + k + c.nbuckets * q
           /\ p[1] = BucketAfter(c, k) /\ p[1] \in 0 .. (c.nbuckets - 1)
           /\ c.calendar[p[1]] # <<>>
           /\ Head(c.calendar[p[1]]) \in Nat /\ Head(c.calendar[p[1]]) <= EventAt(c, p)
           /\ ~ Due(c, p[1], TopAfter(c, k)) => m + k + 2 <= Rounded(c, EventAt(c, p))
           /\ Due(c, p[1], TopAfter(c, k)) => Rounded(c, Head(c.calendar[p[1]])) <= m + k + 1
  <1> DEFINE e == EventAt(c, p)
             r == Rounded(c, e)
             b == c.nbuckets
             i == p[1]
             h == Head(c.calendar[i])
  <1>0. IsCalendar(c) /\ InPlace(c) /\ Ahead(c)
    BY DEF Coherent
  <1>1. /\ b \in Nat \ {0} /\ c.num \in Nat \ {0} /\ c.den \in Nat \ {0} /\ c.lastprio \in Nat
        /\ c.calendar \in [0 .. (b - 1) -> Seq(Nat)]
    BY <1>0, CalendarIs
  <1>2. /\ i \in 0 .. (b - 1) /\ p[2] \in 1 .. Len(c.calendar[i]) /\ e = c.calendar[i][p[2]] /\ e \in Nat
        /\ c.calendar[i] \in Seq(Nat) /\ Len(c.calendar[i]) \in Nat
    BY <1>1, SlotIs
  <1>3. c.lastprio <= e
    BY <1>0 DEF Ahead
  <1>4. r % b = i
    BY <1>0, <1>2 DEF InPlace
  <1>5. v <= r /\ r \in Nat /\ v \in Nat /\ m \in Nat
    <2>1. Rounded(c, c.lastprio) <= r /\ r \in Nat /\ Rounded(c, c.lastprio) \in Nat
      BY <1>1, <1>2, <1>3, RoundedGrows, RoundedIs
    <2> QED
      BY <2>1 DEF CursorAt
  <1>6. PICK q \in Nat, k \in 0 .. b - 1 : r = v + k + b * q /\ (v + k) % b = r % b
    BY <1>1, <1>5, RoundsAfter
  <1>7. BucketAfter(c, k) = i
    <2>1. ((v % b) + k) % b = (v + k) % b
      <3>1. k \in Nat
        BY <1>1, <1>6
      <3> QED
        BY <1>1, <1>5, <3>1, ModOffset
    <2> QED
      BY <1>4, <1>6, <2>1 DEF BucketAfter, CursorAt
  <1>8. c.calendar[i] # <<>> /\ h \in Nat /\ h <= e
    <2>1. Len(c.calendar[i]) # 0 /\ 1 \in 1 .. Len(c.calendar[i]) /\ 1 <= p[2]
      BY <1>2
    <2>2. c.calendar[i] # <<>>
      BY <1>2, <2>1
    <2>3. h = c.calendar[i][1]
      BY <1>2, <2>2
    <2>4. c.calendar[i][1] <= c.calendar[i][p[2]]
      BY <1>0, <1>2, <2>1 DEF InPlace
    <2>5. c.calendar[i][1] \in Nat
      BY <1>2, <2>1, ElementOfSeq
    <2> QED
      BY <1>2, <2>2, <2>3, <2>4, <2>5
  <1> HIDE DEF h, e, r, b, i
  <1>9. Due(c, i, TopAfter(c, k)) <=> Rounded(c, h) <= m + k + 1
    <2>1. TopAfter(c, k) = 2 * (m + k) + 3
      BY <1>1, <1>5, <1>6 DEF TopAfter, CursorAt
    <2>2. m + k \in Nat
      BY <1>1, <1>5, <1>6
    <2>3. 2 * c.den * h < (2 * (m + k) + 3) * c.num <=> Rounded(c, h) <= (m + k) + 1
      BY <1>1, <1>8, <2>2, DueIs
    <2>4. Due(c, i, TopAfter(c, k)) <=> 2 * c.den * h < TopAfter(c, k) * c.num
      BY <1>8 DEF Due, h
    <2> QED
      BY <2>1, <2>3, <2>4
  <1>10. Rounded(c, h) <= r /\ Rounded(c, h) \in Nat
    BY <1>1, <1>2, <1>8, RoundedGrows, RoundedIs DEF r
  <1>11. ASSUME ~ Due(c, i, TopAfter(c, k)) PROVE m + k + 2 <= r
    <2>1. ~ (Rounded(c, h) <= m + k + 1)
      BY <1>9, <1>11
    <2>2. k \in Nat
      BY <1>1, <1>6
    <2> QED
      BY <1>5, <1>10, <2>1, <2>2
  <1> QED
    BY <1>2, <1>6, <1>7, <1>8, <1>9, <1>11 DEF h, e, r, b, i

\* Of some buckets with events, one has the smallest head, and then the least index.
LEMMA LowestIs ==
  ASSUME NEW full \in SUBSET Nat, full # {}, NEW head \in [full -> Nat]
  PROVE  \E i \in full : \A other \in full :
           head[i] < head[other] \/ (head[i] = head[other] /\ i <= other)
  <1>1. {head[i] : i \in full} \in SUBSET Nat /\ {head[i] : i \in full} # {}
    OBVIOUS
  <1>2. PICK h \in {head[i] : i \in full} : \A g \in {head[i] : i \in full} : h <= g
    BY <1>1, LeastNat
  <1> DEFINE T == {i \in full : head[i] = h}
  <1>3. T \in SUBSET Nat /\ T # {}
    BY <1>2
  <1>4. PICK i \in T : \A j \in T : i <= j
    <2> HIDE DEF T
    <2> QED
      BY <1>3, LeastNat
  <1>5. ASSUME NEW other \in full
        PROVE  head[i] < head[other] \/ (head[i] = head[other] /\ i <= other)
    <2>1. head[i] = h /\ h <= head[other] /\ h \in Nat /\ head[other] \in Nat
      BY <1>2, <1>4
    <2>2. head[other] = h => i <= other
      BY <1>4
    <2> QED
      BY <2>1, <2>2
  <1> QED
    BY <1>4, <1>5

\* The calendar d is c without a smallest event, which is its lastprio.
SmallestTaken(c, d) ==
  /\ Coherent(d) /\ SameFrame(c, d) /\ d.qsize = c.qsize - 1
  /\ d.lastprio \in Nat /\ CountIn(c, {d.lastprio}) # 0
  /\ \A e \in Nat : CountIn(c, {e}) # 0 => d.lastprio <= e
  /\ \A X : CountIn(c, X) = CountIn(d, X) + (IF d.lastprio \in X THEN 1 ELSE 0)

\* calqueue_deq() takes a smallest event and stays coherent.
LEMMA DeqIs ==
  ASSUME NEW c, Coherent(c), c.qsize # 0
  PROVE  SmallestTaken(c, deq(c))
  <1> DEFINE N == 0 .. (c.nbuckets - 1)
             bucket(k) == (c.lastbucket + k) % c.nbuckets
             due == {k \in N : Due(c, bucket(k), TopAfter(c, k))}
             full == {i \in N : c.calendar[i] # <<>>}
             lowest(i) == \A other \in full :
                            \/ Head(c.calendar[i]) < Head(c.calendar[other])
                            \/ Head(c.calendar[i]) = Head(c.calendar[other]) /\ i <= other
             first == CHOOSE m \in due : \A other \in due : m <= other
             low == CHOOSE i \in full : lowest(i)
             d == deq(c)
  <1>0. IsCalendar(c) /\ InPlace(c) /\ Exact(c) /\ Ahead(c) /\ Cursor(c)
    BY DEF Coherent
  <1>1. /\ c.calendar \in [N -> Seq(Nat)] /\ c.nbuckets \in Nat /\ c.nbuckets \in Nat \ {0} /\ 2 <= c.nbuckets
        /\ c.num \in Nat /\ c.den \in Nat \ {0} /\ c.qsize \in Nat /\ c.lastprio \in Nat
        /\ c.lastbucket \in N /\ c.buckettop \in Nat
        /\ \A i \in N : c.calendar[i] \in Seq(Nat)
    BY <1>0, CalendarIs
  <1>2. d = IF due # {} THEN TakeHead(c, bucket(first), TopAfter(c, first))
            ELSE TakeHead(c, low, TopAfter(c, c.nbuckets))
    BY DEF deq
  <1>3. /\ due \in SUBSET N /\ due \in SUBSET Nat
        /\ \A k \in N : k \in due <=> Due(c, BucketAfter(c, k), TopAfter(c, k))
        /\ \A k \in N : bucket(k) = BucketAfter(c, k) /\ bucket(k) \in N
    <2>1. \A k \in N : bucket(k) \in N
      <3> SUFFICES ASSUME NEW k \in N PROVE bucket(k) \in N
        OBVIOUS
      <3>1. c.lastbucket + k \in Nat
        BY <1>1
      <3> QED
        BY <1>1, <3>1, ModIs
    <2>2. N \subseteq Nat
      BY <1>1
    <2> QED
      BY <2>1, <2>2 DEF BucketAfter
  <1>4. \A k \in Nat : TopAfter(c, k) \in Nat
    BY <1>1 DEF TopAfter
  <1> HIDE DEF due, bucket
  <1>5. /\ IsFiniteSet(Slots(c)) /\ Slots(c) # {}
        /\ \A p \in Slots(c) : EventAt(c, p) \in Nat /\ p[1] \in N
    <2>1. IsFiniteSet(Slots(c)) /\ \A p \in Slots(c) : EventAt(c, p) \in Nat /\ p[1] \in N
      BY <1>1, SlotIs
    <2> QED
      BY <1>0, <2>1, FS_EmptySet DEF Exact
  <1>6. \A i \in full : Head(c.calendar[i]) \in Nat
    BY <1>1, HeadTailProperties
  <1>7. ASSUME NEW p \in Slots(c)
        PROVE  p[1] \in full /\ Head(c.calendar[p[1]]) <= EventAt(c, p)
    <2>1. /\ p[2] \in 1 .. Len(c.calendar[p[1]]) /\ EventAt(c, p) = c.calendar[p[1]][p[2]]
          /\ p[1] \in N /\ Len(c.calendar[p[1]]) \in Nat
      BY <1>1, SlotIs
    <2>2. 1 \in 1 .. Len(c.calendar[p[1]]) /\ 1 <= p[2] /\ Len(c.calendar[p[1]]) # 0
      BY <2>1
    <2>3. c.calendar[p[1]] # <<>>
      BY <1>1, <2>1, <2>2
    <2>4. c.calendar[p[1]][1] <= c.calendar[p[1]][p[2]]
      BY <1>0, <2>1, <2>2 DEF InPlace
    <2>5. Head(c.calendar[p[1]]) = c.calendar[p[1]][1]
      BY <1>1, <2>1, <2>3
    <2> QED
      BY <2>1, <2>3, <2>4, <2>5
  <1>8. due # {} => first \in due /\ \A other \in due : first <= other
    <2>1. due # {} => \E m \in due : \A other \in due : m <= other
      BY <1>3, LeastNat
    <2> QED
      BY <2>1
  <1>9. low \in full /\ lowest(low)
    <2>1. full # {} /\ full \in SUBSET Nat
      <3>1. N \subseteq Nat
        BY <1>1
      <3>2. PICK p \in Slots(c) : TRUE
        BY <1>5
      <3>3. p[1] \in full
        BY <1>7, <3>2
      <3> QED
        BY <3>1, <3>3
    <2> DEFINE head == [i \in full |-> Head(c.calendar[i])]
    <2>2. head \in [full -> Nat]
      BY <1>6
    <2>3. \E i \in full : \A other \in full :
            head[i] < head[other] \/ (head[i] = head[other] /\ i <= other)
      <3> HIDE DEF head, full
      <3> QED
        BY <2>1, <2>2, LowestIs
    <2>4. \E i \in full : lowest(i)
      BY <2>3
    <2> HIDE DEF lowest, full
    <2> QED
      BY <2>4
  <1> HIDE DEF first, low, d
  \* What is left to show of the bucket that is chosen.
  <1>10. ASSUME NEW i \in N, c.calendar[i] # <<>>, NEW top \in Nat, d = TakeHead(c, i, top),
                \A p \in Slots(c) : Head(c.calendar[i]) <= EventAt(c, p),
                c.num # 0 => \E v \in Nat, m \in Nat :
                  /\ v <= Rounded(c, Head(c.calendar[i])) /\ v % c.nbuckets = i
                  /\ top = 2 * m + 3 /\ m + 2 <= v + c.nbuckets
         PROVE  SmallestTaken(c, d)
    <2> DEFINE e == Head(c.calendar[i])
    <2>1. /\ IsCalendar(d) /\ InPlace(d) /\ OneMore(d, c, i, 0, e) /\ e \in Nat
          /\ 1 \in 1 .. Len(c.calendar[i]) /\ e = c.calendar[i][1]
          /\ d.nbuckets = c.nbuckets /\ d.num = c.num /\ d.den = c.den /\ d.qsize = c.qsize - 1
          /\ d.lastprio = e /\ d.lastbucket = i /\ d.buckettop = top
      <3>1. d = TakeHead(c, i, top) /\ i \in N /\ c.calendar[i] # <<>> /\ top \in Nat
        BY <1>10
      <3>2. IsCalendar(c) /\ InPlace(c) /\ c.qsize # 0 /\ i \in 0 .. (c.nbuckets - 1)
        BY <1>0, <3>1
      <3>3. Beheaded(c, TakeHead(c, i, top), i, top)
        BY <3>1, <3>2, TakeIs
      <3>4. Beheaded(c, d, i, top)
        BY <3>1, <3>3
      <3> QED
        BY <3>4 DEF Beheaded
    <2>2. d.calendar \in [0 .. (d.nbuckets - 1) -> Seq(Nat)] /\ d.nbuckets \in Nat
      BY <2>1, CalendarIs
    <2> HIDE DEF e
    <2>3. \A X : CountIn(d, X) \in Nat /\ CountIn(c, X) = CountIn(d, X) + (IF e \in X THEN 1 ELSE 0)
      BY <2>1, <2>2, CountMore
    <2>4. CountIn(c, {e}) # 0
      <3>1. CountIn(c, {e}) = CountIn(d, {e}) + 1 /\ CountIn(d, {e}) \in Nat
        BY <2>3
      <3> QED
        BY <3>1
    <2>5. \A x \in Nat : CountIn(c, {x}) # 0 => e <= x
      <3> SUFFICES ASSUME NEW x \in Nat, CountIn(c, {x}) # 0 PROVE e <= x
        OBVIOUS
      <3>1. PICK p \in Slots(c) : EventAt(c, p) \in {x}
        BY <1>1, HasEvent
      <3> QED
        BY <1>10, <3>1 DEF e
    <2>6. Exact(d)
      <3>1. CountIn(c, Nat) = CountIn(d, Nat) + 1 /\ CountIn(d, Nat) \in Nat
        BY <2>1, <2>3
      <3>2. CountIn(d, Nat) = Cardinality(Slots(d)) /\ CountIn(c, Nat) = Cardinality(Slots(c))
        BY <1>1, <2>2, HasEvent
      <3> QED
        BY <1>0, <2>1, <3>1, <3>2 DEF Exact
    <2>7. Ahead(d)
      <3>1. ASSUME NEW x \in Nat, CountIn(d, {x}) # 0 PROVE d.lastprio <= x
        <4>1. CountIn(d, {x}) \in Nat /\ CountIn(c, {x}) = CountIn(d, {x}) + (IF e \in {x} THEN 1 ELSE 0)
          BY <2>3
        <4>2. (IF e \in {x} THEN 1 ELSE 0) \in Nat
          OBVIOUS
        <4>3. CountIn(c, {x}) # 0
          BY <3>1, <4>1, <4>2
        <4> QED
          BY <2>1, <2>5, <4>3
      <3> QED
        BY <2>2, <3>1, AheadIs
    <2>8. Cursor(d)
      <3> SUFFICES ASSUME d.num # 0
                   PROVE  \E v \in 0 .. Rounded(d, d.lastprio), m \in 0 .. d.buckettop :
                            /\ v % d.nbuckets = d.lastbucket
                            /\ d.buckettop = 2 * m + 3
                            /\ m + 2 <= v + d.nbuckets
        BY DEF Cursor
      <3>1. PICK v \in Nat, m \in Nat :
              /\ v <= Rounded(c, e) /\ v % c.nbuckets = i
              /\ top = 2 * m + 3 /\ m + 2 <= v + c.nbuckets
        BY <1>10, <2>1 DEF e
      <3>2. Rounded(d, e) = Rounded(c, e) /\ Rounded(c, e) \in Nat
        BY <1>1, <2>1, SameWidth, RoundedIs
      <3>3. v \in 0 .. Rounded(d, d.lastprio) /\ m \in 0 .. d.buckettop
        BY <2>1, <3>1, <3>2
      <3> QED
        BY <2>1, <3>1, <3>3
    <2> QED
      BY <2>1, <2>3, <2>4, <2>5, <2>6, <2>7, <2>8 DEF Coherent, SmallestTaken, SameFrame
  <1>11. CASE c.num = 0
    <2>1. due = {}
      <3> SUFFICES ASSUME NEW k \in due PROVE FALSE
        OBVIOUS
      <3>1. k \in N /\ Due(c, BucketAfter(c, k), TopAfter(c, k)) /\ BucketAfter(c, k) \in N
        BY <1>3
      <3> DEFINE h == Head(c.calendar[BucketAfter(c, k)])
      <3>2. h \in Nat /\ TopAfter(c, k) \in Nat
        <4>1. BucketAfter(c, k) \in full
          BY <3>1 DEF Due
        <4>2. k \in Nat
          BY <1>1, <3>1
        <4> HIDE DEF full
        <4> QED
          BY <1>4, <1>6, <4>1, <4>2
      <3>3. 2 * c.den * h < TopAfter(c, k) * c.num
        BY <3>1 DEF Due
      <3> HIDE DEF h
      <3>4. TopAfter(c, k) * c.num = 0 /\ 2 * c.den * h \in Nat
        <4>1. \A x \in Nat : x * c.num = 0
          BY <1>11
        <4>2. \A x \in Nat : 2 * c.den * x \in Nat
          <5>1. c.den \in Nat
            BY <1>1
          <5> QED
            BY <5>1
        <4> QED
          BY <3>2, <4>1, <4>2
      <3> QED
        BY <3>3, <3>4
    <2>2. d = TakeHead(c, low, TopAfter(c, c.nbuckets))
      BY <1>2, <2>1
    <2>3. \A p \in Slots(c) : Head(c.calendar[low]) <= EventAt(c, p)
      <3> SUFFICES ASSUME NEW p \in Slots(c) PROVE Head(c.calendar[low]) <= EventAt(c, p)
        OBVIOUS
      <3>1. p[1] \in full /\ Head(c.calendar[p[1]]) <= EventAt(c, p)
        BY <1>7
      <3> QED
        BY <1>5, <1>6, <1>9, <3>1
    <2> QED
      BY <1>1, <1>4, <1>9, <1>10, <1>11, <2>2, <2>3 DEF d
  <1>12. CASE c.num # 0
    <2>1. PICK v \in Nat, m \in Nat : CursorAt(c, v, m)
      <3>1. PICK v \in 0 .. Rounded(c, c.lastprio), m \in 0 .. c.buckettop :
              v % c.nbuckets = c.lastbucket /\ c.buckettop = 2 * m + 3 /\ m + 2 <= v + c.nbuckets
        BY <1>0, <1>12 DEF Cursor
      <3>2. Rounded(c, c.lastprio) \in Nat
        BY <1>1, RoundedIs
      <3> QED
        BY <1>1, <3>1, <3>2 DEF CursorAt
    <2>2. ASSUME NEW p \in Slots(c)
          PROVE  \E q \in Nat, k \in N :
                   /\ Rounded(c, EventAt(c, p)) = v + k + c.nbuckets * q
                   /\ p[1] = BucketAfter(c, k)
                   /\ k \notin due => m + k + 2 <= Rounded(c, EventAt(c, p))
                   /\ k \in due => Rounded(c, Head(c.calendar[p[1]])) <= m + k + 1
      <3>1. PICK q \in Nat, k \in N :
              /\ Rounded(c, EventAt(c, p)) = v + k + c.nbuckets * q
              /\ p[1] = BucketAfter(c, k)
              /\ ~ Due(c, p[1], TopAfter(c, k)) => m + k + 2 <= Rounded(c, EventAt(c, p))
              /\ Due(c, p[1], TopAfter(c, k)) => Rounded(c, Head(c.calendar[p[1]])) <= m + k + 1
        BY <1>12, <2>1, OnTheWay
      <3>2. k \in due <=> Due(c, p[1], TopAfter(c, k))
        BY <1>3, <3>1
      <3> QED
        BY <3>1, <3>2
    <2>3. CASE due = {}
      <3>1. d = TakeHead(c, low, TopAfter(c, c.nbuckets))
        BY <1>2, <2>3
      <3>2. \A p \in Slots(c) : Head(c.calendar[low]) <= EventAt(c, p)
        <4> SUFFICES ASSUME NEW p \in Slots(c) PROVE Head(c.calendar[low]) <= EventAt(c, p)
          OBVIOUS
        <4>1. p[1] \in full /\ Head(c.calendar[p[1]]) <= EventAt(c, p)
          BY <1>7
        <4> QED
          BY <1>5, <1>6, <1>9, <4>1
      <3> DEFINE r == Rounded(c, Head(c.calendar[low]))
      <3>3. r \in Nat /\ r % c.nbuckets = low /\ m + 2 <= r
        <4>1. 1 \in 1 .. Len(c.calendar[low]) /\ Head(c.calendar[low]) = c.calendar[low][1]
          <5>1. Len(c.calendar[low]) \in Nat \ {0}
            BY <1>1, <1>9, EmptySeq
          <5> QED
            BY <1>1, <1>9, <5>1
        <4>2. <<low, 1>> \in Slots(c) /\ EventAt(c, <<low, 1>>) = c.calendar[low][1]
          BY <1>1, <1>9, <4>1, SlotIs DEF EventAt
        <4>3. PICK q \in Nat, k \in N : m + k + 2 <= Rounded(c, EventAt(c, <<low, 1>>))
          BY <2>2, <2>3, <4>2
        <4>4. r \in Nat
          BY <1>1, <1>6, <1>9, RoundedIs
        <4>5. r % c.nbuckets = low
          BY <1>0, <1>9, <4>1 DEF InPlace
        <4> HIDE DEF r
        <4>6. m + k + 2 <= r /\ k \in Nat
          BY <1>1, <4>1, <4>2, <4>3 DEF r
        <4> QED
          BY <4>4, <4>5, <4>6
      <3>4. TopAfter(c, c.nbuckets) = 2 * (m + c.nbuckets) + 3 /\ m + c.nbuckets \in Nat
        <4>1. c.buckettop = 2 * m + 3 /\ c.nbuckets \in Nat
          BY <1>1, <2>1 DEF CursorAt
        <4>2. TopAfter(c, c.nbuckets) = c.buckettop + 2 * c.nbuckets
          BY <1>12 DEF TopAfter
        <4> QED
          BY <4>1, <4>2
      <3>5. (m + c.nbuckets) + 2 <= r + c.nbuckets
        BY <1>1, <3>3
      <3>6. TopAfter(c, c.nbuckets) \in Nat /\ low \in N /\ c.calendar[low] # <<>>
        BY <1>1, <1>4, <1>9
      <3>7. \E w \in Nat, n \in Nat :
              /\ w <= Rounded(c, Head(c.calendar[low])) /\ w % c.nbuckets = low
              /\ TopAfter(c, c.nbuckets) = 2 * n + 3 /\ n + 2 <= w + c.nbuckets
        <4>1. r <= Rounded(c, Head(c.calendar[low]))
          BY <3>3
        <4> HIDE DEF r
        <4> QED
          BY <3>3, <3>4, <3>5, <4>1
      <3> QED
        BY <1>10, <3>1, <3>2, <3>6, <3>7 DEF d
    <2>4. CASE due # {}
      <3> DEFINE i == BucketAfter(c, first)
                 h == Head(c.calendar[i])
                 r == Rounded(c, h)
      <3>1. /\ first \in due /\ first \in N /\ first \in Nat /\ \A k \in due : first <= k
            /\ Due(c, i, TopAfter(c, first)) /\ i \in N /\ i \in full
            /\ d = TakeHead(c, i, TopAfter(c, first))
        <4>1. first \in due /\ first \in N /\ first \in Nat /\ \A k \in due : first <= k
          BY <1>3, <1>8, <2>4
        <4>2. Due(c, i, TopAfter(c, first)) /\ i \in N /\ d = TakeHead(c, i, TopAfter(c, first))
          BY <1>2, <1>3, <2>4, <4>1
        <4>3. c.calendar[i] # <<>>
          BY <4>2 DEF Due
        <4> HIDE DEF i
        <4> QED
          BY <4>1, <4>2, <4>3
      <3>2. /\ 1 \in 1 .. Len(c.calendar[i]) /\ h = c.calendar[i][1] /\ h \in Nat
            /\ <<i, 1>> \in Slots(c) /\ EventAt(c, <<i, 1>>) = h
        <4>1. Len(c.calendar[i]) \in Nat \ {0}
          BY <1>1, <3>1, EmptySeq
        <4>2. 1 \in 1 .. Len(c.calendar[i]) /\ h = c.calendar[i][1] /\ h \in Nat
          <5>1. h \in Nat
            BY <1>6, <3>1
          <5> HIDE DEF i
          <5>2. c.calendar[i] \in Seq(Nat) /\ c.calendar[i] # <<>>
            BY <1>1, <3>1
          <5> QED
            BY <4>1, <5>1, <5>2
        <4> HIDE DEF i, h
        <4>3. <<i, 1>> \in Slots(c) /\ EventAt(c, <<i, 1>>) = c.calendar[i][1]
          BY <1>1, <3>1, <4>2, SlotIs DEF EventAt
        <4> QED
          BY <4>2, <4>3
      <3>3. r \in Nat
        BY <1>1, <3>2, RoundedIs
      <3> HIDE DEF i, h, r
      <3>4. r = v + first /\ v <= m + 1
        <4>1. PICK q \in Nat, k \in N :
                /\ Rounded(c, h) = v + k + c.nbuckets * q
                /\ i = BucketAfter(c, k)
                /\ k \in due => Rounded(c, h) <= m + k + 1
          <5>1. <<i, 1>>[1] = i
            OBVIOUS
          <5>2. Head(c.calendar[i]) = h
            BY DEF h
          <5> QED
            BY <2>2, <3>2, <5>1, <5>2
        <4>2. k = first
          <5>1. (c.lastbucket + k) % c.nbuckets = (c.lastbucket + first) % c.nbuckets
            BY <4>1 DEF BucketAfter, i
          <5>2. c.lastbucket \in Nat
            BY <1>1
          <5> QED
            BY <1>1, <3>1, <5>1, <5>2, SameRound
        <4>3. v + k + c.nbuckets * q <= m + k + 1 /\ r = v + k + c.nbuckets * q
          BY <3>1, <4>1, <4>2 DEF r
        <4>4. m + 2 <= v + c.nbuckets
          BY <2>1 DEF CursorAt
        <4>5. q = 0
          <5>1. c.nbuckets * q \in Nat /\ (q # 0 => c.nbuckets <= c.nbuckets * q)
            BY <1>1, MultipleAbove
          <5>2. k \in Nat /\ c.nbuckets \in Nat
            BY <1>1, <3>1, <4>2
          <5>3. v + c.nbuckets * q <= m + 1
            BY <4>3, <5>1, <5>2
          <5> QED
            BY <4>4, <5>1, <5>2, <5>3
        <4>6. c.nbuckets * q = 0 /\ k \in Nat
          BY <1>1, <3>1, <4>2, <4>5, MultipleAbove
        <4> QED
          BY <3>1, <4>2, <4>3, <4>6
      <3>5. ASSUME NEW p \in Slots(c) PROVE h <= EventAt(c, p)
        <4> DEFINE x == EventAt(c, p)
                   s == Rounded(c, x)
        <4>1. PICK q \in Nat, k \in N :
                /\ s = v + k + c.nbuckets * q
                /\ p[1] = BucketAfter(c, k)
                /\ k \notin due => m + k + 2 <= s
          BY <2>2
        <4>2. x \in Nat /\ s \in Nat /\ k \in Nat /\ k < c.nbuckets /\ c.nbuckets * q \in Nat
          <5>1. x \in Nat /\ s \in Nat
            BY <1>1, <1>5, RoundedIs
          <5>2. c.nbuckets * q \in Nat
            BY <1>1, MultipleAbove
          <5> QED
            BY <1>1, <5>1, <5>2
        <4>3. r < s => h < x
          BY <1>1, <3>2, <4>2, RoundedLess DEF r
        <4> HIDE DEF x, s
        <4>4. CASE k < first
          <5>1. m + k + 2 <= s
            BY <3>1, <4>1, <4>2, <4>4
          <5>2. q # 0
            <6>1. CASE q = 0
              <7>1. c.nbuckets * q = 0
                BY <1>1, <6>1, MultipleAbove
              <7> QED
                BY <3>4, <4>1, <4>2, <5>1, <7>1
            <6> QED
              BY <6>1
          <5>3. c.nbuckets <= c.nbuckets * q
            BY <1>1, <5>2, MultipleAbove
          <5>4. first < c.nbuckets
            BY <1>1, <3>1
          <5>5. r < s
            BY <1>1, <3>1, <3>4, <4>1, <4>2, <5>3, <5>4
          <5> QED
            BY <3>2, <4>2, <4>3, <5>5 DEF x
        <4>5. CASE k = first
          <5>1. p[1] = i
            BY <4>1, <4>5 DEF i
          <5> QED
            BY <1>7, <5>1 DEF h
        <4>6. CASE k > first
          <5>1. r < s
            BY <3>1, <3>4, <4>1, <4>2, <4>6
          <5> QED
            BY <3>2, <4>2, <4>3, <5>1 DEF x
        <4> QED
          BY <3>1, <4>2, <4>4, <4>5, <4>6
      <3>6. TopAfter(c, first) = 2 * (m + first) + 3 /\ m + first \in Nat
        BY <1>12, <2>1, <3>1 DEF TopAfter, CursorAt
      <3>7. v + first \in Nat /\ v + first <= r /\ (m + first) + 2 <= (v + first) + c.nbuckets
        BY <1>1, <2>1, <3>1, <3>3, <3>4 DEF CursorAt
      <3>8. (v + first) % c.nbuckets = i
        <4>1. ((v % c.nbuckets) + first) % c.nbuckets = (v + first) % c.nbuckets
          BY <1>1, <3>1, ModOffset
        <4> QED
          BY <2>1, <4>1 DEF CursorAt, BucketAfter, i
      <3>9. \E w \in Nat, n \in Nat :
              /\ w <= Rounded(c, Head(c.calendar[i])) /\ w % c.nbuckets = i
              /\ TopAfter(c, first) = 2 * n + 3 /\ n + 2 <= w + c.nbuckets
        <4>1. v + first <= Rounded(c, Head(c.calendar[i]))
          BY <3>7 DEF r, h
        <4> QED
          BY <3>6, <3>7, <3>8, <4>1
      <3>10. \A p \in Slots(c) : Head(c.calendar[i]) <= EventAt(c, p)
        BY <3>5 DEF h
      <3>11. i \in N /\ c.calendar[i] # <<>> /\ TopAfter(c, first) \in Nat
        BY <1>4, <3>1
      <3> QED
        BY <1>10, <3>1, <3>9, <3>10, <3>11 DEF d
    <2> QED
      BY <2>3, <2>4
  <1> QED
    BY <1>1, <1>11, <1>12

-----------------------------------------------------------------------------
\* Counting the members of a row, and the rows of recursive functions.

\* How many of the first k members of s are in X.
Hits(s, k, X) == Cardinality({j \in 1 .. k : s[j] \in X})

LEMMA HitsIs ==
  ASSUME NEW s, NEW X, NEW n \in Nat
  PROVE  /\ Hits(s, 0, X) = 0
         /\ Hits(s, n, X) \in Nat
         /\ Hits(s, n + 1, X) = Hits(s, n, X) + (IF s[n + 1] \in X THEN 1 ELSE 0)
  <1> DEFINE H(k) == {j \in 1 .. k : s[j] \in X}
  <1>1. ASSUME NEW k \in Nat PROVE IsFiniteSet(H(k)) /\ Cardinality(H(k)) \in Nat
    <2>1. IsFiniteSet(1 .. k)
      BY FS_Interval
    <2>2. H(k) \in SUBSET (1 .. k)
      OBVIOUS
    <2> HIDE DEF H
    <2> QED
      BY <2>1, <2>2, FS_Subset, FS_CardinalityType
  <1>2. Cardinality(H(0)) = 0
    <2>1. H(0) = {}
      OBVIOUS
    <2> HIDE DEF H
    <2> QED
      BY <2>1, FS_EmptySet
  <1>3. ASSUME NEW k \in Nat
        PROVE  Cardinality(H(k + 1)) = Cardinality(H(k)) + (IF s[k + 1] \in X THEN 1 ELSE 0)
    <2>1. CASE s[k + 1] \in X
      <3>1. H(k + 1) = H(k) \cup {k + 1} /\ k + 1 \notin H(k)
        BY <2>1
      <3> HIDE DEF H
      <3> QED
        BY <1>1, <2>1, <3>1, FS_AddElement
    <2>2. CASE s[k + 1] \notin X
      <3>1. H(k + 1) = H(k)
        BY <2>2
      <3> HIDE DEF H
      <3> QED
        BY <1>1, <2>2, <3>1
    <2> QED
      BY <2>1, <2>2
  <1> QED
    BY <1>1, <1>2, <1>3 DEF Hits

\* The calendar after each event of a sequence.
LEMMA PourExists ==
  ASSUME NEW c, NEW s, Len(s) \in Nat
  PROVE  \E f : /\ f[0] = c /\ \A k \in 1 .. Len(s) : f[k] = enq(f[k - 1], s[k])
                /\ Pour(c, s) = f[Len(s)]
  <1> DEFINE n == Len(s)
             F(f, k) == IF k = 0 THEN c ELSE enq(f[k - 1], s[k])
             G == CHOOSE f : f = [k \in 0 .. n |-> F(f, k)]
             T == {m \in Nat : m <= n => \E f : f = [k \in 0 .. m |-> F(f, k)]}
  <1>0. n \in Nat
    OBVIOUS
  <1> HIDE DEF n
  <1>1. 0 \in T
    <2> DEFINE f == [k \in 0 .. 0 |-> c]
    <2>1. f = [k \in 0 .. 0 |-> F(f, k)]
      OBVIOUS
    <2> QED
      BY <2>1
  <1>2. ASSUME NEW m \in T PROVE m + 1 \in T
    <2> SUFFICES ASSUME m + 1 <= n PROVE \E f : f = [k \in 0 .. (m + 1) |-> F(f, k)]
      OBVIOUS
    <2>0. m \in Nat
      OBVIOUS
    <2>1. PICK g : g = [k \in 0 .. m |-> F(g, k)]
      BY <1>0, <2>0
    <2> DEFINE f == [k \in 0 .. (m + 1) |-> IF k = m + 1 THEN F(g, m + 1) ELSE g[k]]
    <2>2. ASSUME NEW k \in 0 .. (m + 1) PROVE f[k] = F(f, k)
      <3>1. CASE k = m + 1
        <4>1. k - 1 \in 0 .. (m + 1) /\ k - 1 # m + 1 /\ k # 0 /\ k - 1 = m
          BY <2>0, <3>1
        <4>2. f[k - 1] = g[k - 1] /\ f[k] = F(g, k)
          BY <3>1, <4>1
        <4> HIDE DEF f
        <4> QED
          BY <4>1, <4>2
      <3>2. CASE k = 0
        <4>1. 0 \in 0 .. m /\ 0 # m + 1 /\ 0 \in 0 .. (m + 1)
          BY <2>0
        <4>2. f[0] = g[0] /\ g[0] = c
          BY <2>1, <4>1
        <4> HIDE DEF f
        <4> QED
          BY <3>2, <4>2
      <3>3. CASE k # m + 1 /\ k # 0
        <4>1. k \in 0 .. m /\ k - 1 \in 0 .. (m + 1) /\ k - 1 # m + 1
          BY <2>0, <3>3
        <4>2. f[k] = g[k] /\ f[k - 1] = g[k - 1]
          BY <3>3, <4>1
        <4>3. g[k] = F(g, k)
          BY <2>1, <4>1
        <4> HIDE DEF f
        <4> QED
          BY <3>3, <4>2, <4>3
      <3> QED
        BY <3>1, <3>2, <3>3
    <2>3. f = [k \in 0 .. (m + 1) |-> f[k]]
      OBVIOUS
    <2> HIDE DEF f, F
    <2>4. f = [k \in 0 .. (m + 1) |-> F(f, k)]
      BY <2>2, <2>3
    <2> QED
      BY <2>4
  <1>3. T = Nat
    <2>1. T \in SUBSET Nat
      OBVIOUS
    <2> HIDE DEF T
    <2> QED
      BY <1>1, <1>2, <2>1, NatSet
  <1>4. \E f : f = [k \in 0 .. n |-> F(f, k)]
    <2>1. n \in T /\ n <= n
      BY <1>0, <1>3
    <2> HIDE DEF F
    <2> QED
      BY <2>1
  <1>5. G = [k \in 0 .. n |-> F(G, k)]
    <2> HIDE DEF F
    <2> QED
      BY <1>4
  <1>6. Pour(c, s) = G[n]
    BY DEF Pour, n
  <1> HIDE DEF G
  <1>7. G[0] = c
    BY <1>0, <1>5
  <1>8. ASSUME NEW k \in 1 .. n PROVE G[k] = enq(G[k - 1], s[k])
    <2>1. k \in 0 .. n /\ k # 0
      BY <1>0
    <2>2. G[k] = F(G, k)
      <3> HIDE DEF F
      <3> QED
        BY <1>5, <2>1
    <2> QED
      BY <2>1, <2>2
  <1> QED
    BY <1>6, <1>7, <1>8 DEF n

\* The calendar d is c and the first k members of s.
Filled(c, d, s, k) ==
  /\ Coherent(d) /\ SameFrame(c, d) /\ d.qsize = c.qsize + k
  /\ \A X : CountIn(d, X) = CountIn(c, X) + Hits(s, k, X)

LEMMA FilledMore ==
  ASSUME NEW c, Coherent(c), NEW s, NEW k \in Nat, NEW d, Filled(c, d, s, k), NEW e, Added(d, e, s[k + 1])
  PROVE  Filled(c, e, s, k + 1)
  <1>1. IsCalendar(c)
    BY DEF Coherent
  <1>2. c.qsize \in Nat /\ \A X : CountIn(c, X) \in Nat
    BY <1>1, CalendarIs, HasEvent
  <1>3. e.qsize = c.qsize + (k + 1)
    BY <1>2 DEF Filled, Added
  <1>4. ASSUME NEW X PROVE CountIn(e, X) = CountIn(c, X) + Hits(s, k + 1, X)
    <2>1. CountIn(e, X) = CountIn(d, X) + (IF s[k + 1] \in X THEN 1 ELSE 0)
      BY DEF Added
    <2>2. CountIn(d, X) = CountIn(c, X) + Hits(s, k, X)
      BY DEF Filled
    <2>3. Hits(s, k, X) \in Nat /\ Hits(s, k + 1, X) = Hits(s, k, X) + (IF s[k + 1] \in X THEN 1 ELSE 0)
      BY HitsIs
    <2>4. CountIn(c, X) \in Nat
      BY <1>2
    <2> QED
      BY <2>1, <2>2, <2>3, <2>4
  <1> QED
    BY <1>3, <1>4 DEF Filled, Added, SameFrame

\* Putting the events of a sequence back adds each of them.
LEMMA PourIs ==
  ASSUME NEW c, Coherent(c), NEW s, Len(s) \in Nat, \A k \in 1 .. Len(s) : s[k] \in Nat
  PROVE  Filled(c, Pour(c, s), s, Len(s))
  <1>1. PICK f : /\ f[0] = c /\ \A k \in 1 .. Len(s) : f[k] = enq(f[k - 1], s[k])
                 /\ Pour(c, s) = f[Len(s)]
    BY PourExists
  <1>2. c.qsize \in Nat /\ \A X : CountIn(c, X) \in Nat
    <2>1. IsCalendar(c)
      BY DEF Coherent
    <2> QED
      BY <2>1, CalendarIs, HasEvent
  <1> DEFINE T == {k \in Nat : k <= Len(s) => Filled(c, f[k], s, k)}
  <1>3. 0 \in T
    <2>1. c.qsize = c.qsize + 0
      BY <1>2
    <2>2. ASSUME NEW X PROVE CountIn(c, X) = CountIn(c, X) + Hits(s, 0, X)
      <3>1. Hits(s, 0, X) = 0 /\ CountIn(c, X) \in Nat
        BY <1>2, HitsIs
      <3> QED
        BY <3>1
    <2> QED
      BY <1>1, <2>1, <2>2 DEF Filled, SameFrame
  <1>4. ASSUME NEW k \in T PROVE k + 1 \in T
    <2> SUFFICES ASSUME k + 1 <= Len(s) PROVE Filled(c, f[k + 1], s, k + 1)
      OBVIOUS
    <2>1. k \in Nat /\ Filled(c, f[k], s, k)
      OBVIOUS
    <2>2. k + 1 \in 1 .. Len(s) /\ (k + 1) - 1 = k
      BY <2>1
    <2>3. f[k + 1] = enq(f[k], s[k + 1]) /\ s[k + 1] \in Nat
      BY <1>1, <2>2
    <2>4. Added(f[k], f[k + 1], s[k + 1])
      BY <2>1, <2>3, EnqIs DEF Filled
    <2> QED
      BY <2>1, <2>4, FilledMore
  <1>5. T = Nat
    <2>1. T \in SUBSET Nat
      OBVIOUS
    <2> HIDE DEF T
    <2> QED
      BY <1>3, <1>4, <2>1, NatSet
  <1>6. Len(s) \in T
    BY <1>5
  <1> QED
    BY <1>1, <1>6

-----------------------------------------------------------------------------
\* Sampling the width.

\* The calendar after each dequeue of new_width(), and what it makes of them.
LEMMA SampleExists ==
  ASSUME NEW c, nsamples(c) \in Nat, ~ (c.qsize < 2)
  PROVE  \E f : /\ f[0] = c /\ \A k \in 1 .. nsamples(c) : f[k] = deq(f[k - 1])
                /\ new_width(c) =
                     [width |-> SampledWidth([k \in 1 .. nsamples(c) |-> f[k].lastprio]),
                      calendar |-> [Pour(f[nsamples(c)], [k \in 1 .. nsamples(c) |-> f[k].lastprio])
                                      EXCEPT !.lastbucket = c.lastbucket, !.lastprio = c.lastprio,
                                             !.buckettop = c.buckettop]]
  <1> DEFINE n == nsamples(c)
             F(f, k) == IF k = 0 THEN c ELSE deq(f[k - 1])
             G == CHOOSE f : f = [k \in 0 .. n |-> F(f, k)]
             T == {m \in Nat : m <= n => \E f : f = [k \in 0 .. m |-> F(f, k)]}
  <1>0. n \in Nat
    OBVIOUS
  <1> HIDE DEF n
  <1>1. 0 \in T
    <2> DEFINE f == [k \in 0 .. 0 |-> c]
    <2>1. f = [k \in 0 .. 0 |-> F(f, k)]
      OBVIOUS
    <2> QED
      BY <2>1
  <1>2. ASSUME NEW m \in T PROVE m + 1 \in T
    <2> SUFFICES ASSUME m + 1 <= n PROVE \E f : f = [k \in 0 .. (m + 1) |-> F(f, k)]
      OBVIOUS
    <2>0. m \in Nat
      OBVIOUS
    <2>1. PICK g : g = [k \in 0 .. m |-> F(g, k)]
      BY <1>0, <2>0
    <2> DEFINE f == [k \in 0 .. (m + 1) |-> IF k = m + 1 THEN F(g, m + 1) ELSE g[k]]
    <2>2. ASSUME NEW k \in 0 .. (m + 1) PROVE f[k] = F(f, k)
      <3>1. CASE k = m + 1
        <4>1. k - 1 \in 0 .. (m + 1) /\ k - 1 # m + 1 /\ k # 0 /\ k - 1 = m
          BY <2>0, <3>1
        <4>2. f[k - 1] = g[k - 1] /\ f[k] = F(g, k)
          BY <3>1, <4>1
        <4> HIDE DEF f
        <4> QED
          BY <4>1, <4>2
      <3>2. CASE k = 0
        <4>1. 0 \in 0 .. m /\ 0 # m + 1 /\ 0 \in 0 .. (m + 1)
          BY <2>0
        <4>2. f[0] = g[0] /\ g[0] = c
          BY <2>1, <4>1
        <4> HIDE DEF f
        <4> QED
          BY <3>2, <4>2
      <3>3. CASE k # m + 1 /\ k # 0
        <4>1. k \in 0 .. m /\ k - 1 \in 0 .. (m + 1) /\ k - 1 # m + 1
          BY <2>0, <3>3
        <4>2. f[k] = g[k] /\ f[k - 1] = g[k - 1]
          BY <3>3, <4>1
        <4>3. g[k] = F(g, k)
          BY <2>1, <4>1
        <4> HIDE DEF f
        <4> QED
          BY <3>3, <4>2, <4>3
      <3> QED
        BY <3>1, <3>2, <3>3
    <2>3. f = [k \in 0 .. (m + 1) |-> f[k]]
      OBVIOUS
    <2> HIDE DEF f, F
    <2>4. f = [k \in 0 .. (m + 1) |-> F(f, k)]
      BY <2>2, <2>3
    <2> QED
      BY <2>4
  <1>3. T = Nat
    <2>1. T \in SUBSET Nat
      OBVIOUS
    <2> HIDE DEF T
    <2> QED
      BY <1>1, <1>2, <2>1, NatSet
  <1>4. \E f : f = [k \in 0 .. n |-> F(f, k)]
    <2>1. n \in T /\ n <= n
      BY <1>0, <1>3
    <2> HIDE DEF F
    <2> QED
      BY <2>1
  <1>5. G = [k \in 0 .. n |-> F(G, k)]
    <2> HIDE DEF F
    <2> QED
      BY <1>4
  <1>6. new_width(c) =
          [width |-> SampledWidth([k \in 1 .. n |-> G[k].lastprio]),
           calendar |-> [Pour(G[n], [k \in 1 .. n |-> G[k].lastprio])
                           EXCEPT !.lastbucket = c.lastbucket, !.lastprio = c.lastprio,
                                  !.buckettop = c.buckettop]]
    BY DEF new_width, n
  <1> HIDE DEF G
  <1>7. G[0] = c
    BY <1>0, <1>5
  <1>8. ASSUME NEW k \in 1 .. n PROVE G[k] = deq(G[k - 1])
    <2>1. k \in 0 .. n /\ k # 0
      BY <1>0
    <2>2. G[k] = F(G, k)
      <3> HIDE DEF F
      <3> QED
        BY <1>5, <2>1
    <2> QED
      BY <2>1, <2>2
  <1> QED
    BY <1>6, <1>7, <1>8 DEF n

\* How many events are sampled.
LEMMA NSamplesIs ==
  ASSUME NEW c, c.qsize \in Nat, ~ (c.qsize < 2)
  PROVE  nsamples(c) \in Nat /\ nsamples(c) <= c.qsize
  <1> DEFINE q == c.qsize
  <1>1. q \div 10 \in Nat /\ 10 * (q \div 10) <= q
    <2>1. 10 \in Nat \ {0}
      OBVIOUS
    <2> QED
      BY <2>1, DivIs
  <1>2. nsamples(c) = IF (IF q <= 5 THEN q ELSE 5 + q \div 10) > 25 THEN 25
                      ELSE (IF q <= 5 THEN q ELSE 5 + q \div 10)
    BY DEF nsamples
  <1> HIDE DEF q
  <1>3. q \in Nat /\ q \div 10 \in Nat /\ (q > 5 => 5 + q \div 10 <= q)
    BY <1>1 DEF q
  <1> QED
    BY <1>2, <1>3 DEF q

LEMMA RowIsSeq ==
  ASSUME NEW n \in Nat, NEW s \in [1 .. n -> Nat]
  PROVE  s \in Seq(Nat) /\ Len(s) = n
  <1>1. s \in Seq(Nat)
    BY SeqDef
  <1>2. Len(s) \in Nat /\ 1 .. Len(s) = 1 .. n
    BY <1>1, LenProperties
  <1> QED
    BY <1>1, <1>2

\* The width of a sample that does not fall is a fraction.
LEMMA SampledWidthIs ==
  ASSUME NEW n \in Nat, NEW s \in [1 .. n -> Nat],
         \A i \in 1 .. n - 1 : s[i] <= s[i + 1]
  PROVE  SampledWidth(s).num \in Nat /\ SampledWidth(s).den \in Nat \ {0}
  <1> DEFINE gap(i) == s[i + 1] - s[i]
             kept == {i \in 1 .. (n - 1) : gap(i) * (n - 1) < 2 * (s[n] - s[1])}
             g == [i \in kept |-> gap(i)]
  <1>1. Len(s) = n
    BY RowIsSeq
  <1>2. SampledWidth(s) = IF kept = {} THEN [num |-> 0, den |-> 1]
                          ELSE [num |-> 3 * FoldFunction(LAMBDA x, y : x + y, 0, g), den |-> Cardinality(kept)]
    BY <1>1 DEF SampledWidth
  <1>3. \A i \in 1 .. n - 1 : gap(i) \in Nat
    <2> SUFFICES ASSUME NEW i \in 1 .. n - 1 PROVE gap(i) \in Nat
      OBVIOUS
    <2>1. i \in 1 .. n /\ i + 1 \in 1 .. n /\ s[i] <= s[i + 1]
      OBVIOUS
    <2> QED
      BY <2>1
  <1>4. kept \in SUBSET (1 .. n - 1)
    OBVIOUS
  <1> HIDE DEF kept
  <1>5. g \in [kept -> Nat]
    BY <1>3, <1>4
  <1>6. IsFiniteSet(kept) /\ Cardinality(kept) \in Nat /\ (Cardinality(kept) = 0 <=> kept = {})
    <2>1. IsFiniteSet(1 .. n - 1)
      BY FS_Interval
    <2> QED
      BY <1>4, <2>1, FS_Subset, FS_CardinalityType, FS_EmptySet
  <1> HIDE DEF g
  <1>7. FoldFunction(LAMBDA x, y : x + y, 0, g) = SumOver(g)[kept]
    <2>1. DOMAIN g = kept
      BY <1>5
    <2> QED
      BY <2>1, FoldIsSum
  <1>8. SumOver(g)[kept] \in Nat
    BY <1>5, <1>6, SumNat
  <1>9. CASE kept = {}
    <2>1. SampledWidth(s) = [num |-> 0, den |-> 1]
      BY <1>2, <1>9, Zenon
    <2> QED
      BY <2>1
  <1>10. CASE kept # {}
    <2>1. SampledWidth(s) = [num |-> 3 * SumOver(g)[kept], den |-> Cardinality(kept)]
      BY <1>2, <1>7, <1>10
    <2> QED
      BY <1>6, <1>8, <1>10, <2>1
  <1> QED
    BY <1>9, <1>10

\* The calendar d is c without k smallest events, which the sample s lists.
Sampled(c, d, s, k) ==
  /\ Coherent(d) /\ SameFrame(c, d) /\ d.qsize = c.qsize - k
  /\ \A X : CountIn(c, X) = CountIn(d, X) + Hits(s, k, X)

LEMMA SampledMore ==
  ASSUME NEW c, Coherent(c), NEW s, NEW k \in Nat, NEW d, Sampled(c, d, s, k),
         NEW e, SmallestTaken(d, e), s[k + 1] = e.lastprio
  PROVE  Sampled(c, e, s, k + 1)
  <1>1. IsCalendar(c) /\ IsCalendar(e)
    BY DEF Coherent, SmallestTaken
  <1>2. c.qsize \in Nat /\ \A X : CountIn(e, X) \in Nat
    BY <1>1, CalendarIs, HasEvent
  <1>3. e.qsize = c.qsize - (k + 1)
    BY <1>2 DEF Sampled, SmallestTaken
  <1>4. ASSUME NEW X PROVE CountIn(c, X) = CountIn(e, X) + Hits(s, k + 1, X)
    <2>1. CountIn(d, X) = CountIn(e, X) + (IF s[k + 1] \in X THEN 1 ELSE 0)
      BY DEF SmallestTaken
    <2>2. CountIn(c, X) = CountIn(d, X) + Hits(s, k, X)
      BY DEF Sampled
    <2>3. Hits(s, k, X) \in Nat /\ Hits(s, k + 1, X) = Hits(s, k, X) + (IF s[k + 1] \in X THEN 1 ELSE 0)
      BY HitsIs
    <2>4. CountIn(e, X) \in Nat
      BY <1>2
    <2> QED
      BY <2>1, <2>2, <2>3, <2>4
  <1> QED
    BY <1>3, <1>4 DEF Sampled, SmallestTaken, SameFrame

\* A smallest event is followed by none that is smaller.
LEMMA NextSmallest ==
  ASSUME NEW c, Coherent(c), NEW d, SmallestTaken(c, d)
  PROVE  c.lastprio <= d.lastprio
  <1>1. IsCalendar(c) /\ Ahead(c)
    BY DEF Coherent
  <1>2. d.lastprio \in Nat /\ CountIn(c, {d.lastprio}) # 0
    BY DEF SmallestTaken
  <1> QED
    BY <1>1, <1>2, CalendarIs, AheadIs

\* What new_width() leaves: a width, and the calendar it found.
WidthTaken(c, w) ==
  /\ w.width.num \in Nat /\ w.width.den \in Nat \ {0}
  /\ Coherent(w.calendar) /\ w.calendar.nbuckets = c.nbuckets /\ w.calendar.qsize = c.qsize
  /\ \A X : CountIn(w.calendar, X) = CountIn(c, X)

\* Putting the sample back and restoring the cursor leaves the calendar coherent.
LEMMA NewWidthIs ==
  ASSUME NEW c, Coherent(c)
  PROVE  WidthTaken(c, new_width(c))
  <1>0. IsCalendar(c) /\ Ahead(c) /\ Cursor(c) /\ c.qsize \in Nat
    BY CalendarIs DEF Coherent
  <1>1. CASE c.qsize < 2
    <2>1. new_width(c) = [width |-> [num |-> 1, den |-> 1], calendar |-> c]
      BY <1>1 DEF new_width
    <2> QED
      BY <2>1 DEF WidthTaken
  <1>2. CASE ~ (c.qsize < 2)
    <2> DEFINE n == nsamples(c)
    <2>1. n \in Nat /\ n <= c.qsize
      BY <1>0, <1>2, NSamplesIs
    <2>2. PICK f : /\ f[0] = c /\ \A k \in 1 .. n : f[k] = deq(f[k - 1])
                   /\ new_width(c) =
                        [width |-> SampledWidth([k \in 1 .. n |-> f[k].lastprio]),
                         calendar |-> [Pour(f[n], [k \in 1 .. n |-> f[k].lastprio])
                                         EXCEPT !.lastbucket = c.lastbucket, !.lastprio = c.lastprio,
                                                !.buckettop = c.buckettop]]
      BY <1>2, <2>1, SampleExists
    <2> DEFINE s == [k \in 1 .. n |-> f[k].lastprio]
               p == Pour(f[n], s)
               d == [p EXCEPT !.lastbucket = c.lastbucket, !.lastprio = c.lastprio, !.buckettop = c.buckettop]
               T == {k \in Nat : k <= n => Sampled(c, f[k], s, k)}
    <2>s. \A k \in 1 .. n : s[k] = f[k].lastprio
      OBVIOUS
    <2>d. DOMAIN s = 1 .. n /\ s = [k \in 1 .. n |-> s[k]]
      OBVIOUS
    <2>w. new_width(c) = [width |-> SampledWidth(s), calendar |-> d]
      BY <2>2
    <2> HIDE DEF n, s
    <2>3. 0 \in T
      <3>1. c.qsize = c.qsize - 0
        BY <1>0
      <3>2. ASSUME NEW X PROVE CountIn(c, X) = CountIn(c, X) + Hits(s, 0, X)
        <4>1. Hits(s, 0, X) = 0 /\ CountIn(c, X) \in Nat
          BY <1>0, CalendarIs, HasEvent, HitsIs
        <4> QED
          BY <4>1
      <3> QED
        BY <2>2, <3>1, <3>2 DEF Sampled, SameFrame
    <2>4. ASSUME NEW k \in Nat, k + 1 <= n, Sampled(c, f[k], s, k)
          PROVE  SmallestTaken(f[k], f[k + 1]) /\ s[k + 1] = f[k + 1].lastprio /\ k + 1 \in 1 .. n
      <3>1. k + 1 \in 1 .. n /\ (k + 1) - 1 = k
        BY <2>1, <2>4
      <3>2. f[k + 1] = deq(f[k])
        BY <2>2, <3>1
      <3>3. Coherent(f[k]) /\ f[k].qsize # 0
        BY <1>0, <2>1, <2>4 DEF Sampled
      <3> QED
        BY <2>s, <3>1, <3>2, <3>3, DeqIs
    <2>5. ASSUME NEW k \in T PROVE k + 1 \in T
      <3> SUFFICES ASSUME k + 1 <= n PROVE Sampled(c, f[k + 1], s, k + 1)
        OBVIOUS
      <3>1. k \in Nat /\ Sampled(c, f[k], s, k)
        BY <2>1
      <3> HIDE DEF T
      <3>2. SmallestTaken(f[k], f[k + 1]) /\ s[k + 1] = f[k + 1].lastprio
        BY <2>4, <3>1
      <3> QED
        BY <3>1, <3>2, SampledMore
    <2>6. T = Nat
      <3>1. T \in SUBSET Nat
        OBVIOUS
      <3> HIDE DEF T
      <3> QED
        BY <2>3, <2>5, <3>1, NatSet
    <2>7. \A k \in 0 .. n : Sampled(c, f[k], s, k)
      BY <2>1, <2>6
    <2>8. \A k \in 1 .. n : s[k] \in Nat
      <3> SUFFICES ASSUME NEW k \in 1 .. n PROVE s[k] \in Nat
        OBVIOUS
      <3>1. IsCalendar(f[k])
        BY <2>1, <2>7 DEF Sampled, Coherent
      <3> QED
        BY <2>s, <3>1, CalendarIs
    <2>9. s \in [1 .. n -> Nat] /\ Len(s) = n
      <3>1. s \in [1 .. n -> Nat]
        BY <2>8, <2>d
      <3> QED
        BY <2>1, <3>1, RowIsSeq
    <2>10. \A k \in 1 .. n - 1 : s[k] <= s[k + 1]
      <3> SUFFICES ASSUME NEW k \in 1 .. n - 1 PROVE s[k] <= s[k + 1]
        OBVIOUS
      <3>1. k \in Nat /\ k \in 1 .. n /\ k + 1 <= n /\ k \in 0 .. n
        BY <2>1
      <3>2. Sampled(c, f[k], s, k)
        BY <2>7, <3>1
      <3>3. SmallestTaken(f[k], f[k + 1]) /\ s[k + 1] = f[k + 1].lastprio
        BY <2>4, <3>1, <3>2
      <3>4. f[k].lastprio <= f[k + 1].lastprio
        BY <3>2, <3>3, NextSmallest DEF Sampled
      <3> QED
        BY <2>s, <3>1, <3>3, <3>4
    <2>11. SampledWidth(s).num \in Nat /\ SampledWidth(s).den \in Nat \ {0}
      BY <2>1, <2>9, <2>10, SampledWidthIs
    <2>12. Sampled(c, f[n], s, n)
      BY <2>1, <2>7
    <2>13. Filled(f[n], p, s, n)
      <3>1. Coherent(f[n])
        BY <2>12 DEF Sampled
      <3> HIDE DEF p
      <3>2. Filled(f[n], Pour(f[n], s), s, Len(s))
        BY <2>1, <2>8, <2>9, <3>1, PourIs
      <3> QED
        BY <2>9, <3>2 DEF p
    <2> HIDE DEF p, T
    <2>14. \A X : CountIn(p, X) = CountIn(c, X)
      <3> SUFFICES ASSUME NEW X PROVE CountIn(p, X) = CountIn(c, X)
        OBVIOUS
      <3>1. CountIn(p, X) = CountIn(f[n], X) + Hits(s, n, X)
        BY <2>13 DEF Filled
      <3>2. CountIn(c, X) = CountIn(f[n], X) + Hits(s, n, X)
        BY <2>12 DEF Sampled
      <3> QED
        BY <3>1, <3>2
    <2>15. SameFrame(c, p) /\ Coherent(p) /\ p.qsize = c.qsize
      <3>1. SameFrame(c, p) /\ Coherent(p)
        BY <2>12, <2>13 DEF Filled, Sampled, SameFrame
      <3>2. f[n].qsize = c.qsize - n /\ p.qsize = f[n].qsize + n
        BY <2>12, <2>13 DEF Filled, Sampled
      <3> QED
        BY <1>0, <2>1, <3>1, <3>2
    <2>16. IsCalendar(p)
      BY <2>15 DEF Coherent
    <2>17. /\ d.calendar = p.calendar /\ d.nbuckets = p.nbuckets /\ d.num = p.num /\ d.den = p.den
           /\ d.qsize = p.qsize
           /\ d.lastprio = c.lastprio /\ d.lastbucket = c.lastbucket /\ d.buckettop = c.buckettop
      BY <2>16 DEF IsCalendar
    <2>18. IsCalendar(d)
      <3> DEFINE C == [calendar : [0 .. (p.nbuckets - 1) -> Seq(Nat)], nbuckets : Nat \ {0, 1},
                       num : Nat, den : Nat \ {0}, qsize : Nat, lastprio : Nat,
                       lastbucket : 0 .. (p.nbuckets - 1), buckettop : Nat]
      <3>1. p \in C
        BY <2>16 DEF IsCalendar
      <3>2. c.lastprio \in Nat /\ c.buckettop \in Nat /\ c.lastbucket \in 0 .. (p.nbuckets - 1)
        BY <1>0, <2>15, CalendarIs DEF SameFrame
      <3>3. d \in C
        BY <3>1, <3>2
      <3> QED
        BY <2>17, <3>3 DEF IsCalendar
    <2> HIDE DEF d
    <2>19. \A X : CountIn(d, X) = CountIn(p, X)
      BY <2>17, SameBuckets
    <2>20. InPlace(d)
      BY <2>15, <2>17, SameBuckets DEF Coherent
    <2>21. Exact(d)
      BY <2>15, <2>17, SameBuckets DEF Coherent, Exact
    <2>22. Ahead(d)
      <3>1. d.nbuckets \in Nat /\ d.calendar \in [0 .. (d.nbuckets - 1) -> Seq(Nat)]
        BY <2>18, CalendarIs
      <3>2. c.nbuckets \in Nat /\ c.calendar \in [0 .. (c.nbuckets - 1) -> Seq(Nat)]
        BY <1>0, CalendarIs
      <3>3. \A e \in Nat : CountIn(c, {e}) # 0 => c.lastprio <= e
        BY <1>0, <3>2, AheadIs
      <3>4. \A e \in Nat : CountIn(d, {e}) # 0 => d.lastprio <= e
        BY <2>14, <2>17, <2>19, <3>3
      <3> QED
        BY <3>1, <3>4, AheadIs
    <2>23. Cursor(d)
      <3>1. d.num = c.num /\ d.den = c.den /\ d.nbuckets = c.nbuckets
        BY <2>15, <2>17 DEF SameFrame
      <3>2. \A x : Rounded(d, x) = Rounded(c, x)
        BY <3>1, SameWidth
      <3> QED
        BY <1>0, <2>17, <3>1, <3>2 DEF Cursor
    <2>24. Coherent(d)
      BY <2>18, <2>20, <2>21, <2>22, <2>23 DEF Coherent
    <2>25. d.nbuckets = c.nbuckets /\ d.qsize = c.qsize /\ \A X : CountIn(d, X) = CountIn(c, X)
      BY <2>14, <2>15, <2>17, <2>19 DEF SameFrame
    <2>26. new_width(c).width = SampledWidth(s) /\ new_width(c).calendar = d
      BY <2>w
    <2> QED
      BY <2>11, <2>24, <2>25, <2>26 DEF WidthTaken
  <1> QED
    BY <1>1, <1>2

-----------------------------------------------------------------------------
\* Moving to another number of buckets.

\* The virtual bucket of localinit() is not past the one enq() rounds to.
LEMMA TruncatedLess ==
  ASSUME NEW c, c.num \in Nat, c.den \in Nat \ {0}, NEW ts \in Nat
  PROVE  Truncated(c, ts) <= Rounded(c, ts)
  <1>1. CASE c.num = 0
    BY <1>1 DEF Truncated, Rounded
  <1>2. CASE c.num # 0
    <2> DEFINE x == ts * c.den
               q == x \div c.num
               r == Rounded(c, ts)
    <2>1. x \in Nat /\ c.num \in Nat \ {0}
      BY <1>2
    <2>2. Truncated(c, ts) = q
      BY <1>2 DEF Truncated
    <2>3. 2 * ts * c.den = 2 * x
      OBVIOUS
    <2>4. r \in Nat /\ 2 * ts * c.den + c.num < (2 * c.num) * (r + 1)
      BY <1>2, RoundedIs
    <2> HIDE DEF x
    <2>5. q \in Nat /\ c.num * q <= x
      BY <2>1, DivIs
    <2> HIDE DEF q, r
    <2>6. (2 * c.num) * q = 2 * (c.num * q) /\ c.num * q \in Nat
      BY <2>1, <2>5
    <2>7. (2 * c.num) * (r + 1) \in Nat
      BY <2>1, <2>4
    <2>8. (2 * c.num) * q < (2 * c.num) * (r + 1)
      BY <2>1, <2>3, <2>4, <2>5, <2>6, <2>7
    <2>9. 2 * c.num \in Nat /\ r + 1 \in Nat
      BY <2>1, <2>4
    <2>10. q < r + 1
      BY <2>5, <2>8, <2>9, FactorLess
    <2> QED
      BY <2>2, <2>4, <2>5, <2>10 DEF r
  <1> QED
    BY <1>1, <1>2

\* A new calendar is coherent and holds nothing.
LEMMA FreshIs ==
  ASSUME NEW nb \in Nat, 2 <= nb, NEW num \in Nat, NEW den \in Nat \ {0}, NEW start \in Nat
  PROVE  /\ Coherent(localinit(nb, num, den, start))
         /\ localinit(nb, num, den, start).nbuckets = nb
         /\ localinit(nb, num, den, start).qsize = 0
         /\ \A X : CountIn(localinit(nb, num, den, start), X) = 0
  <1> DEFINE N == 0 .. (nb - 1)
             empty == [calendar |-> [i \in N |-> <<>>], nbuckets |-> nb,
                       num |-> num, den |-> den, qsize |-> 0,
                       lastprio |-> start, lastbucket |-> 0, buckettop |-> 0]
             n == Truncated(empty, start)
             d == localinit(nb, num, den, start)
  <1>1. d = [empty EXCEPT !.lastbucket = n % nb, !.buckettop = TopOf(empty, n)]
    BY DEF localinit
  <1>2. n \in Nat
    <2>1. empty.num \in Nat /\ empty.den \in Nat \ {0}
      OBVIOUS
    <2> HIDE DEF empty
    <2> QED
      BY <2>1, RoundedIs
  <1>3. /\ d.calendar = [i \in N |-> <<>>] /\ d.nbuckets = nb /\ d.num = num /\ d.den = den /\ d.qsize = 0
        /\ d.lastprio = start /\ d.lastbucket = n % nb /\ d.buckettop = TopOf(empty, n)
    BY <1>1
  <1>4. TopOf(empty, n) \in Nat /\ (num # 0 => TopOf(empty, n) = 2 * n + 3)
    BY <1>2 DEF TopOf
  <1>5. n % nb \in N
    <2>1. nb \in Nat \ {0}
      OBVIOUS
    <2> HIDE DEF n
    <2> QED
      BY <1>2, <2>1, ModIs
  <1>6. [i \in N |-> <<>>] \in [N -> Seq(Nat)] /\ \A i \in N : d.calendar[i] = <<>>
    BY <1>3, EmptySeq
  <1>7. IsCalendar(d)
    <2> DEFINE C == [calendar : [N -> Seq(Nat)], nbuckets : Nat \ {0, 1},
                     num : Nat, den : Nat \ {0}, qsize : Nat, lastprio : Nat,
                     lastbucket : N, buckettop : Nat]
    <2>1. empty \in [calendar : [N -> Seq(Nat)], nbuckets : Nat \ {0, 1},
                     num : Nat, den : Nat \ {0}, qsize : Nat, lastprio : Nat,
                     lastbucket : Nat, buckettop : Nat]
      BY <1>6
    <2>2. d \in C
      <3> HIDE DEF n, d
      <3> QED
        BY <1>1, <1>4, <1>5, <1>6
    <2> QED
      BY <1>3, <2>2 DEF IsCalendar
  <1> HIDE DEF d
  <1>8. n <= Rounded(d, d.lastprio)
    <2>1. empty.num = d.num /\ empty.den = d.den
      BY <1>3
    <2>2. d.num \in Nat /\ d.den \in Nat \ {0} /\ d.lastprio = start
      BY <1>3
    <2>3. n = Truncated(d, start)
      BY <2>1 DEF Truncated
    <2> QED
      BY <2>2, <2>3, TruncatedLess
  <1> HIDE DEF n, empty
  <1>9. Slots(d) = {}
    <2>1. \A i \in N : DOMAIN d.calendar[i] = {}
      <3>1. DOMAIN <<>> = {}
        OBVIOUS
      <3> QED
        BY <1>6, <3>1
    <2>2. Slots(d) = UNION {{i} \X DOMAIN d.calendar[i] : i \in N}
      BY <1>3 DEF Slots
    <2> QED
      BY <2>1, <2>2
  <1>10. \A X : CountIn(d, X) = 0
    <2> SUFFICES ASSUME NEW X PROVE CountIn(d, X) = 0
      OBVIOUS
    <2>1. {p \in Slots(d) : EventAt(d, p) \in X} = {}
      BY <1>9
    <2> QED
      BY <2>1, FS_EmptySet DEF CountIn
  <1>11. InPlace(d)
    <2>1. Len(<<>>) = 0
      OBVIOUS
    <2> QED
      BY <1>3, <1>6, <2>1 DEF InPlace
  <1>12. Exact(d) /\ Ahead(d)
    BY <1>3, <1>9, FS_EmptySet DEF Exact, Ahead
  <1>13. Cursor(d)
    <2> SUFFICES ASSUME d.num # 0
                 PROVE  \E v \in 0 .. Rounded(d, d.lastprio), m \in 0 .. d.buckettop :
                          /\ v % d.nbuckets = d.lastbucket
                          /\ d.buckettop = 2 * m + 3
                          /\ m + 2 <= v + d.nbuckets
      BY DEF Cursor
    <2>1. d.buckettop = 2 * n + 3
      BY <1>3, <1>4
    <2>2. Rounded(d, d.lastprio) \in Nat
      BY <1>3, RoundedIs
    <2>3. n \in 0 .. Rounded(d, d.lastprio) /\ n \in 0 .. d.buckettop
      BY <1>2, <1>8, <2>1, <2>2
    <2> QED
      BY <1>2, <1>3, <2>1, <2>3
  <1> QED
    BY <1>3, <1>7, <1>10, <1>11, <1>12, <1>13 DEF Coherent, d

\* How many events of X are in the first n buckets.
Rest(c, n, X) == Cardinality({p \in Slots(c) : p[1] < n /\ EventAt(c, p) \in X})

LEMMA RestIs ==
  ASSUME NEW c, c.nbuckets \in Nat, c.calendar \in [0 .. (c.nbuckets - 1) -> Seq(Nat)], NEW X
  PROVE  /\ Rest(c, 0, X) = 0 /\ Rest(c, c.nbuckets, X) = CountIn(c, X)
         /\ \A n \in 0 .. (c.nbuckets - 1) :
              /\ Rest(c, n, X) \in Nat
              /\ Rest(c, n + 1, X) = Rest(c, n, X) + Hits(c.calendar[n], Len(c.calendar[n]), X)
  <1> DEFINE N == 0 .. (c.nbuckets - 1)
             R(n) == {p \in Slots(c) : p[1] < n /\ EventAt(c, p) \in X}
  <1>1. /\ \A p \in Slots(c) : /\ p = <<p[1], p[2]>> /\ p[1] \in N
                                /\ p[2] \in 1 .. Len(c.calendar[p[1]])
                                /\ EventAt(c, p) = c.calendar[p[1]][p[2]] /\ EventAt(c, p) \in Nat
        /\ \A i \in N, j \in Nat : j \in 1 .. Len(c.calendar[i]) => <<i, j>> \in Slots(c)
        /\ \A i \in N : Len(c.calendar[i]) \in Nat
        /\ IsFiniteSet(Slots(c))
    BY SlotIs
  <1>2. \A n : IsFiniteSet(R(n))
    <2> SUFFICES ASSUME NEW n PROVE IsFiniteSet(R(n))
      OBVIOUS
    <2>1. R(n) \in SUBSET Slots(c)
      OBVIOUS
    <2> HIDE DEF R
    <2> QED
      BY <1>1, <2>1, FS_Subset
  <1>3. Rest(c, 0, X) = 0
    <2>1. R(0) = {}
      BY <1>1
    <2> QED
      BY <2>1, FS_EmptySet DEF Rest
  <1>4. Rest(c, c.nbuckets, X) = CountIn(c, X)
    <2>1. R(c.nbuckets) = {p \in Slots(c) : EventAt(c, p) \in X}
      BY <1>1
    <2> QED
      BY <2>1 DEF Rest, CountIn
  <1>5. ASSUME NEW n \in N
        PROVE  /\ Rest(c, n, X) \in Nat
               /\ Rest(c, n + 1, X) = Rest(c, n, X) + Hits(c.calendar[n], Len(c.calendar[n]), X)
    <2> DEFINE s == c.calendar[n]
               H == {j \in 1 .. Len(s) : s[j] \in X}
               B == {p \in Slots(c) : p[1] = n /\ EventAt(c, p) \in X}
               f == [j \in H |-> <<n, j>>]
    <2>0. Len(s) \in Nat
      BY <1>1
    <2>1. \A j \in H : <<n, j>> \in B
      <3> SUFFICES ASSUME NEW j \in H PROVE <<n, j>> \in B
        OBVIOUS
      <3>1. j \in 1 .. Len(c.calendar[n]) /\ j \in Nat /\ c.calendar[n][j] \in X
        BY <2>0
      <3>2. <<n, j>> \in Slots(c)
        BY <1>1, <3>1
      <3> QED
        BY <3>1, <3>2 DEF EventAt
    <2>2. \A p \in B : p[2] \in H /\ p = <<n, p[2]>>
      <3> SUFFICES ASSUME NEW p \in B PROVE p[2] \in H /\ p = <<n, p[2]>>
        OBVIOUS
      <3>1. p \in Slots(c) /\ p[1] = n /\ EventAt(c, p) \in X
        OBVIOUS
      <3>2. p = <<p[1], p[2]>> /\ p[2] \in 1 .. Len(c.calendar[n]) /\ EventAt(c, p) = c.calendar[n][p[2]]
        BY <1>1, <3>1
      <3> QED
        BY <3>1, <3>2
    <2> HIDE DEF H, B
    <2>3. f \in Bijection(H, B)
      <3>1. f \in Injection(H, B)
        BY <2>1 DEF Injection, IsInjective
      <3>2. f \in Surjection(H, B)
        BY <2>1, <2>2 DEF Surjection
      <3> QED
        BY <3>1, <3>2 DEF Bijection
    <2>4. IsFiniteSet(B)
      <3>1. B \in SUBSET Slots(c)
        BY DEF B
      <3> QED
        BY <1>1, <3>1, FS_Subset
    <2>5. IsFiniteSet(H) /\ Cardinality(H) = Cardinality(B)
      <3>1. IsFiniteSet(1 .. Len(s)) /\ H \in SUBSET (1 .. Len(s))
        <4>1. 1 \in Int /\ Len(s) \in Int
          BY <2>0
        <4> QED
          BY <4>1, FS_Interval DEF H
      <3>2. IsFiniteSet(H)
        BY <3>1, FS_Subset
      <3>3. ExistsBijection(H, B)
        BY <2>3 DEF ExistsBijection
      <3> QED
        BY <3>2, <3>3, FS_Bijection
    <2>6. R(n + 1) = R(n) \cup B /\ R(n) \cap B = {}
      <3>1. \A p \in Slots(c) : (p[1] < n + 1 <=> p[1] < n \/ p[1] = n) /\ ~ (p[1] < n /\ p[1] = n)
        <4> SUFFICES ASSUME NEW p \in Slots(c)
                     PROVE  (p[1] < n + 1 <=> p[1] < n \/ p[1] = n) /\ ~ (p[1] < n /\ p[1] = n)
          OBVIOUS
        <4>1. p[1] \in Int /\ n \in Int
          BY <1>1
        <4> QED
          BY <4>1
      <3> QED
        BY <3>1 DEF B
    <2>7. Cardinality(R(n + 1)) = Cardinality(R(n)) + Cardinality(B)
      <3> DEFINE A == R(n)
                 U == R(n + 1)
      <3>0. IsFiniteSet(A) /\ U = A \cup B /\ A \cap B = {}
        BY <1>2, <2>6
      <3> HIDE DEF A, U
      <3>1. Cardinality(A) \in Nat /\ Cardinality(B) \in Nat
        BY <2>4, <3>0, FS_CardinalityType
      <3>2. Cardinality(A \cup B) = Cardinality(A) + Cardinality(B) - Cardinality(A \cap B)
        BY <2>4, <3>0, FS_Union
      <3>3. Cardinality(A \cap B) = 0
        BY <3>0, FS_EmptySet
      <3>4. Cardinality(U) = Cardinality(A) + Cardinality(B)
        BY <3>0, <3>1, <3>2, <3>3
      <3> QED
        BY <3>4 DEF A, U
    <2>8. Cardinality(R(n)) \in Nat
      <3> HIDE DEF R
      <3> QED
        BY <1>2, FS_CardinalityType
    <2>9. Hits(c.calendar[n], Len(c.calendar[n]), X) = Cardinality(B)
      BY <2>5 DEF Hits, H
    <2> QED
      BY <2>7, <2>8, <2>9 DEF Rest
  <1> QED
    BY <1>3, <1>4, <1>5

\* The new calendar after each bucket of the old one.
LEMMA CopyExists ==
  ASSUME NEW c, NEW size, new_width(c).calendar.nbuckets \in Nat
  PROVE  LET w == new_width(c)
             old == w.calendar
             fresh == localinit(size, w.width.num, w.width.den, old.lastprio)
             n == old.nbuckets
         IN  \E f : /\ f[0] = fresh /\ \A k \in 1 .. n : f[k] = Pour(f[k - 1], old.calendar[n - k])
                    /\ resize(c, size) = f[n]
  <1> DEFINE old == new_width(c).calendar
             fresh == localinit(size, new_width(c).width.num, new_width(c).width.den, old.lastprio)
             n == old.nbuckets
             F(f, k) == IF k = 0 THEN fresh ELSE Pour(f[k - 1], old.calendar[n - k])
             G == CHOOSE f : f = [k \in 0 .. n |-> F(f, k)]
             T == {m \in Nat : m <= n => \E f : f = [k \in 0 .. m |-> F(f, k)]}
  <1>0. n \in Nat
    OBVIOUS
  <1> HIDE DEF n, old, fresh
  <1>1. 0 \in T
    <2> DEFINE f == [k \in 0 .. 0 |-> fresh]
    <2>1. f = [k \in 0 .. 0 |-> F(f, k)]
      OBVIOUS
    <2> QED
      BY <2>1
  <1>2. ASSUME NEW m \in T PROVE m + 1 \in T
    <2> SUFFICES ASSUME m + 1 <= n PROVE \E f : f = [k \in 0 .. (m + 1) |-> F(f, k)]
      OBVIOUS
    <2>0. m \in Nat
      OBVIOUS
    <2>1. PICK g : g = [k \in 0 .. m |-> F(g, k)]
      BY <1>0, <2>0
    <2> DEFINE f == [k \in 0 .. (m + 1) |-> IF k = m + 1 THEN F(g, m + 1) ELSE g[k]]
    <2>2. ASSUME NEW k \in 0 .. (m + 1) PROVE f[k] = F(f, k)
      <3>1. CASE k = m + 1
        <4>1. k - 1 \in 0 .. (m + 1) /\ k - 1 # m + 1 /\ k # 0 /\ k - 1 = m
          BY <2>0, <3>1
        <4>2. f[k - 1] = g[k - 1] /\ f[k] = F(g, k)
          BY <3>1, <4>1
        <4> HIDE DEF f
        <4> QED
          BY <4>1, <4>2
      <3>2. CASE k = 0
        <4>1. 0 \in 0 .. m /\ 0 # m + 1 /\ 0 \in 0 .. (m + 1)
          BY <2>0
        <4>2. f[0] = g[0] /\ g[0] = fresh
          BY <2>1, <4>1
        <4> HIDE DEF f
        <4> QED
          BY <3>2, <4>2
      <3>3. CASE k # m + 1 /\ k # 0
        <4>1. k \in 0 .. m /\ k - 1 \in 0 .. (m + 1) /\ k - 1 # m + 1
          BY <2>0, <3>3
        <4>2. f[k] = g[k] /\ f[k - 1] = g[k - 1]
          BY <3>3, <4>1
        <4>3. g[k] = F(g, k)
          BY <2>1, <4>1
        <4> HIDE DEF f
        <4> QED
          BY <3>3, <4>2, <4>3
      <3> QED
        BY <3>1, <3>2, <3>3
    <2>3. f = [k \in 0 .. (m + 1) |-> f[k]]
      OBVIOUS
    <2> HIDE DEF f, F
    <2>4. f = [k \in 0 .. (m + 1) |-> F(f, k)]
      BY <2>2, <2>3
    <2> QED
      BY <2>4
  <1>3. T = Nat
    <2>1. T \in SUBSET Nat
      OBVIOUS
    <2> HIDE DEF T
    <2> QED
      BY <1>1, <1>2, <2>1, NatSet
  <1>4. \E f : f = [k \in 0 .. n |-> F(f, k)]
    <2>1. n \in T /\ n <= n
      BY <1>0, <1>3
    <2> HIDE DEF F
    <2> QED
      BY <2>1
  <1>5. G = [k \in 0 .. n |-> F(G, k)]
    <2> HIDE DEF F
    <2> QED
      BY <1>4
  <1>6. resize(c, size) = G[n]
    BY DEF resize, n, old, fresh
  <1> HIDE DEF G
  <1>7. G[0] = fresh
    BY <1>0, <1>5
  <1>8. ASSUME NEW k \in 1 .. n PROVE G[k] = Pour(G[k - 1], old.calendar[n - k])
    <2>1. k \in 0 .. n /\ k # 0
      BY <1>0
    <2>2. G[k] = F(G, k)
      <3> HIDE DEF F
      <3> QED
        BY <1>5, <2>1
    <2> QED
      BY <2>1, <2>2
  <1> QED
    BY <1>6, <1>7, <1>8 DEF n, old, fresh

\* The calendar d has another number of buckets and the events of c.
Resized(c, d, size) ==
  /\ Coherent(d) /\ d.nbuckets = size /\ d.qsize = c.qsize
  /\ \A X : CountIn(d, X) = CountIn(c, X)

\* resize() keeps every event.
LEMMA ResizeIs ==
  ASSUME NEW c, Coherent(c), NEW size \in Nat, 2 <= size
  PROVE  Resized(c, resize(c, size), size)
  <1> DEFINE w == new_width(c)
             old == w.calendar
             fresh == localinit(size, w.width.num, w.width.den, old.lastprio)
             n == old.nbuckets
             Copied(d, k) == /\ Coherent(d) /\ d.nbuckets = size
                             /\ \A X : CountIn(d, X) + Rest(old, n - k, X) = CountIn(old, X)
  <1>1. WidthTaken(c, w)
    BY NewWidthIs
  <1> HIDE DEF w
  <1>2. /\ w.width.num \in Nat /\ w.width.den \in Nat \ {0} /\ Coherent(old) /\ IsCalendar(old)
        /\ old.qsize = c.qsize /\ \A X : CountIn(old, X) = CountIn(c, X)
    BY <1>1 DEF WidthTaken, Coherent
  <1>3. /\ n \in Nat /\ old.calendar \in [0 .. (n - 1) -> Seq(Nat)] /\ old.lastprio \in Nat
        /\ old.qsize \in Nat
        /\ \A i \in 0 .. (n - 1) : /\ Len(old.calendar[i]) \in Nat
                                  /\ \A k \in 1 .. Len(old.calendar[i]) : old.calendar[i][k] \in Nat
    BY <1>2, CalendarIs
  <1>4. PICK f : /\ f[0] = fresh /\ \A k \in 1 .. n : f[k] = Pour(f[k - 1], old.calendar[n - k])
                 /\ resize(c, size) = f[n]
    BY <1>3, CopyExists DEF w
  <1> HIDE DEF old, n
  <1>5. Coherent(fresh) /\ fresh.nbuckets = size /\ \A X : CountIn(fresh, X) = 0
    BY <1>2, <1>3, FreshIs
  <1>r. ASSUME NEW X
        PROVE  /\ Rest(old, 0, X) = 0 /\ Rest(old, n, X) = CountIn(old, X) /\ CountIn(old, X) \in Nat
               /\ \A m \in 0 .. (n - 1) :
                    /\ Rest(old, m, X) \in Nat
                    /\ Rest(old, m + 1, X) = Rest(old, m, X) + Hits(old.calendar[m], Len(old.calendar[m]), X)
    BY <1>3, RestIs, HasEvent DEF n
  <1> HIDE DEF fresh
  <1> DEFINE T == {k \in Nat : k <= n => Copied(f[k], k)}
  <1>6. 0 \in T
    <2>1. n - 0 = n
      BY <1>3
    <2>2. ASSUME NEW X PROVE CountIn(fresh, X) + Rest(old, n - 0, X) = CountIn(old, X)
      BY <1>5, <1>r, <2>1
    <2> QED
      BY <1>4, <1>5, <2>2
  <1>7. ASSUME NEW k \in Nat, k + 1 <= n, Copied(f[k], k) PROVE Copied(f[k + 1], k + 1)
    <2> DEFINE m == n - (k + 1)
               s == old.calendar[m]
    <2>1. k + 1 \in 1 .. n /\ (k + 1) - 1 = k /\ m \in 0 .. (n - 1) /\ m + 1 = n - k
      BY <1>3, <1>7
    <2> HIDE DEF m
    <2>2. f[k + 1] = Pour(f[k], s)
      BY <1>4, <2>1 DEF m
    <2>3. Len(s) \in Nat /\ \A j \in 1 .. Len(s) : s[j] \in Nat
      BY <1>3, <2>1
    <2> HIDE DEF s
    <2>4. Filled(f[k], f[k + 1], s, Len(s))
      BY <1>7, <2>2, <2>3, PourIs
    <2>5. Coherent(f[k + 1]) /\ f[k + 1].nbuckets = size
      BY <1>7, <2>4 DEF Filled, SameFrame
    <2>6. ASSUME NEW X PROVE CountIn(f[k + 1], X) + Rest(old, m, X) = CountIn(old, X)
      <3>1. CountIn(f[k + 1], X) = CountIn(f[k], X) + Hits(s, Len(s), X)
        BY <2>4 DEF Filled
      <3>2. CountIn(f[k], X) + Rest(old, m + 1, X) = CountIn(old, X)
        BY <1>7, <2>1
      <3>3. Rest(old, m, X) \in Nat /\ Rest(old, m + 1, X) = Rest(old, m, X) + Hits(s, Len(s), X)
        BY <1>r, <2>1 DEF s
      <3>4. CountIn(f[k], X) \in Nat /\ Hits(s, Len(s), X) \in Nat
        <4>1. IsCalendar(f[k])
          BY <1>7 DEF Coherent
        <4> QED
          BY <2>3, <4>1, CalendarIs, HasEvent, HitsIs
      <3> QED
        BY <3>1, <3>2, <3>3, <3>4
    <2> QED
      BY <2>5, <2>6 DEF m
  <1>8. ASSUME NEW k \in T PROVE k + 1 \in T
    <2>1. k \in Nat /\ (k <= n => Copied(f[k], k))
      OBVIOUS
    <2> HIDE DEF Copied
    <2>2. k + 1 <= n => k <= n
      BY <1>3, <2>1
    <2> QED
      BY <1>7, <2>1, <2>2
  <1> HIDE DEF Copied
  <1>9. T = Nat
    <2>1. T \in SUBSET Nat
      OBVIOUS
    <2> HIDE DEF T
    <2> QED
      BY <1>6, <1>8, <2>1, NatSet
  <1>10. Copied(f[n], n)
    <2>1. n \in T /\ n <= n
      BY <1>3, <1>9
    <2> QED
      BY <2>1
  <1> DEFINE d == f[n]
  <1>11. Coherent(d) /\ d.nbuckets = size /\ \A X : CountIn(d, X) + Rest(old, n - n, X) = CountIn(old, X)
    BY <1>10 DEF Copied
  <1>12. IsCalendar(d) /\ Exact(d) /\ Exact(old)
    BY <1>2, <1>11 DEF Coherent
  <1>13. ASSUME NEW X PROVE CountIn(d, X) = CountIn(old, X)
    <2>1. n - n = 0
      BY <1>3
    <2>2. CountIn(d, X) + 0 = CountIn(old, X)
      BY <1>11, <1>r, <2>1
    <2>3. CountIn(d, X) \in Nat
      BY <1>12, CalendarIs, HasEvent
    <2> QED
      BY <2>2, <2>3
  <1>14. d.qsize = old.qsize
    <2>1. CountIn(d, Nat) = Cardinality(Slots(d)) /\ CountIn(old, Nat) = Cardinality(Slots(old))
      BY <1>2, <1>12, CalendarIs, HasEvent
    <2> QED
      BY <1>12, <1>13, <2>1 DEF Exact
  <1> QED
    BY <1>2, <1>4, <1>11, <1>13, <1>14 DEF Resized

-----------------------------------------------------------------------------
\* Where a call leaves the calendar.

\* The number of buckets is a power of two that fits the number of events.
Fitting(c) ==
  /\ \E k \in 1 .. c.nbuckets : c.nbuckets = 2^k
  /\ c.nbuckets <= MAXNBUCKETS
  /\ c.nbuckets < MAXNBUCKETS => c.qsize <= top_threshold(c)
  /\ c.qsize >= bot_threshold(c)

\* Only timestamps that are put are queued.
Known(c) == \A p \in Slots(c) : EventAt(c, p) \in CalTimestamps

\* The inductive invariant: between calls the calendar is coherent, fits its
\* events, and holds what was put.
CalIndInv ==
  /\ Coherent(cal) /\ Fitting(cal) /\ Known(cal)
  /\ call \in [CalThreads -> {"idle", "put", "get", "done"}]
  /\ event \in [CalThreads -> CalTimestamps \cup {Nothing}]
  /\ \A t \in CalThreads : call[t] = "put" => event[t] \in CalTimestamps

\* Below the largest number of buckets there is room to double.
LEMMA PowerNext ==
  ASSUME NEW k \in Nat, 2^k < MAXNBUCKETS
  PROVE  2 * 2^k \in Nat /\ 2 * 2^k <= MAXNBUCKETS /\ 2 * 2^k = 2^(k + 1) /\ k + 1 <= 2^(k + 1)
  <1>1. MAXNBUCKETS \in Nat /\ \E m \in 1 .. MAXNBUCKETS : MAXNBUCKETS = 2^m
    BY CalAssumption
  <1>m. PICK m \in 1 .. MAXNBUCKETS : MAXNBUCKETS = 2^m
    BY <1>1, Zenon
  <1>2. m \in Nat /\ MAXNBUCKETS = 2^m
    <2>1. m \in Nat
      BY <1>1
    <2> QED
      BY <1>m, <2>1, Zenon
  <1>3. 2^k \in Nat /\ 2^m \in Nat /\ 2^(k + 1) = 2 * 2^k /\ 2^(m + 1) = 2 * 2^m
    BY <1>2, Doubled, Zenon
  <1>4. 2^k < 2^m
    BY <1>2, Zenon
  <1>5. ASSUME m < k PROVE FALSE
    <2>1. 2^(m + 1) <= 2^k
      BY <1>2, <1>5, PowerGrows, Zenon
    <2>2. \A p, q, r \in Nat : p < q /\ r = 2 * q /\ r <= p => FALSE
      OBVIOUS
    <2>3. 2^(m + 1) \in Nat
      <3>1. m + 1 \in Nat
        BY <1>2
      <3> QED
        BY <3>1, PowerAbove, Zenon
    <2> QED
      BY <1>3, <1>4, <2>1, <2>2, <2>3, Zenon
  <1>6. m # k
    <2>1. \A p, q \in Nat : p < q => p # q
      OBVIOUS
    <2> QED
      BY <1>3, <1>4, <2>1, Zenon
  <1>7. k < m
    BY <1>2, <1>5, <1>6
  <1>8. 2^(k + 1) <= 2^m
    BY <1>2, <1>7, PowerGrows, Zenon
  <1>9. k + 1 \in Nat
    OBVIOUS
  <1>10. 2^(k + 1) \in Nat /\ k + 1 < 2^(k + 1)
    BY <1>9, PowerAbove, Zenon
  <1>11. \A p, q \in Nat : p < q => p <= q
    OBVIOUS
  <1> QED
    BY <1>2, <1>3, <1>8, <1>9, <1>10, <1>11, Zenon

\* A power of two from four on can be halved.
LEMMA PowerHalf ==
  ASSUME NEW k \in Nat, NEW n \in Nat, n = 2^k, 4 <= n
  PROVE  /\ n \div 2 \in Nat /\ 2 <= n \div 2 /\ 2 * (n \div 2) = n
         /\ \E j \in 1 .. (n \div 2) : n \div 2 = 2^j
  <1>0. k # 0
    <2>1. 2^0 = 1
      BY SMT
    <2>2. CASE k = 0
      <3>1. n = 1
        BY <2>1, <2>2, Zenon
      <3> QED
        BY <3>1
    <2> QED
      BY <2>2
  <1>1. PICK j \in Nat : k = j + 1
    <2>1. k - 1 \in Nat /\ k = (k - 1) + 1
      BY <1>0
    <2> QED
      BY <2>1
  <1>2. 2^j \in Nat /\ n = 2 * 2^j /\ j < 2^j
    BY <1>1, Doubled, PowerAbove, Zenon
  <1>3. PICK h \in Nat : h = 2^j
    BY <1>2, Zenon
  <1>4. n = 2 * h /\ j < h
    BY <1>2, <1>3, Zenon
  <1>5. n \div 2 = h /\ 2 <= h
    BY <1>4
  <1>6. j # 0
    <2>1. 2^0 = 1
      BY SMT
    <2>2. CASE j = 0
      <3>1. h = 1
        BY <1>3, <2>1, <2>2, Zenon
      <3> QED
        BY <1>5, <3>1
    <2> QED
      BY <2>2
  <1>7. j \in 1 .. h
    BY <1>4, <1>6
  <1>8. \E i \in 1 .. h : h = 2^i
    BY <1>3, <1>7, Zenon
  <1>9. \E i \in 1 .. (n \div 2) : n \div 2 = 2^i
    BY <1>5, <1>8, Zenon
  <1> QED
    BY <1>4, <1>5, <1>9

LEMMA FittingIs ==
  ASSUME NEW c, IsCalendar(c), Fitting(c)
  PROVE  /\ c.nbuckets \in Nat /\ c.qsize \in Nat /\ MAXNBUCKETS \in Nat /\ 2 <= c.nbuckets
         /\ c.nbuckets <= MAXNBUCKETS
         /\ c.nbuckets < MAXNBUCKETS => c.qsize <= 2 * c.nbuckets
         /\ c.nbuckets \div 2 \in Nat /\ c.qsize >= (c.nbuckets \div 2) - 2
  <1>1. c.nbuckets \in Nat /\ c.qsize \in Nat /\ 2 <= c.nbuckets /\ MAXNBUCKETS \in Nat
    BY CalendarIs, CalAssumption
  <1>2. c.nbuckets \div 2 \in Nat
    BY <1>1
  <1> QED
    BY <1>1, <1>2 DEF Fitting, top_threshold, bot_threshold

\* A put adds its event, whatever it resizes.
LEMMA PutKeeps ==
  ASSUME NEW c, Coherent(c), Fitting(c), NEW ts \in Nat
  PROVE  /\ Coherent(calqueue_enq(c, ts)) /\ Fitting(calqueue_enq(c, ts))
         /\ \A X : CountIn(calqueue_enq(c, ts), X) = CountIn(c, X) + (IF ts \in X THEN 1 ELSE 0)
  <1> DEFINE d == enq(c, ts)
             r == calqueue_enq(c, ts)
             n == c.nbuckets
             grow == d.qsize > 2 * d.nbuckets /\ d.nbuckets < MAXNBUCKETS
  <1>1. Added(c, d, ts)
    BY EnqIs
  <1>2. r = IF grow THEN resize(d, 2 * d.nbuckets) ELSE d
    BY DEF calqueue_enq, top_threshold
  <1> HIDE DEF d, r
  <1>3. /\ n \in Nat /\ c.qsize \in Nat /\ MAXNBUCKETS \in Nat /\ 2 <= n /\ n <= MAXNBUCKETS
        /\ n < MAXNBUCKETS => c.qsize <= 2 * n
        /\ n \div 2 \in Nat /\ c.qsize >= (n \div 2) - 2
    BY FittingIs DEF Coherent
  <1>4. d.nbuckets = n /\ d.qsize = c.qsize + 1 /\ Coherent(d)
    BY <1>1 DEF Added, SameFrame
  <1>5. PICK k \in 1 .. n : n = 2^k
    BY DEF Fitting
  <1>6. k \in Nat
    BY <1>5
  <1>7. CASE ~ grow
    <2>1. r = d
      BY <1>2, <1>7
    <2>2. \E i \in 1 .. d.nbuckets : d.nbuckets = 2^i
      BY <1>4, <1>5, Zenon
    <2>3. /\ d.nbuckets <= MAXNBUCKETS
          /\ d.nbuckets < MAXNBUCKETS => d.qsize <= 2 * d.nbuckets
          /\ d.qsize >= (d.nbuckets \div 2) - 2
      BY <1>3, <1>4, <1>7
    <2>4. Fitting(d)
      BY <2>2, <2>3, Zenon DEF Fitting, top_threshold, bot_threshold
    <2> QED
      BY <1>1, <1>4, <2>1, <2>4 DEF Added, r
  <1>8. CASE grow
    <2>0. n < MAXNBUCKETS
      BY <1>4, <1>8
    <2>1. 2^k < MAXNBUCKETS
      BY <1>5, <2>0, Zenon
    <2>2. 2 * 2^k \in Nat /\ 2 * 2^k <= MAXNBUCKETS /\ 2 * 2^k = 2^(k + 1) /\ k + 1 <= 2^(k + 1)
      BY <1>6, <2>1, PowerNext, Zenon
    <2>3. 2 * n \in Nat /\ 2 * n <= MAXNBUCKETS /\ 2 * n = 2^(k + 1) /\ k + 1 <= 2 * n
      BY <1>5, <2>2, Zenon
    <2>4. 2 <= 2 * n
      BY <1>3
    <2>5. Resized(d, r, 2 * n)
      <3>1. r = resize(d, 2 * n)
        BY <1>2, <1>4, <1>8
      <3>2. Resized(d, resize(d, 2 * n), 2 * n)
        BY <1>4, <2>3, <2>4, ResizeIs
      <3> QED
        BY <3>1, <3>2
    <2>6. r.nbuckets = 2 * n /\ r.qsize = c.qsize + 1 /\ Coherent(r) /\ \A X : CountIn(r, X) = CountIn(d, X)
      BY <1>4, <2>5 DEF Resized
    <2>7. k + 1 \in 1 .. 2 * n
      BY <1>6, <2>3
    <2>8. \E i \in 1 .. r.nbuckets : r.nbuckets = 2^i
      BY <2>3, <2>6, <2>7, Zenon
    <2>9. /\ r.nbuckets <= MAXNBUCKETS
          /\ r.nbuckets < MAXNBUCKETS => r.qsize <= 2 * r.nbuckets
          /\ r.qsize >= (r.nbuckets \div 2) - 2
      <3>1. (2 * n) \div 2 = n
        BY <1>3
      <3>2. c.qsize + 1 > 2 * n /\ c.qsize <= 2 * n
        BY <1>3, <1>4, <1>8
      <3>3. 2 * n <= MAXNBUCKETS
        BY <2>3
      <3> HIDE DEF n
      <3>4. (2 * n) \div 2 = n /\ r.qsize >= n - 2 /\ r.qsize <= 2 * (2 * n)
        BY <1>3, <2>6, <3>1, <3>2
      <3> QED
        BY <2>6, <3>3, <3>4
    <2>10. Fitting(r)
      BY <2>8, <2>9, Zenon DEF Fitting, top_threshold, bot_threshold
    <2> QED
      BY <1>1, <2>6, <2>10 DEF Added, r
  <1> QED
    BY <1>7, <1>8

\* A get takes the smallest event, whatever it resizes.
LEMMA GetKeeps ==
  ASSUME NEW c, Coherent(c), Fitting(c), c.qsize # 0
  PROVE  /\ Coherent(calqueue_deq(c)) /\ Fitting(calqueue_deq(c))
         /\ \A X : CountIn(c, X) = CountIn(calqueue_deq(c), X) + (IF deq(c).lastprio \in X THEN 1 ELSE 0)
         /\ deq(c).lastprio \in Nat /\ CountIn(c, {deq(c).lastprio}) # 0
         /\ \A e \in Nat : CountIn(c, {e}) # 0 => deq(c).lastprio <= e
  <1> DEFINE d == deq(c)
             r == calqueue_deq(c)
             n == c.nbuckets
             h == n \div 2
             shrink == d.qsize < (d.nbuckets \div 2) - 2
  <1>1. SmallestTaken(c, d)
    BY DeqIs
  <1>2. r = IF shrink THEN resize(d, d.nbuckets \div 2) ELSE d
    BY DEF calqueue_deq, bot_threshold
  <1>s. /\ d.lastprio \in Nat /\ CountIn(c, {d.lastprio}) # 0
        /\ \A e \in Nat : CountIn(c, {e}) # 0 => d.lastprio <= e
        /\ \A X : CountIn(c, X) = CountIn(d, X) + (IF d.lastprio \in X THEN 1 ELSE 0)
    BY <1>1 DEF SmallestTaken
  <1> HIDE DEF d, r
  <1>3. /\ n \in Nat /\ c.qsize \in Nat /\ MAXNBUCKETS \in Nat /\ 2 <= n /\ n <= MAXNBUCKETS
        /\ n < MAXNBUCKETS => c.qsize <= 2 * n
        /\ h \in Nat /\ c.qsize >= h - 2
    BY FittingIs DEF Coherent
  <1>4. d.nbuckets = n /\ d.qsize = c.qsize - 1 /\ Coherent(d)
    BY <1>1 DEF SmallestTaken, SameFrame
  <1>5. PICK k \in 1 .. n : n = 2^k
    BY DEF Fitting
  <1>6. k \in Nat
    BY <1>5
  <1>7. CASE ~ shrink
    <2>1. r = d
      BY <1>2, <1>7
    <2>2. \E i \in 1 .. d.nbuckets : d.nbuckets = 2^i
      BY <1>4, <1>5, Zenon
    <2>3. /\ d.nbuckets <= MAXNBUCKETS
          /\ d.nbuckets < MAXNBUCKETS => d.qsize <= 2 * d.nbuckets
          /\ d.qsize >= (d.nbuckets \div 2) - 2
      <3>1. d.qsize \in Nat /\ d.nbuckets \div 2 \in Nat
        BY <1>3, <1>4
      <3> QED
        BY <1>3, <1>4, <1>7, <3>1
    <2>4. Fitting(d)
      BY <2>2, <2>3, Zenon DEF Fitting, top_threshold, bot_threshold
    <2> QED
      BY <1>s, <1>4, <2>1, <2>4 DEF r, d
  <1>8. CASE shrink
    <2>1. c.qsize - 1 < h - 2 /\ c.qsize - 1 \in Nat
      BY <1>3, <1>4, <1>8
    <2>2. 4 <= n
      BY <1>3, <2>1
    <2>3. /\ 2 <= h /\ 2 * h = n /\ \E j \in 1 .. h : h = 2^j
      BY <1>3, <1>5, <1>6, <2>2, PowerHalf
    <2>4. Resized(d, r, h)
      <3>1. r = resize(d, h)
        BY <1>2, <1>4, <1>8
      <3>2. Resized(d, resize(d, h), h)
        BY <1>3, <1>4, <2>3, ResizeIs
      <3> QED
        BY <3>1, <3>2
    <2>5. r.nbuckets = h /\ r.qsize = c.qsize - 1 /\ Coherent(r) /\ \A X : CountIn(r, X) = CountIn(d, X)
      BY <1>4, <2>4 DEF Resized
    <2>6. \E i \in 1 .. r.nbuckets : r.nbuckets = 2^i
      BY <2>3, <2>5, Zenon
    <2> HIDE DEF h
    <2>7. /\ r.nbuckets <= MAXNBUCKETS
          /\ r.nbuckets < MAXNBUCKETS => r.qsize <= 2 * r.nbuckets
          /\ r.qsize >= (r.nbuckets \div 2) - 2
      <3>1. h \div 2 \in Nat /\ 2 * (h \div 2) <= h
        BY <1>3
      <3>2. h <= MAXNBUCKETS /\ c.qsize - 1 <= 2 * h
        BY <1>3, <2>1, <2>3
      <3>3. c.qsize - 1 >= (h \div 2) - 2
        BY <1>3, <2>1, <2>3, <3>1
      <3> QED
        BY <2>5, <3>2, <3>3
    <2>8. Fitting(r)
      BY <2>6, <2>7, Zenon DEF Fitting, top_threshold, bot_threshold
    <2> QED
      BY <1>s, <2>5, <2>8 DEF r, d
  <1> QED
    BY <1>7, <1>8

-----------------------------------------------------------------------------
\* The calls.

\* What is known of a calendar's events is known of their timestamps.
LEMMA KnownIs ==
  ASSUME NEW c, IsCalendar(c)
  PROVE  Known(c) <=> \A e \in Nat : CountIn(c, {e}) # 0 => e \in CalTimestamps
  <1>1. c.nbuckets \in Nat /\ c.calendar \in [0 .. (c.nbuckets - 1) -> Seq(Nat)]
    BY CalendarIs
  <1>2. \A p \in Slots(c) : EventAt(c, p) \in Nat
    BY <1>1, SlotIs
  <1>3. \A e : CountIn(c, {e}) # 0 <=> \E p \in Slots(c) : EventAt(c, p) \in {e}
    BY <1>1, HasEvent
  <1> QED
    BY <1>2, <1>3 DEF Known

LEMMA CalInitInv ==
  ASSUME CalInit
  PROVE  CalIndInv
  <1>1. cal = localinit(2, 1, 1, 0)
    BY DEF CalInit
  <1>2. /\ Coherent(cal) /\ cal.nbuckets = 2 /\ cal.qsize = 0 /\ \A X : CountIn(cal, X) = 0
    BY <1>1, FreshIs
  <1>3. Known(cal)
    <2>1. IsCalendar(cal)
      BY <1>2 DEF Coherent
    <2> QED
      BY <1>2, <2>1, KnownIs
  <1>4. Fitting(cal)
    <2>1. 2^1 = 2 /\ 1 \in 1 .. 2
      <3>1. 2^1 = 2
        BY SMT
      <3> QED
        BY <3>1
    <2>2. \E k \in 1 .. cal.nbuckets : cal.nbuckets = 2^k
      BY <1>2, <2>1, Zenon
    <2>3. MAXNBUCKETS \in Nat /\ 2 <= MAXNBUCKETS
      <3>1. PICK k \in 1 .. MAXNBUCKETS : MAXNBUCKETS = 2^k
        BY CalAssumption, Zenon
      <3>2. MAXNBUCKETS \in Nat
        BY CalAssumption
      <3>3. k \in Nat /\ 1 <= k
        BY <3>2
      <3>4. k < 2^k /\ 2^k \in Nat
        BY <3>3, PowerAbove, Zenon
      <3>5. k < MAXNBUCKETS
        BY <3>1, <3>4, Zenon
      <3> QED
        BY <3>2, <3>3, <3>5
    <2>4. /\ cal.nbuckets <= MAXNBUCKETS
          /\ cal.nbuckets < MAXNBUCKETS => cal.qsize <= top_threshold(cal)
          /\ cal.qsize >= bot_threshold(cal)
      BY <1>2, <2>3 DEF top_threshold, bot_threshold
    <2> QED
      BY <2>2, <2>4, Zenon DEF Fitting
  <1>5. /\ call \in [CalThreads -> {"idle", "put", "get", "done"}]
        /\ event \in [CalThreads -> CalTimestamps \cup {Nothing}]
        /\ \A t \in CalThreads : call[t] # "put"
    BY DEF CalInit
  <1> QED
    BY <1>2, <1>3, <1>4, <1>5 DEF CalIndInv

\* The body of a put under the invariant.
LEMMA PutStep ==
  ASSUME CalIndInv, NEW t \in CalThreads, CalPut(t)
  PROVE  /\ Coherent(cal') /\ Fitting(cal') /\ Known(cal') /\ event[t] \in CalTimestamps
         /\ \A X : CountIn(cal', X) = CountIn(cal, X) + (IF event[t] \in X THEN 1 ELSE 0)
  <1> DEFINE ts == event[t]
             d == calqueue_enq(cal, ts)
  <1>1. Coherent(cal) /\ Fitting(cal) /\ Known(cal) /\ IsCalendar(cal)
    BY DEF CalIndInv, Coherent
  <1>2. cal' = d /\ ts \in CalTimestamps
    BY DEF CalIndInv, CalPut
  <1>3. ts \in Nat
    BY <1>2, CalAssumption
  <1> HIDE DEF ts
  <1>4. /\ Coherent(d) /\ Fitting(d)
        /\ \A X : CountIn(d, X) = CountIn(cal, X) + (IF ts \in X THEN 1 ELSE 0)
    BY <1>1, <1>3, PutKeeps
  <1> HIDE DEF d
  <1>5. IsCalendar(d)
    BY <1>4 DEF Coherent
  <1>6. ASSUME NEW e \in Nat, CountIn(d, {e}) # 0 PROVE e \in CalTimestamps
    <2>1. CASE e = ts
      BY <1>2, <2>1
    <2>2. CASE e # ts
      <3>1. CountIn(d, {e}) = CountIn(cal, {e}) + 0 /\ CountIn(cal, {e}) \in Nat
        BY <1>1, <1>4, <2>2, CalendarIs, HasEvent
      <3> QED
        BY <1>1, <1>6, <3>1, KnownIs
    <2> QED
      BY <2>1, <2>2
  <1>7. Known(d)
    BY <1>5, <1>6, KnownIs
  <1> QED
    BY <1>2, <1>4, <1>7 DEF ts

\* The body of a get that finds events.
LEMMA GetStep ==
  ASSUME CalIndInv, NEW t \in CalThreads, CalGet(t), cal.qsize # 0
  PROVE  /\ Coherent(cal') /\ Fitting(cal') /\ Known(cal')
         /\ deq(cal).lastprio \in CalTimestamps /\ CountIn(cal, {deq(cal).lastprio}) # 0
         /\ \A e \in CalTimestamps : CountIn(cal, {e}) # 0 => deq(cal).lastprio <= e
         /\ \A X : CountIn(cal, X) = CountIn(cal', X) + (IF deq(cal).lastprio \in X THEN 1 ELSE 0)
         /\ call' = [call EXCEPT ![t] = "done"] /\ event' = [event EXCEPT ![t] = deq(cal).lastprio]
  <1> DEFINE ts == deq(cal).lastprio
             d == calqueue_deq(cal)
  <1>1. Coherent(cal) /\ Fitting(cal) /\ Known(cal) /\ IsCalendar(cal)
    BY DEF CalIndInv, Coherent
  <1>2. cal' = d /\ call' = [call EXCEPT ![t] = "done"] /\ event' = [event EXCEPT ![t] = ts]
    BY DEF CalGet, CalBecome
  <1>3. /\ Coherent(d) /\ Fitting(d)
        /\ \A X : CountIn(cal, X) = CountIn(d, X) + (IF ts \in X THEN 1 ELSE 0)
        /\ ts \in Nat /\ CountIn(cal, {ts}) # 0
        /\ \A e \in Nat : CountIn(cal, {e}) # 0 => ts <= e
    BY <1>1, GetKeeps
  <1> HIDE DEF d, ts
  <1>4. IsCalendar(d)
    BY <1>3 DEF Coherent
  <1>5. ts \in CalTimestamps
    BY <1>1, <1>3, KnownIs
  <1>6. ASSUME NEW e \in Nat, CountIn(d, {e}) # 0 PROVE e \in CalTimestamps
    <2>1. CountIn(d, {e}) \in Nat /\ CountIn(cal, {e}) = CountIn(d, {e}) + (IF ts \in {e} THEN 1 ELSE 0)
      BY <1>3, <1>4, CalendarIs, HasEvent
    <2>2. (IF ts \in {e} THEN 1 ELSE 0) \in Nat
      OBVIOUS
    <2>3. CountIn(cal, {e}) # 0
      BY <1>6, <2>1, <2>2
    <2> QED
      BY <1>1, <2>3, KnownIs
  <1>7. Known(d)
    BY <1>4, <1>6, KnownIs
  <1>8. \A e \in CalTimestamps : CountIn(cal, {e}) # 0 => ts <= e
    BY <1>3, CalAssumption
  <1> QED
    BY <1>2, <1>3, <1>5, <1>7, <1>8 DEF ts

LEMMA CalStepInv ==
  ASSUME CalIndInv, [CalNext]_calvars
  PROVE  CalIndInv'
  <1>0. /\ call \in [CalThreads -> {"idle", "put", "get", "done"}]
        /\ event \in [CalThreads -> CalTimestamps \cup {Nothing}]
        /\ \A t \in CalThreads : call[t] = "put" => event[t] \in CalTimestamps
        /\ Coherent(cal) /\ Fitting(cal) /\ Known(cal)
    BY DEF CalIndInv
  <1>c. ASSUME NEW t \in CalThreads, NEW what \in {"idle", "put", "get", "done"},
               NEW ts \in CalTimestamps \cup {Nothing}, CalBecome(t, what, ts),
               what = "put" => ts \in CalTimestamps
        PROVE  /\ call' \in [CalThreads -> {"idle", "put", "get", "done"}]
               /\ event' \in [CalThreads -> CalTimestamps \cup {Nothing}]
               /\ \A u \in CalThreads : call'[u] = "put" => event'[u] \in CalTimestamps
    BY <1>0, <1>c DEF CalBecome
  <1>s. ASSUME cal' = cal PROVE Coherent(cal') /\ Fitting(cal') /\ Known(cal')
    BY <1>0, <1>s
  <1>1. ASSUME NEW t \in CalThreads, NEW ts \in CalTimestamps, CalPutCall(t, ts) PROVE CalIndInv'
    BY <1>1, <1>c, <1>s DEF CalPutCall, CalIndInv
  <1>2. ASSUME NEW t \in CalThreads, CalPut(t) PROVE CalIndInv'
    <2>1. Coherent(cal') /\ Fitting(cal') /\ Known(cal')
      BY <1>2, PutStep
    <2>2. CalBecome(t, "done", Nothing)
      BY <1>2 DEF CalPut
    <2> QED
      BY <1>c, <2>1, <2>2 DEF CalIndInv
  <1>3. ASSUME NEW t \in CalThreads, CalGetCall(t) PROVE CalIndInv'
    BY <1>3, <1>c, <1>s DEF CalGetCall, CalIndInv
  <1>4. ASSUME NEW t \in CalThreads, CalGet(t) PROVE CalIndInv'
    <2>1. CASE cal.qsize = 0
      BY <1>4, <1>c, <1>s, <2>1 DEF CalGet, CalIndInv
    <2>2. CASE cal.qsize # 0
      <3>1. Coherent(cal') /\ Fitting(cal') /\ Known(cal') /\ deq(cal).lastprio \in CalTimestamps
        BY <1>4, <2>2, GetStep
      <3>2. CalBecome(t, "done", deq(cal).lastprio)
        BY <1>4, <2>2 DEF CalGet
      <3> QED
        BY <1>c, <3>1, <3>2 DEF CalIndInv
    <2> QED
      BY <2>1, <2>2
  <1>5. ASSUME NEW t \in CalThreads, CalReturn(t) PROVE CalIndInv'
    BY <1>5, <1>c, <1>s DEF CalReturn, CalIndInv
  <1>6. ASSUME UNCHANGED calvars PROVE CalIndInv'
    BY <1>0, <1>6 DEF calvars, CalIndInv
  <1> QED
    BY <1>1, <1>2, <1>3, <1>4, <1>5, <1>6 DEF CalNext

\* Between calls the calendar is coherent: in particular the first due bucket on
\* the cursor's way holds a smallest event, after direct searches too.
THEOREM CalInvariance == CalSpec => []CalIndInv
  BY CalInitInv, CalStepInv, PTL DEF CalSpec

\* The types of the calendar and of the calls.
THEOREM CalTypeCorrect == CalSpec => []CalTypeOK
  <1>1. ASSUME CalIndInv PROVE CalTypeOK
    <2>1. IsCalendar(cal) /\ Fitting(cal)
      BY <1>1 DEF CalIndInv, Coherent
    <2>2. /\ cal.calendar \in [0 .. (cal.nbuckets - 1) -> Seq(Nat)]
          /\ cal.num \in Nat /\ cal.den \in Nat \ {0} /\ cal.qsize \in Nat /\ cal.lastprio \in Nat
          /\ cal.lastbucket \in 0 .. (cal.nbuckets - 1) /\ cal.buckettop \in Nat
      BY <2>1, CalendarIs
    <2>3. cal.nbuckets \in 1 .. MAXNBUCKETS
      BY <2>1, FittingIs
    <2> QED
      BY <1>1, <2>2, <2>3 DEF CalTypeOK, CalIndInv
  <1> QED
    BY <1>1, CalInvariance, PTL

\* Through insertions, removals, samplings and copies, every event is in its
\* bucket, lists are sorted, qsize is exact, no event is before the last one
\* taken, and the number of buckets fits the events.
THEOREM CalWellFormed == CalSpec => []CalShape
  <1>1. ASSUME CalIndInv PROVE CalShape
    <2>1. IsCalendar(cal) /\ InPlace(cal) /\ Exact(cal) /\ Ahead(cal) /\ Fitting(cal)
      BY <1>1 DEF CalIndInv, Coherent
    <2>2. /\ DOMAIN cal.calendar = 0 .. (cal.nbuckets - 1) /\ cal.lastprio \in Nat
          /\ cal.nbuckets \in Nat
          /\ \A i \in 0 .. (cal.nbuckets - 1) :
               /\ cal.calendar[i] \in Seq(Nat) /\ Len(cal.calendar[i]) \in Nat
               /\ DOMAIN cal.calendar[i] = 1 .. Len(cal.calendar[i])
      <3>1. cal.calendar \in [0 .. (cal.nbuckets - 1) -> Seq(Nat)]
        BY <2>1, CalendarIs
      <3> QED
        BY <2>1, <3>1, CalendarIs, LenProperties
    <2>3. ASSUME NEW i \in DOMAIN cal.calendar
          PROVE  /\ \A k \in DOMAIN cal.calendar[i] : Rounded(cal, cal.calendar[i][k]) % cal.nbuckets = i
                 /\ \A k \in 1 .. (Len(cal.calendar[i]) - 1) : cal.calendar[i][k] <= cal.calendar[i][k + 1]
      <3>1. /\ \A k \in 1 .. Len(cal.calendar[i]) : Rounded(cal, cal.calendar[i][k]) % cal.nbuckets = i
            /\ \A j, k \in 1 .. Len(cal.calendar[i]) : j <= k => cal.calendar[i][j] <= cal.calendar[i][k]
        BY <2>1, <2>2 DEF InPlace
      <3>2. ASSUME NEW k \in 1 .. (Len(cal.calendar[i]) - 1)
            PROVE  cal.calendar[i][k] <= cal.calendar[i][k + 1]
        <4>1. k \in 1 .. Len(cal.calendar[i]) /\ k + 1 \in 1 .. Len(cal.calendar[i]) /\ k <= k + 1
          BY <2>2
        <4> QED
          BY <3>1, <4>1
      <3> QED
        BY <2>2, <3>1, <3>2
    <2>4. \A p \in Slots(cal) : EventAt(cal, p) >= cal.lastprio
      <3>1. \A p \in Slots(cal) : EventAt(cal, p) \in Nat
        BY <2>1, CalendarIs, SlotIs
      <3> QED
        BY <2>1, <2>2, <3>1 DEF Ahead
    <2> QED
      BY <2>1, <2>3, <2>4 DEF CalShape, Exact, Fitting
  <1> QED
    BY <1>1, CalInvariance, PTL

-----------------------------------------------------------------------------
\* The calendar queue as a pool.

\* The counts by timestamp.
PoolIn(c) == [ts \in CalTimestamps |-> CountIn(c, {ts})]

LEMMA CalPoolPut ==
  ASSUME CalIndInv, NEW t \in CalThreads, CalPut(t)
  PROVE  CalPool!Put(t)
  <1>1. /\ event[t] \in CalTimestamps
        /\ \A X : CountIn(cal', X) = CountIn(cal, X) + (IF event[t] \in X THEN 1 ELSE 0)
    BY PutStep
  <1>2. /\ call[t] = "put" /\ call' = [call EXCEPT ![t] = "done"] /\ event' = [event EXCEPT ![t] = Nothing]
    BY DEF CalPut, CalBecome
  <1>3. \A X : CountIn(cal, X) \in Nat
    BY CalendarIs, HasEvent DEF CalIndInv, Coherent
  <1>4. ASSUME NEW ts \in CalTimestamps
        PROVE  CountIn(cal', {ts}) = IF ts = event[t] THEN CountIn(cal, {ts}) + 1 ELSE CountIn(cal, {ts})
    <2>1. CountIn(cal', {ts}) = CountIn(cal, {ts}) + (IF event[t] \in {ts} THEN 1 ELSE 0)
      BY <1>1
    <2>2. CountIn(cal, {ts}) \in Nat
      BY <1>3
    <2> QED
      BY <2>1, <2>2
  <1>5. PoolIn(cal') = [PoolIn(cal) EXCEPT ![event[t]] = @ + 1]
    BY <1>1, <1>4 DEF PoolIn
  <1>6. PoolIn(cal)' = [PoolIn(cal) EXCEPT ![event[t]] = @ + 1]
    BY <1>5 DEF PoolIn, CountIn, Slots, EventAt
  <1> QED
    BY <1>2, <1>6 DEF CalPool!Put, CalPool!Become, PoolIn

LEMMA CalPoolGet ==
  ASSUME CalIndInv, NEW t \in CalThreads, CalGet(t)
  PROVE  CalPool!Get(t)
  <1> DEFINE p == PoolIn(cal)
             q == PoolIn(cal)'
  <1>0. IsCalendar(cal) /\ Exact(cal) /\ call[t] = "get"
    BY DEF CalIndInv, Coherent, CalGet
  <1>1. \A X : CountIn(cal, X) \in Nat
    BY <1>0, CalendarIs, HasEvent
  <1>2. \A ts \in CalTimestamps : p[ts] = CountIn(cal, {ts}) /\ p[ts] \in Nat
    BY <1>1 DEF PoolIn
  <1>3. q = PoolIn(cal')
    BY DEF PoolIn, CountIn, Slots, EventAt
  <1>4. SUFFICES \/ \E ts \in CalTimestamps :
                      /\ p[ts] > 0 /\ \A other \in CalTimestamps : p[other] > 0 => ts <= other
                      /\ q = [p EXCEPT ![ts] = @ - 1]
                      /\ call' = [call EXCEPT ![t] = "done"] /\ event' = [event EXCEPT ![t] = ts]
                 \/ /\ \A ts \in CalTimestamps : p[ts] = 0
                    /\ q = p
                    /\ call' = [call EXCEPT ![t] = "done"] /\ event' = [event EXCEPT ![t] = Nothing]
    BY <1>0 DEF CalPool!Get, CalPool!Smallest, CalPool!Become, PoolIn
  <1>5. CASE cal.qsize = 0
    <2>1. cal' = cal /\ call' = [call EXCEPT ![t] = "done"] /\ event' = [event EXCEPT ![t] = Nothing]
      BY <1>5 DEF CalGet, CalBecome
    <2>2. IsFiniteSet(Slots(cal))
      BY <1>0, CalendarIs, SlotIs
    <2>3. Slots(cal) = {}
      BY <1>0, <1>5, <2>2, FS_EmptySet DEF Exact
    <2>4. \A X : CountIn(cal, X) = 0
      <3> SUFFICES ASSUME NEW X PROVE CountIn(cal, X) = 0
        OBVIOUS
      <3>1. {s \in Slots(cal) : EventAt(cal, s) \in X} = {}
        BY <2>3
      <3> QED
        BY <3>1, FS_EmptySet DEF CountIn
    <2>5. \A ts \in CalTimestamps : p[ts] = 0
      BY <1>2, <2>4
    <2>6. q = p
      BY <1>3, <2>1
    <2> QED
      BY <2>1, <2>5, <2>6
  <1>6. CASE cal.qsize # 0
    <2> DEFINE ts == deq(cal).lastprio
    <2>1. /\ ts \in CalTimestamps /\ CountIn(cal, {ts}) # 0
          /\ \A e \in CalTimestamps : CountIn(cal, {e}) # 0 => ts <= e
          /\ \A X : CountIn(cal, X) = CountIn(cal', X) + (IF ts \in X THEN 1 ELSE 0)
          /\ Coherent(cal')
          /\ call' = [call EXCEPT ![t] = "done"] /\ event' = [event EXCEPT ![t] = ts]
      BY <1>6, GetStep
    <2> HIDE DEF ts
    <2>2. \A X : CountIn(cal', X) \in Nat
      BY <2>1, CalendarIs, HasEvent DEF Coherent
    <2>3. ASSUME NEW e \in CalTimestamps
          PROVE  CountIn(cal', {e}) = IF e = ts THEN CountIn(cal, {e}) - 1 ELSE CountIn(cal, {e})
      <3>1. CountIn(cal, {e}) = CountIn(cal', {e}) + (IF ts \in {e} THEN 1 ELSE 0)
        BY <2>1
      <3>2. CountIn(cal', {e}) \in Nat
        BY <2>2
      <3> QED
        BY <3>1, <3>2
    <2>4. PoolIn(cal') = [PoolIn(cal) EXCEPT ![ts] = @ - 1]
      BY <2>1, <2>3 DEF PoolIn
    <2>5. q = [p EXCEPT ![ts] = @ - 1]
      BY <1>3, <2>4
    <2> HIDE DEF p, q
    <2>6. p[ts] > 0
      BY <1>2, <2>1
    <2>7. ASSUME NEW other \in CalTimestamps, p[other] > 0 PROVE ts <= other
      <3>1. p[other] = CountIn(cal, {other}) /\ p[other] \in Nat
        BY <1>2
      <3>2. CountIn(cal, {other}) # 0
        BY <2>7, <3>1
      <3> QED
        BY <2>1, <3>2
    <2> QED
      BY <2>1, <2>5, <2>6, <2>7
  <1> QED
    BY <1>5, <1>6

\* The calendar queue is a pool that returns a smallest event: its buckets,
\* cursor, samplings and resizes never show.
THEOREM CalRefinesPool == CalSpec => CalImplementsPool
  <1>1. CalInit => CalPool!Init
    <2> SUFFICES ASSUME CalInit PROVE CalPool!Init
      OBVIOUS
    <2>1. cal = localinit(2, 1, 1, 0)
      BY DEF CalInit
    <2>2. \A X : CountIn(cal, X) = 0
      BY <2>1, FreshIs
    <2>3. PoolIn(cal) = [ts \in CalTimestamps |-> 0]
      BY <2>2 DEF PoolIn
    <2> QED
      BY <2>3 DEF CalInit, CalPool!Init, PoolIn
  <1>2. ASSUME CalIndInv, [CalNext]_calvars PROVE [CalPool!Next]_CalPool!vars
    <2>s. ASSUME cal' = cal PROVE PoolIn(cal)' = PoolIn(cal)
      BY <2>s DEF PoolIn, CountIn, Slots, EventAt
    <2>1. ASSUME NEW t \in CalThreads, NEW ts \in CalTimestamps, CalPutCall(t, ts)
          PROVE  CalPool!CallPut(t, ts)
      BY <2>1, <2>s DEF CalPutCall, CalBecome, CalPool!CallPut, CalPool!Become, PoolIn
    <2>2. ASSUME NEW t \in CalThreads, CalGetCall(t) PROVE CalPool!CallGet(t)
      BY <2>2, <2>s DEF CalGetCall, CalBecome, CalPool!CallGet, CalPool!Become, PoolIn
    <2>3. ASSUME NEW t \in CalThreads, CalReturn(t) PROVE CalPool!Return(t)
      BY <2>3, <2>s DEF CalReturn, CalBecome, CalPool!Return, CalPool!Become, PoolIn
    <2>4. ASSUME UNCHANGED calvars PROVE UNCHANGED CalPool!vars
      BY <2>4, <2>s DEF calvars, CalPool!vars, PoolIn
    <2> QED
      BY <1>2, <2>1, <2>2, <2>3, <2>4, CalPoolPut, CalPoolGet DEF CalNext, CalPool!Next
  <1> QED
    BY <1>1, <1>2, CalInvariance, PTL DEF CalSpec, CalImplementsPool, CalPool!Spec
=============================================================================
