----------------------------- MODULE ListProofs -----------------------------
(***************************************************************************)
(* Proofs about module RootsimList, for any number of threads, nodes and   *)
(* keys: the spinlock excludes, the links stay consistent under every      *)
(* operation, the list stays sorted and first in, first out where the      *)
(* program uses it, and it is a pool.                                      *)
(***************************************************************************)
EXTENDS RootsimList, NumberLemmas

\* The memory of a struct rootsim_list.
Lists ==
  [head : Items \cup {NULL}, tail : Items \cup {NULL}, size : Nat,
   next : [Items -> Items \cup {NULL}], prev : [Items -> Items \cup {NULL}]]

\* The links of l spell the sequence c of its nodes, in both directions.
Spells(l, c) ==
  /\ l.size = 0 => l.head = NULL
  /\ l.size > 0 =>
       /\ l.head = c[1] /\ l.prev[c[1]] = NULL
       /\ l.tail = c[l.size] /\ l.next[c[l.size]] = NULL
  /\ \A i \in 1 .. (l.size - 1) : l.next[c[i]] = c[i + 1] /\ l.prev[c[i + 1]] = c[i]

\* Sequences of len different nodes.
Rows(len) ==
  {c \in [1 .. len -> Items] : \A i, m \in 1 .. len : c[i] = c[m] => i = m}

\* The list l is the row c of nodes.
Laid(l, c) == l \in Lists /\ c \in Rows(l.size) /\ Spells(l, c)

-----------------------------------------------------------------------------
\* What the operations on lists do to the row of nodes.

\* Chain follows the links as far as size says.
LEMMA ChainIs ==
  ASSUME NEW l \in Lists, NEW c, Laid(l, c)
  PROVE  Chain(l) = c
  <1> DEFINE len == l.size
             F(f, i) == IF i = 1 THEN l.head ELSE IF f[i - 1] = NULL THEN NULL ELSE l.next[f[i - 1]]
             G == CHOOSE f : f = [i \in 1 .. len |-> F(f, i)]
  <1>0. len \in Nat /\ c \in [1 .. len -> Items] /\ NULL \notin Items
    BY ListAssumption DEF Laid, Rows, Lists
  <1>1. c = [i \in 1 .. len |-> F(c, i)]
    <2>1. \A i \in 1 .. len : c[i] = F(c, i)
      <3> SUFFICES ASSUME NEW i \in 1 .. len PROVE c[i] = F(c, i)
        OBVIOUS
      <3>1. CASE i = 1
        BY <1>0, <3>1 DEF Laid, Spells
      <3>2. CASE i # 1
        <4>1. i - 1 \in 1 .. (len - 1) /\ (i - 1) + 1 = i
          BY <1>0, <3>2
        <4>2. c[i - 1] \in Items /\ l.next[c[i - 1]] = c[i]
          BY <1>0, <4>1 DEF Laid, Spells
        <4> QED
          BY <1>0, <3>2, <4>2
      <3> QED
        BY <3>1, <3>2
    <2> HIDE DEF F
    <2> QED
      BY <1>0, <2>1
  <1>2. G = [i \in 1 .. len |-> F(G, i)]
    <2> HIDE DEF F
    <2> QED
      BY <1>1
  <1>3. Chain(l) = G
    BY DEF Chain
  <1> HIDE DEF G
  <1> DEFINE T == {n \in Nat : n + 1 \in 1 .. len => G[n + 1] = c[n + 1]}
  <1>5. 0 \in T
    BY <1>0, <1>1, <1>2
  <1>6. ASSUME NEW n \in T PROVE n + 1 \in T
    <2>1. n \in Nat /\ (n + 1 \in 1 .. len => G[n + 1] = c[n + 1])
      OBVIOUS
    <2>2. ASSUME n + 2 \in 1 .. len PROVE G[n + 2] = c[n + 2]
      <3>1. n + 1 \in 1 .. len /\ (n + 2) - 1 = n + 1 /\ n + 2 # 1
        BY <1>0, <2>1, <2>2
      <3>2. G[n + 2] = F(G, n + 2) /\ c[n + 2] = F(c, n + 2)
        <4> HIDE DEF F
        <4> QED
          BY <1>1, <1>2, <2>2
      <3> QED
        BY <2>1, <3>1, <3>2
    <2> QED
      <3>1. n + 1 \in Nat /\ (n + 1) + 1 = n + 2
        BY <2>1
      <3> QED
        BY <2>2, <3>1
  <1>7. T = Nat
    <2>1. T \in SUBSET Nat
      OBVIOUS
    <2> HIDE DEF T
    <2> QED
      BY <1>5, <1>6, <2>1, NatSet
  <1>8. \A i \in 1 .. len : G[i] = c[i]
    <2> SUFFICES ASSUME NEW i \in 1 .. len PROVE G[i] = c[i]
      OBVIOUS
    <2>1. PICK n \in Nat : n + 1 = i
      <3>1. i - 1 \in Nat /\ (i - 1) + 1 = i
        BY <1>0
      <3> QED
        BY <3>1
    <2>2. n \in T
      BY <1>7
    <2> QED
      BY <2>1, <2>2
  <1>9. G = [i \in 1 .. len |-> G[i]] /\ c = [i \in 1 .. len |-> c[i]]
    <2>1. c = [i \in 1 .. len |-> c[i]]
      BY <1>0
    <2> HIDE DEF F, T, len
    <2> QED
      BY <1>2, <2>1
  <1> QED
    BY <1>3, <1>8, <1>9

\* The row with x after its first k nodes.
With(c, len, k, x) ==
  [i \in 1 .. (len + 1) |-> IF i <= k THEN c[i] ELSE IF i = k + 1 THEN x ELSE c[i - 1]]

\* The row without its node k.
Without(c, len, k) == [i \in 1 .. (len - 1) |-> IF i < k THEN c[i] ELSE c[i + 1]]

\* The last n nodes of the row.
LastOf(c, len, n) == [i \in 1 .. n |-> c[(len - n) + i]]

\* A row with one more node is a row.
LEMMA RowWith ==
  ASSUME NEW len \in Nat, NEW c \in Rows(len), NEW k \in 0 .. len,
         NEW x \in Items, \A i \in 1 .. len : c[i] # x
  PROVE  /\ With(c, len, k, x) \in Rows(len + 1)
         /\ \A i \in 1 .. k : With(c, len, k, x)[i] = c[i]
         /\ With(c, len, k, x)[k + 1] = x
         /\ \A i \in (k + 1) .. len : With(c, len, k, x)[i + 1] = c[i]
  <1> DEFINE w == With(c, len, k, x)
  <1>0. c \in [1 .. len -> Items] /\ \A i, m \in 1 .. len : c[i] = c[m] => i = m
    BY DEF Rows
  <1>1. /\ \A i \in 1 .. k : w[i] = c[i] /\ i \in 1 .. len
        /\ w[k + 1] = x
        /\ \A i \in (k + 1) .. len : w[i + 1] = c[i] /\ i \in 1 .. len
    BY DEF With
  <1>2. \A i \in 1 .. (len + 1) :
          \/ i \in 1 .. k
          \/ i = k + 1
          \/ i - 1 \in (k + 1) .. len /\ (i - 1) + 1 = i
    OBVIOUS
  <1>3. w \in [1 .. (len + 1) -> Items]
    <2>1. \A i \in 1 .. (len + 1) :
            (IF i <= k THEN c[i] ELSE IF i = k + 1 THEN x ELSE c[i - 1]) \in Items
      <3> SUFFICES ASSUME NEW i \in 1 .. (len + 1)
                   PROVE  (IF i <= k THEN c[i] ELSE IF i = k + 1 THEN x ELSE c[i - 1]) \in Items
        OBVIOUS
      <3>1. i > k + 1 => i - 1 \in 1 .. len
        OBVIOUS
      <3>2. i <= k => i \in 1 .. len
        OBVIOUS
      <3> QED
        BY <1>0, <3>1, <3>2
    <2> QED
      BY <2>1 DEF With
  <1> HIDE DEF w
  <1>4. ASSUME NEW i \in 1 .. (len + 1), NEW m \in 1 .. (len + 1), w[i] = w[m], i < m
        PROVE  FALSE
    <2>1. CASE m \in 1 .. k
      BY <1>0, <1>1, <1>4, <2>1
    <2>2. CASE m = k + 1
      BY <1>1, <1>4, <2>2
    <2>3. CASE m > k + 1
      <3>1. PICK p \in (k + 1) .. len : m = p + 1
        BY <1>2, <2>3
      <3>2. w[m] = c[p] /\ p \in 1 .. len
        BY <1>1, <3>1
      <3>3. CASE i \in 1 .. k
        BY <1>0, <1>1, <1>4, <3>2, <3>3
      <3>4. CASE i = k + 1
        BY <1>1, <1>4, <3>2, <3>4
      <3>5. CASE i > k + 1
        <4>1. PICK q \in (k + 1) .. len : i = q + 1
          BY <1>2, <3>5
        <4>2. w[i] = c[q] /\ q \in 1 .. len
          BY <1>1, <4>1
        <4> QED
          BY <1>0, <1>4, <3>1, <3>2, <4>1, <4>2
      <3> QED
        BY <3>3, <3>4, <3>5
    <2> QED
      BY <2>1, <2>2, <2>3
  <1> QED
    <2>1. \A i, m \in 1 .. (len + 1) : w[i] = w[m] => i = m
      <3> SUFFICES ASSUME NEW i \in 1 .. (len + 1), NEW m \in 1 .. (len + 1), w[i] = w[m] PROVE i = m
        OBVIOUS
      <3>1. ~ (i < m) /\ ~ (m < i)
        BY <1>4
      <3> QED
        BY <3>1
    <2> QED
      BY <1>1, <1>3, <2>1 DEF Rows, w

\* A row without one of its nodes is a row.
LEMMA RowWithout ==
  ASSUME NEW len \in Nat, NEW c \in Rows(len), NEW k \in 1 .. len
  PROVE  /\ Without(c, len, k) \in Rows(len - 1)
         /\ \A i \in 1 .. (k - 1) : Without(c, len, k)[i] = c[i]
         /\ \A i \in k .. (len - 1) : Without(c, len, k)[i] = c[i + 1]
  <1> DEFINE w == Without(c, len, k)
  <1>0. c \in [1 .. len -> Items] /\ \A i, m \in 1 .. len : c[i] = c[m] => i = m
    BY DEF Rows
  <1>1. /\ \A i \in 1 .. (k - 1) : w[i] = c[i] /\ i \in 1 .. len
        /\ \A i \in k .. (len - 1) : w[i] = c[i + 1] /\ i + 1 \in 1 .. len
    BY DEF Without
  <1>2. \A i \in 1 .. (len - 1) : i \in 1 .. (k - 1) \/ i \in k .. (len - 1)
    OBVIOUS
  <1>3. DOMAIN w = 1 .. (len - 1) /\ w = [i \in DOMAIN w |-> w[i]]
    BY DEF Without
  <1> HIDE DEF w
  <1>4. w \in [1 .. (len - 1) -> Items]
    <2>1. \A i \in 1 .. (len - 1) : w[i] \in Items
      BY <1>0, <1>1, <1>2
    <2> QED
      BY <1>3, <2>1
  <1>5. ASSUME NEW i \in 1 .. (len - 1), NEW m \in 1 .. (len - 1), w[i] = w[m], i < m
        PROVE  FALSE
    <2>1. CASE m \in 1 .. (k - 1)
      BY <1>0, <1>1, <1>5, <2>1
    <2>2. CASE m \in k .. (len - 1) /\ i \in 1 .. (k - 1)
      <3>1. c[i] = c[m + 1] /\ i \in 1 .. len /\ m + 1 \in 1 .. len
        BY <1>1, <1>5, <2>2
      <3> QED
        BY <1>0, <1>5, <3>1
    <2>3. CASE m \in k .. (len - 1) /\ i \in k .. (len - 1)
      <3>1. c[i + 1] = c[m + 1] /\ i + 1 \in 1 .. len /\ m + 1 \in 1 .. len
        BY <1>1, <1>5, <2>3
      <3> QED
        BY <1>0, <1>5, <3>1
    <2> QED
      BY <1>2, <2>1, <2>2, <2>3
  <1> QED
    <2>1. \A i, m \in 1 .. (len - 1) : w[i] = w[m] => i = m
      <3> SUFFICES ASSUME NEW i \in 1 .. (len - 1), NEW m \in 1 .. (len - 1), w[i] = w[m] PROVE i = m
        OBVIOUS
      <3>1. ~ (i < m) /\ ~ (m < i)
        BY <1>5
      <3> QED
        BY <3>1
    <2> QED
      BY <1>1, <1>4, <2>1 DEF Rows, w

\* The last nodes of a row are a row.
LEMMA RowLast ==
  ASSUME NEW len \in Nat, NEW c \in Rows(len), NEW n \in 0 .. len
  PROVE  LastOf(c, len, n) \in Rows(n)
  <1>0. c \in [1 .. len -> Items] /\ \A i, m \in 1 .. len : c[i] = c[m] => i = m
    BY DEF Rows
  <1>1. \A i \in 1 .. n : (len - n) + i \in 1 .. len
    OBVIOUS
  <1>2. LastOf(c, len, n) \in [1 .. n -> Items]
    BY <1>0, <1>1 DEF LastOf
  <1>3. ASSUME NEW i \in 1 .. n, NEW m \in 1 .. n, LastOf(c, len, n)[i] = LastOf(c, len, n)[m]
        PROVE  i = m
    <2>1. c[(len - n) + i] = c[(len - n) + m]
      BY <1>3 DEF LastOf
    <2>2. (len - n) + i = (len - n) + m
      BY <1>0, <1>1, <2>1
    <2> QED
      BY <2>2
  <1> QED
    BY <1>2, <1>3 DEF Rows

-----------------------------------------------------------------------------
\* What linking and unlinking a node does to the links.

\* A record with the fields of a list.
Fields(r) ==
  r = [head |-> r.head, tail |-> r.tail, size |-> r.size, next |-> r.next, prev |-> r.prev]

LEMMA ListFields ==
  ASSUME NEW r, Fields(r), r.head \in Items \cup {NULL}, r.tail \in Items \cup {NULL},
         r.size \in Nat, r.next \in [Items -> Items \cup {NULL}],
         r.prev \in [Items -> Items \cup {NULL}]
  PROVE  r \in Lists
  <1> DEFINE h == r.head
             t == r.tail
             n == r.size
             nx == r.next
             pv == r.prev
  <1>1. r = [head |-> h, tail |-> t, size |-> n, next |-> nx, prev |-> pv]
    BY DEF Fields
  <1> HIDE DEF h, t, n, nx, pv
  <1> QED
    BY <1>1 DEF Lists, h, t, n, nx, pv

\* In r, x is between its neighbours a and b, and all else is as in l.
Joined(l, r, a, b, x) ==
  /\ r \in Lists /\ r.size = l.size + 1
  /\ r.head = (IF a = NULL THEN x ELSE l.head)
  /\ r.tail = (IF b = NULL THEN x ELSE l.tail)
  /\ r.next[x] = b /\ r.prev[x] = a
  /\ \A y \in Items \ {x} : r.next[y] = IF y = a THEN x ELSE l.next[y]
  /\ \A y \in Items \ {x} : r.prev[y] = IF y = b THEN x ELSE l.prev[y]

\* In r, the neighbours a and b of a node are linked, and all else is as in l.
\* The tail is left dangling when nothing remains.
Parted(l, r, a, b) ==
  /\ r \in Lists /\ r.size = l.size - 1
  /\ r.head = (IF a = NULL THEN b ELSE l.head)
  /\ b # NULL => r.tail = l.tail
  /\ b = NULL /\ a # NULL => r.tail = a
  /\ \A y \in Items : r.next[y] = IF y = a THEN b ELSE l.next[y]
  /\ \A y \in Items : r.prev[y] = IF y = b THEN a ELSE l.prev[y]

\* A node joined after the first k extends the row there.
LEMMA JoinedLaid ==
  ASSUME NEW l \in Lists, NEW c, Laid(l, c), NEW k \in 0 .. l.size,
         NEW x \in Items, \A i \in 1 .. l.size : c[i] # x, NEW r,
         Joined(l, r, IF k = 0 THEN NULL ELSE c[k], IF k = l.size THEN NULL ELSE c[k + 1], x)
  PROVE  Laid(r, With(c, l.size, k, x))
  <1> DEFINE len == l.size
             w == With(c, len, k, x)
             a == IF k = 0 THEN NULL ELSE c[k]
             b == IF k = len THEN NULL ELSE c[k + 1]
  <1>0. /\ len \in Nat /\ c \in Rows(len) /\ c \in [1 .. len -> Items]
        /\ \A i, m \in 1 .. len : c[i] = c[m] => i = m
        /\ NULL \notin Items
    BY ListAssumption DEF Laid, Lists, Rows
  <1>1. /\ w \in Rows(len + 1) /\ w[k + 1] = x
        /\ \A i \in 1 .. k : w[i] = c[i]
        /\ \A i \in (k + 1) .. len : w[i + 1] = c[i]
    <2>1. k \in 0 .. len /\ \A i \in 1 .. len : c[i] # x
      OBVIOUS
    <2> HIDE DEF len
    <2> QED
      BY <1>0, <2>1, RowWith
  <1>2. r.size = len + 1 /\ r \in Lists
    BY DEF Joined
  <1> HIDE DEF w
  <1>3. r.head = w[1] /\ r.prev[w[1]] = NULL
    <2>1. CASE k = 0
      BY <1>1, <2>1 DEF Joined
    <2>2. CASE k # 0
      <3>1. w[1] = c[1] /\ 1 \in 1 .. len /\ c[1] \in Items \ {x}
        BY <1>0, <1>1, <2>2
      <3>2. l.head = c[1] /\ l.prev[c[1]] = NULL
        BY <1>0, <3>1 DEF Laid, Spells
      <3>3. a # NULL /\ c[1] # b
        BY <1>0, <2>2
      <3> QED
        BY <3>1, <3>2, <3>3 DEF Joined
    <2> QED
      BY <2>1, <2>2
  <1>4. r.tail = w[len + 1] /\ r.next[w[len + 1]] = NULL
    <2>1. CASE k = len
      BY <1>1, <2>1 DEF Joined
    <2>2. CASE k # len
      <3>1. w[len + 1] = c[len] /\ len \in 1 .. len /\ c[len] \in Items \ {x}
        BY <1>0, <1>1, <2>2
      <3>2. l.tail = c[len] /\ l.next[c[len]] = NULL
        BY <1>0, <3>1 DEF Laid, Spells
      <3>3. b # NULL /\ c[len] # a
        BY <1>0, <2>2
      <3> QED
        BY <3>1, <3>2, <3>3 DEF Joined
    <2> QED
      BY <2>1, <2>2
  <1>5. ASSUME NEW i \in 1 .. len PROVE r.next[w[i]] = w[i + 1] /\ r.prev[w[i + 1]] = w[i]
    <2>1. CASE i < k
      <3>1. /\ w[i] = c[i] /\ w[i + 1] = c[i + 1] /\ i \in 1 .. (len - 1)
            /\ i + 1 \in 1 .. len /\ k \in 1 .. len
        BY <1>0, <1>1, <2>1
      <3>2. l.next[c[i]] = c[i + 1] /\ l.prev[c[i + 1]] = c[i]
        BY <3>1 DEF Laid, Spells
      <3>3. c[i] \in Items \ {x} /\ c[i + 1] \in Items \ {x} /\ c[i] # a
        BY <1>0, <2>1, <3>1
      <3>4. c[i + 1] # b
        <4>1. k # len => k + 1 \in 1 .. len /\ k + 1 # i + 1
          BY <1>0, <2>1
        <4> QED
          BY <1>0, <3>1, <4>1
      <3> QED
        BY <3>1, <3>2, <3>3, <3>4 DEF Joined
    <2>2. CASE i = k
      <3>1. w[i] = c[k] /\ w[i + 1] = x /\ k \in 1 .. len /\ a = c[k]
        BY <1>0, <1>1, <2>2
      <3>2. c[k] \in Items \ {x}
        BY <1>0, <3>1
      <3> QED
        BY <3>1, <3>2 DEF Joined
    <2>3. CASE i = k + 1
      <3>1. w[i] = x /\ w[i + 1] = c[k + 1] /\ k + 1 \in 1 .. len /\ b = c[k + 1]
        BY <1>0, <1>1, <2>3
      <3>2. c[k + 1] \in Items \ {x}
        BY <1>0, <3>1
      <3> QED
        BY <3>1, <3>2 DEF Joined
    <2>4. CASE i > k + 1
      <3>1. PICK p \in (k + 1) .. (len - 1) : i = p + 1
        <4>1. i - 1 \in (k + 1) .. (len - 1) /\ i = (i - 1) + 1
          BY <1>0, <2>4
        <4> QED
          BY <4>1
      <3>2. /\ w[i] = c[p] /\ w[i + 1] = c[p + 1] /\ p \in 1 .. (len - 1)
            /\ p \in 1 .. len /\ p + 1 \in 1 .. len
        <4>1. p \in (k + 1) .. len /\ p + 1 \in (k + 1) .. len /\ p \in 1 .. (len - 1)
          BY <1>0, <3>1
        <4> QED
          BY <1>0, <1>1, <3>1, <4>1
      <3>3. l.next[c[p]] = c[p + 1] /\ l.prev[c[p + 1]] = c[p]
        BY <3>2 DEF Laid, Spells
      <3>4. c[p] \in Items \ {x} /\ c[p + 1] \in Items \ {x}
        BY <1>0, <3>2
      <3>5. c[p] # a /\ c[p + 1] # b
        <4>1. (k # 0 => k \in 1 .. len /\ k # p) /\ (k # len => k + 1 \in 1 .. len /\ k + 1 # p + 1)
          BY <1>0, <3>1
        <4> QED
          BY <1>0, <3>2, <4>1
      <3> QED
        BY <3>2, <3>3, <3>4, <3>5 DEF Joined
    <2> QED
      BY <1>0, <2>1, <2>2, <2>3, <2>4
  <1>6. Spells(r, w)
    BY <1>0, <1>2, <1>3, <1>4, <1>5 DEF Spells
  <1> QED
    BY <1>1, <1>2, <1>6 DEF Laid, w

\* Parting a row at its node k takes that node out of it.
LEMMA PartedLaid ==
  ASSUME NEW l \in Lists, NEW c, Laid(l, c), NEW k \in 1 .. l.size, NEW r,
         Parted(l, r, IF k = 1 THEN NULL ELSE c[k - 1], IF k = l.size THEN NULL ELSE c[k + 1])
  PROVE  Laid(r, Without(c, l.size, k))
  <1> DEFINE len == l.size
             w == Without(c, len, k)
             a == IF k = 1 THEN NULL ELSE c[k - 1]
             b == IF k = len THEN NULL ELSE c[k + 1]
  <1>0. /\ len \in Nat /\ c \in Rows(len) /\ c \in [1 .. len -> Items]
        /\ \A i, m \in 1 .. len : c[i] = c[m] => i = m
        /\ NULL \notin Items /\ 1 \in 1 .. len /\ len \in 1 .. len
    BY ListAssumption DEF Laid, Lists, Rows
  <1>1. /\ w \in Rows(len - 1)
        /\ \A i \in 1 .. (k - 1) : w[i] = c[i]
        /\ \A i \in k .. (len - 1) : w[i] = c[i + 1]
    <2>1. k \in 1 .. len
      OBVIOUS
    <2> HIDE DEF len
    <2> QED
      BY <1>0, <2>1, RowWithout
  <1>2. r.size = len - 1 /\ r \in Lists
    BY DEF Parted
  <1>3. /\ l.head = c[1] /\ l.prev[c[1]] = NULL
        /\ l.tail = c[len] /\ l.next[c[len]] = NULL
        /\ \A i \in 1 .. (len - 1) : l.next[c[i]] = c[i + 1] /\ l.prev[c[i + 1]] = c[i]
    BY <1>0 DEF Laid, Spells
  <1>4. (k = 1 => a = NULL) /\ (k # 1 => a = c[k - 1] /\ k - 1 \in 1 .. len /\ a \in Items)
    BY <1>0
  <1>5. (k = len => b = NULL) /\ (k # len => b = c[k + 1] /\ k + 1 \in 1 .. len /\ b \in Items)
    BY <1>0
  <1> HIDE DEF w, a, b
  <1>6. ASSUME len - 1 = 0 PROVE r.head = NULL
    <2>1. a = NULL /\ b = NULL
      BY <1>0, <1>4, <1>5, <1>6
    <2> QED
      BY <2>1 DEF Parted, a, b
  <1>7. ASSUME len - 1 > 0 PROVE r.head = w[1] /\ r.prev[w[1]] = NULL
    <2>1. CASE k = 1
      <3>1. w[1] = c[2] /\ b = c[2] /\ a = NULL /\ c[2] \in Items
        BY <1>0, <1>1, <1>4, <1>5, <1>7, <2>1
      <3> QED
        BY <3>1 DEF Parted, a, b
    <2>2. CASE k # 1
      <3>1. w[1] = c[1] /\ c[1] \in Items
        BY <1>0, <1>1, <2>2
      <3>2. a # NULL /\ c[1] # b
        BY <1>0, <1>4, <1>5, <2>2
      <3> QED
        BY <1>3, <3>1, <3>2 DEF Parted, a, b
    <2> QED
      BY <2>1, <2>2
  <1>8. ASSUME len - 1 > 0 PROVE r.tail = w[len - 1] /\ r.next[w[len - 1]] = NULL
    <2>1. CASE k = len
      <3>1. w[len - 1] = c[len - 1] /\ a = c[len - 1] /\ b = NULL /\ a \in Items
        BY <1>0, <1>1, <1>4, <1>5, <1>8, <2>1
      <3> QED
        BY <1>0, <3>1 DEF Parted, a, b
    <2>2. CASE k # len
      <3>1. w[len - 1] = c[len] /\ c[len] \in Items
        <4>1. len - 1 \in k .. (len - 1) /\ (len - 1) + 1 = len
          BY <1>0, <1>8, <2>2
        <4> QED
          BY <1>0, <1>1, <4>1
      <3>2. b # NULL /\ c[len] # a
        BY <1>0, <1>4, <1>5, <2>2
      <3> QED
        BY <1>3, <3>1, <3>2 DEF Parted, a, b
    <2> QED
      BY <2>1, <2>2
  <1>9. ASSUME NEW i \in 1 .. (len - 2) PROVE r.next[w[i]] = w[i + 1] /\ r.prev[w[i + 1]] = w[i]
    <2>1. CASE i < k - 1
      <3>1. /\ w[i] = c[i] /\ w[i + 1] = c[i + 1] /\ i \in 1 .. (len - 1) /\ i \in 1 .. len
            /\ i + 1 \in 1 .. len
        BY <1>0, <1>1, <2>1
      <3>2. c[i] # a
        BY <1>0, <1>4, <2>1, <3>1
      <3>3. c[i + 1] # b
        BY <1>0, <1>5, <2>1, <3>1
      <3>4. /\ l.next[c[i]] = c[i + 1] /\ l.prev[c[i + 1]] = c[i]
            /\ c[i] \in Items /\ c[i + 1] \in Items
        BY <1>0, <1>3, <3>1
      <3> QED
        BY <3>1, <3>2, <3>3, <3>4 DEF Parted, a, b
    <2>2. CASE i = k - 1
      <3>1. w[i] = c[k - 1] /\ w[i + 1] = c[k + 1]
        BY <1>0, <1>1, <2>2
      <3>2. a = c[k - 1] /\ b = c[k + 1] /\ a \in Items /\ b \in Items
        BY <1>0, <1>4, <1>5, <2>2
      <3> QED
        BY <3>1, <3>2 DEF Parted, a, b
    <2>3. CASE i > k - 1
      <3>1. /\ w[i] = c[i + 1] /\ w[i + 1] = c[(i + 1) + 1] /\ i + 1 \in 1 .. (len - 1)
            /\ i + 1 \in 1 .. len /\ (i + 1) + 1 \in 1 .. len
        <4>1. /\ i \in k .. (len - 1) /\ i + 1 \in k .. (len - 1) /\ i + 1 \in 1 .. (len - 1)
              /\ i + 1 \in 1 .. len /\ (i + 1) + 1 \in 1 .. len
          BY <1>0, <2>3
        <4> QED
          BY <1>1, <4>1
      <3>2. c[i + 1] # a
        BY <1>0, <1>4, <2>3, <3>1
      <3>3. c[(i + 1) + 1] # b
        BY <1>0, <1>5, <2>3, <3>1
      <3>4. /\ l.next[c[i + 1]] = c[(i + 1) + 1] /\ l.prev[c[(i + 1) + 1]] = c[i + 1]
            /\ c[i + 1] \in Items /\ c[(i + 1) + 1] \in Items
        BY <1>0, <1>3, <3>1
      <3> QED
        BY <3>1, <3>2, <3>3, <3>4 DEF Parted, a, b
    <2> QED
      BY <1>0, <2>1, <2>2, <2>3
  <1>10. Spells(r, w)
    <2>1. (len - 1) - 1 = len - 2
      BY <1>0
    <2> QED
      BY <1>0, <1>2, <1>6, <1>7, <1>8, <1>9, <2>1 DEF Spells
  <1> QED
    BY <1>1, <1>2, <1>10 DEF Laid, w

\* __list_insert(), after the walk has passed all but k nodes.
LEMMA LinkAfterLaid ==
  ASSUME NEW l \in Lists, NEW c, Laid(l, c), NEW k \in 0 .. l.size,
         NEW x \in Items, \A i \in 1 .. l.size : c[i] # x
  PROVE  Laid(LinkAfter(l, IF k = 0 THEN NULL ELSE c[k], x), With(c, l.size, k, x))
  <1> DEFINE len == l.size
             a == IF k = 0 THEN NULL ELSE c[k]
             b == IF k = len THEN NULL ELSE c[k + 1]
             r == LinkAfter(l, a, x)
  <1>0. /\ len \in Nat /\ c \in [1 .. len -> Items]
        /\ \A i, m \in 1 .. len : c[i] = c[m] => i = m
        /\ NULL \notin Items
    BY ListAssumption DEF Laid, Lists, Rows
  <1>1. /\ len = 0 => l.head = NULL
        /\ len > 0 => l.head = c[1] /\ l.tail = c[len] /\ l.head \in Items /\ l.tail \in Items
    BY <1>0 DEF Laid, Spells
  <1>2. /\ l.next \in [Items -> Items \cup {NULL}] /\ l.prev \in [Items -> Items \cup {NULL}]
        /\ l.head \in Items \cup {NULL} /\ l.tail \in Items \cup {NULL}
    BY DEF Lists
  <1>3. CASE len = 0
    <2>1. k = 0
      BY <1>3
    <2>2. r = [l EXCEPT !.head = x, !.tail = x, !.size = @ + 1, !.next[x] = NULL, !.prev[x] = NULL]
      BY <1>3 DEF LinkAfter, LinkTail, Only
    <2> HIDE DEF r
    <2>3. /\ r.size = len + 1 /\ r.head = x /\ r.tail = x
          /\ r.next = [l.next EXCEPT ![x] = NULL] /\ r.prev = [l.prev EXCEPT ![x] = NULL]
      BY <2>2 DEF Lists
    <2>4. Fields(r)
      BY <2>2 DEF Lists, Fields
    <2>5. r \in Lists
      <3>1. r.next \in [Items -> Items \cup {NULL}] /\ r.prev \in [Items -> Items \cup {NULL}]
        BY <1>2, <2>3
      <3>2. r.head \in Items \cup {NULL} /\ r.tail \in Items \cup {NULL} /\ r.size \in Nat
        BY <1>0, <2>3
      <3> QED
        BY <2>4, <3>1, <3>2, ListFields
    <2>6. Joined(l, r, NULL, NULL, x)
      BY <1>0, <1>2, <2>3, <2>5 DEF Joined
    <2> QED
      BY <1>3, <2>1, <2>6, JoinedLaid DEF r
  <1>4. CASE len > 0 /\ k = len
    <2>1. a = l.tail /\ a \in Items /\ a # x
      BY <1>0, <1>1, <1>4
    <2>2. r = [l EXCEPT !.next = [@ EXCEPT ![x] = NULL, ![l.tail] = x],
                        !.prev[x] = l.tail, !.tail = x, !.size = @ + 1]
      BY <1>0, <1>4, <2>1 DEF LinkAfter, LinkTail
    <2> HIDE DEF r, a
    <2>3. /\ r.size = len + 1 /\ r.head = l.head /\ r.tail = x
          /\ r.next = [[l.next EXCEPT ![x] = NULL] EXCEPT ![a] = x]
          /\ r.prev = [l.prev EXCEPT ![x] = a]
      BY <2>1, <2>2 DEF Lists
    <2>4. Fields(r)
      BY <2>2 DEF Lists, Fields
    <2>5. r \in Lists
      BY <1>0, <1>2, <2>1, <2>3, <2>4, ListFields
    <2>6. Joined(l, r, a, NULL, x)
      BY <1>0, <1>2, <2>1, <2>3, <2>5 DEF Joined
    <2> QED
      BY <1>4, <2>6, JoinedLaid DEF r, a
  <1>5. CASE len > 0 /\ k = 0
    <2>1. b = l.head /\ b \in Items /\ b # x /\ a = NULL /\ a # l.tail
      BY <1>0, <1>1, <1>5
    <2>2. r = [l EXCEPT !.prev = [@ EXCEPT ![x] = NULL, ![l.head] = x],
                        !.next[x] = l.head, !.head = x, !.size = @ + 1]
      BY <1>0, <1>5, <2>1 DEF LinkAfter, LinkHead
    <2> HIDE DEF r, b
    <2>3. /\ r.size = len + 1 /\ r.head = x /\ r.tail = l.tail
          /\ r.prev = [[l.prev EXCEPT ![x] = NULL] EXCEPT ![b] = x]
          /\ r.next = [l.next EXCEPT ![x] = b]
      BY <2>1, <2>2 DEF Lists
    <2>4. Fields(r)
      BY <2>2 DEF Lists, Fields
    <2>5. r \in Lists
      BY <1>0, <1>2, <2>1, <2>3, <2>4, ListFields
    <2>6. Joined(l, r, NULL, b, x)
      BY <1>0, <1>2, <2>1, <2>3, <2>5 DEF Joined
    <2> QED
      BY <1>5, <2>1, <2>6, JoinedLaid DEF r, b
  <1>6. CASE len > 0 /\ k # 0 /\ k # len
    <2>1. /\ a = c[k] /\ b = c[k + 1] /\ k \in 1 .. (len - 1)
          /\ k \in 1 .. len /\ k + 1 \in 1 .. len
      BY <1>0, <1>6
    <2>2. /\ a \in Items /\ b \in Items /\ a # x /\ b # x /\ a # b /\ a # l.tail /\ a # NULL
          /\ l.next[a] = b
      BY <1>0, <1>1, <1>6, <2>1 DEF Laid, Spells
    <2>3. r = [l EXCEPT !.prev = [@ EXCEPT ![x] = a, ![l.next[a]] = x],
                        !.next = [@ EXCEPT ![x] = l.next[a], ![a] = x],
                        !.size = @ + 1]
      BY <1>0, <1>6, <2>2 DEF LinkAfter
    <2> HIDE DEF r, a, b
    <2>4. /\ r.size = len + 1 /\ r.head = l.head /\ r.tail = l.tail
          /\ r.prev = [[l.prev EXCEPT ![x] = a] EXCEPT ![b] = x]
          /\ r.next = [[l.next EXCEPT ![x] = b] EXCEPT ![a] = x]
      BY <2>2, <2>3 DEF Lists
    <2>5. Fields(r)
      BY <2>3 DEF Lists, Fields
    <2>6. r \in Lists
      <3>1. /\ r.prev \in [Items -> Items \cup {NULL}] /\ r.next \in [Items -> Items \cup {NULL}]
            /\ r.size \in Nat
        BY <1>0, <1>2, <2>2, <2>4
      <3> QED
        BY <1>0, <1>2, <2>4, <2>5, <3>1, ListFields
    <2>7. Joined(l, r, a, b, x)
      <3>1. r.next[x] = b /\ \A y \in Items \ {x} : r.next[y] = IF y = a THEN x ELSE l.next[y]
        BY <1>0, <1>2, <2>2, <2>4
      <3>2. r.prev[x] = a /\ \A y \in Items \ {x} : r.prev[y] = IF y = b THEN x ELSE l.prev[y]
        BY <1>0, <1>2, <2>2, <2>4
      <3> QED
        BY <1>0, <2>2, <2>4, <2>6, <3>1, <3>2 DEF Joined
    <2> QED
      BY <1>6, <2>7, JoinedLaid DEF r, a, b
  <1> QED
    BY <1>0, <1>3, <1>4, <1>5, <1>6

\* list_insert_head().
LEMMA LinkHeadLaid ==
  ASSUME NEW l \in Lists, NEW c, Laid(l, c),
         NEW x \in Items, \A i \in 1 .. l.size : c[i] # x
  PROVE  Laid(LinkHead(l, x), With(c, l.size, 0, x))
  <1>1. /\ l.size \in Nat /\ NULL \notin Items
        /\ l.size > 0 => l.tail \in Items
    BY ListAssumption DEF Laid, Lists, Rows, Spells
  <1>2. LinkHead(l, x) = LinkAfter(l, NULL, x)
    BY <1>1 DEF LinkHead, LinkAfter, LinkTail
  <1>3. 0 \in 0 .. l.size
    BY <1>1
  <1> QED
    BY <1>2, <1>3, LinkAfterLaid

\* list_insert_tail().
LEMMA LinkTailLaid ==
  ASSUME NEW l \in Lists, NEW c, Laid(l, c),
         NEW x \in Items, \A i \in 1 .. l.size : c[i] # x
  PROVE  Laid(LinkTail(l, x), With(c, l.size, l.size, x))
  <1>1. l.size \in Nat /\ (l.size > 0 => l.tail = c[l.size])
    BY DEF Laid, Lists, Spells
  <1>2. LinkTail(l, x) = LinkAfter(l, IF l.size = 0 THEN NULL ELSE c[l.size], x)
    BY <1>1 DEF LinkAfter
  <1>3. l.size \in 0 .. l.size
    BY <1>1
  <1> QED
    BY <1>2, <1>3, LinkAfterLaid

\* The unlinking of node k.
LEMMA UnlinkLaid ==
  ASSUME NEW l \in Lists, NEW c, Laid(l, c), NEW k \in 1 .. l.size
  PROVE  Laid(Unlink(l, c[k]), Without(c, l.size, k))
  <1> DEFINE len == l.size
             x == c[k]
             a == IF k = 1 THEN NULL ELSE c[k - 1]
             b == IF k = len THEN NULL ELSE c[k + 1]
             r == Unlink(l, x)
  <1>0. /\ len \in Nat /\ c \in [1 .. len -> Items]
        /\ \A i, m \in 1 .. len : c[i] = c[m] => i = m
        /\ NULL \notin Items /\ 1 \in 1 .. len /\ len \in 1 .. len
    BY ListAssumption DEF Laid, Lists, Rows
  <1>1. /\ l.head = c[1] /\ l.prev[c[1]] = NULL
        /\ l.tail = c[len] /\ l.next[c[len]] = NULL
        /\ \A i \in 1 .. (len - 1) : l.next[c[i]] = c[i + 1] /\ l.prev[c[i + 1]] = c[i]
    BY <1>0 DEF Laid, Spells
  <1>2. /\ l.next \in [Items -> Items \cup {NULL}] /\ l.prev \in [Items -> Items \cup {NULL}]
        /\ l.head \in Items \cup {NULL} /\ l.tail \in Items \cup {NULL}
    BY DEF Lists
  <1>3. l.prev[x] = a /\ (a = NULL <=> l.head = x) /\ a \in Items \cup {NULL}
    <2>1. CASE k = 1
      BY <1>1, <2>1
    <2>2. CASE k # 1
      <3>1. k - 1 \in 1 .. (len - 1) /\ (k - 1) + 1 = k /\ k - 1 \in 1 .. len
        BY <1>0, <2>2
      <3> QED
        BY <1>0, <1>1, <2>2, <3>1
    <2> QED
      BY <2>1, <2>2
  <1>4. l.next[x] = b /\ (b = NULL <=> l.tail = x) /\ b \in Items \cup {NULL}
    <2>1. CASE k = len
      BY <1>1, <2>1
    <2>2. CASE k # len
      <3>1. k \in 1 .. (len - 1) /\ k + 1 \in 1 .. len
        BY <1>0, <2>2
      <3> QED
        BY <1>0, <1>1, <2>2, <3>1
    <2> QED
      BY <2>1, <2>2
  <1>s. r = Unlink(l, x)
    OBVIOUS
  <1> HIDE DEF a, b, x, r
  <1>5. /\ r.head = IF l.head = x THEN b ELSE l.head
        /\ r.tail = IF l.tail = x THEN a ELSE l.tail
        /\ r.size = len - 1
        /\ r.prev = IF b = NULL THEN l.prev ELSE [l.prev EXCEPT ![b] = a]
        /\ r.next = IF a = NULL THEN l.next ELSE [l.next EXCEPT ![a] = b]
    BY <1>s, <1>3, <1>4 DEF Unlink, Lists
  <1>f. Fields(r)
    BY <1>s DEF Unlink, Lists, Fields
  <1>6. r \in Lists
    <2>1. len - 1 \in Nat
      BY <1>0
    <2>2. r.next \in [Items -> Items \cup {NULL}] /\ r.prev \in [Items -> Items \cup {NULL}]
      BY <1>2, <1>3, <1>4, <1>5
    <2> QED
      BY <1>2, <1>3, <1>4, <1>5, <1>f, <2>1, <2>2, ListFields
  <1>7. Parted(l, r, a, b)
    BY <1>0, <1>2, <1>3, <1>4, <1>5, <1>6 DEF Parted
  <1> QED
    BY <1>7, PartedLaid DEF r, a, b, x

\* list_pop().
LEMMA PopHeadLaid ==
  ASSUME NEW l \in Lists, NEW c, Laid(l, c), l.size > 0
  PROVE  Laid(PopHead(l), Without(c, l.size, 1))
  <1> DEFINE len == l.size
             b == IF 1 = len THEN NULL ELSE c[1 + 1]
             r == PopHead(l)
  <1>0. len \in Nat /\ c \in [1 .. len -> Items] /\ NULL \notin Items /\ 1 \in 1 .. len
    BY ListAssumption DEF Laid, Lists, Rows
  <1>1. l.head = c[1] /\ l.next[l.head] = b /\ b \in Items \cup {NULL}
    <2>1. CASE len = 1
      BY <1>0, <2>1 DEF Laid, Spells
    <2>2. CASE len # 1
      <3>1. 1 \in 1 .. (len - 1) /\ 1 + 1 \in 1 .. len
        BY <1>0, <2>2
      <3> QED
        BY <1>0, <2>2, <3>1 DEF Laid, Spells
    <2> QED
      BY <2>1, <2>2
  <1>2. /\ l.next \in [Items -> Items \cup {NULL}] /\ l.prev \in [Items -> Items \cup {NULL}]
        /\ l.head \in Items \cup {NULL} /\ l.tail \in Items \cup {NULL}
    BY DEF Lists
  <1>s. r = PopHead(l)
    OBVIOUS
  <1> HIDE DEF b, r
  <1>3. /\ r.head = b /\ r.tail = l.tail /\ r.size = len - 1 /\ r.next = l.next
        /\ r.prev = IF b = NULL THEN l.prev ELSE [l.prev EXCEPT ![b] = NULL]
    BY <1>s, <1>1 DEF PopHead, Lists
  <1>f. Fields(r)
    BY <1>s DEF PopHead, Lists, Fields
  <1>4. r \in Lists
    <2>1. len - 1 \in Nat
      BY <1>0
    <2>2. r.prev \in [Items -> Items \cup {NULL}]
      BY <1>1, <1>2, <1>3
    <2> QED
      BY <1>1, <1>2, <1>3, <1>f, <2>1, <2>2, ListFields
  <1>5. Parted(l, r, NULL, b)
    BY <1>0, <1>1, <1>2, <1>3, <1>4 DEF Parted
  <1> QED
    BY <1>0, <1>5, PartedLaid DEF r, b

\* A set of places that goes to the end is as many places as it has members.
LEMMA ToTheEnd ==
  ASSUME NEW len \in Nat, NEW S \in SUBSET (1 .. len),
         \A i \in S : \A m \in 1 .. len : i <= m => m \in S
  PROVE  /\ Cardinality(S) \in 0 .. len
         /\ S = {i \in 1 .. len : i > len - Cardinality(S)}
  <1>1. CASE S = {}
    <2>1. Cardinality(S) = 0
      BY <1>1, FS_EmptySet
    <2> QED
      BY <1>1, <2>1
  <1>2. CASE S # {}
    <2>1. PICK f \in S : \A i \in S : f <= i
      <3>1. S \in SUBSET Nat
        OBVIOUS
      <3> QED
        BY <1>2, <3>1, LeastNat
    <2>2. S = f .. len
      <3>1. f \in 1 .. len
        BY <2>1
      <3>2. \A i \in S : i \in f .. len
        BY <2>1
      <3>3. \A i \in f .. len : i \in 1 .. len /\ f <= i
        BY <3>1
      <3>4. \A i \in f .. len : i \in S
        BY <2>1, <3>3
      <3> QED
        BY <3>2, <3>4
    <2>3. Cardinality(S) = (len - f) + 1
      <3>1. f \in Int /\ len \in Int /\ f <= len
        BY <2>1
      <3> QED
        BY <2>2, <3>1, FS_Interval
    <2>4. f \in Nat /\ 1 <= f /\ f <= len
      BY <2>1
    <2>5. len - Cardinality(S) = f - 1 /\ Cardinality(S) \in 0 .. len
      BY <2>3, <2>4
    <2>6. f .. len = {i \in 1 .. len : i > f - 1}
      BY <2>4
    <2> QED
      BY <2>2, <2>5, <2>6
  <1> QED
    BY <1>1, <1>2

\* What list_trunc_before() leaves of l when it keeps the last n nodes of c.
CutTo(l, c, n) ==
  LET first == IF n = 0 THEN NULL ELSE c[l.size - n + 1]
  IN  [l EXCEPT !.head = first, !.size = n,
                !.prev = IF first = NULL THEN @ ELSE [@ EXCEPT ![first] = NULL]]

LEMMA CutToLaid ==
  ASSUME NEW l \in Lists, NEW c, Laid(l, c), NEW n \in 0 .. l.size
  PROVE  Laid(CutTo(l, c, n), LastOf(c, l.size, n))
  <1> DEFINE len == l.size
             w == LastOf(c, len, n)
             f == IF n = 0 THEN NULL ELSE c[len - n + 1]
             r == CutTo(l, c, n)
  <1>0. /\ len \in Nat /\ c \in Rows(len) /\ c \in [1 .. len -> Items] /\ NULL \notin Items
        /\ \A i, m \in 1 .. len : c[i] = c[m] => i = m
    BY ListAssumption DEF Laid, Lists, Rows
  <1>1. w \in Rows(n)
    BY <1>0, RowLast
  <1>2. \A i \in 1 .. n : w[i] = c[(len - n) + i] /\ (len - n) + i \in 1 .. len
    BY <1>0 DEF LastOf
  <1>3. f \in Items \cup {NULL} /\ (n > 0 => f = w[1] /\ f \in Items) /\ (n = 0 => f = NULL)
    <2>1. n > 0 => 1 \in 1 .. n /\ (len - n) + 1 = len - n + 1
      BY <1>0
    <2> QED
      BY <1>0, <1>2, <2>1
  <1>4. /\ l.next \in [Items -> Items \cup {NULL}] /\ l.prev \in [Items -> Items \cup {NULL}]
        /\ l.tail \in Items \cup {NULL}
    BY DEF Lists
  <1>s. r = [l EXCEPT !.head = f, !.size = n,
                      !.prev = IF f = NULL THEN @ ELSE [@ EXCEPT ![f] = NULL]]
    BY DEF CutTo
  <1> HIDE DEF f, w, r
  <1>5. /\ r.head = f /\ r.tail = l.tail /\ r.size = n /\ r.next = l.next
        /\ r.prev = IF f = NULL THEN l.prev ELSE [l.prev EXCEPT ![f] = NULL]
    BY <1>s DEF Lists
  <1>f. Fields(r)
    BY <1>s DEF Lists, Fields
  <1>6. r \in Lists
    <2>1. r.prev \in [Items -> Items \cup {NULL}] /\ n \in Nat
      BY <1>0, <1>3, <1>4, <1>5
    <2> QED
      BY <1>3, <1>4, <1>5, <1>f, <2>1, ListFields
  <1>7. Spells(r, w)
    <2>1. n > 0 => l.tail = c[len] /\ l.next[c[len]] = NULL /\ w[n] = c[len]
      BY <1>0, <1>2 DEF Laid, Spells
    <2>2. n > 0 => r.head = w[1] /\ r.prev[w[1]] = NULL
      BY <1>0, <1>3, <1>4, <1>5
    <2>3. ASSUME NEW i \in 1 .. (n - 1) PROVE r.next[w[i]] = w[i + 1] /\ r.prev[w[i + 1]] = w[i]
      <3> DEFINE p == (len - n) + i
      <3>0. n \in Nat /\ n <= len /\ i \in Nat /\ 1 <= i /\ i <= n - 1
        BY <1>0
      <3>1. /\ p \in 1 .. (len - 1) /\ p \in 1 .. len /\ p + 1 \in 1 .. len
            /\ w[i] = c[p] /\ w[i + 1] = c[p + 1]
        <4>1. i \in 1 .. n /\ i + 1 \in 1 .. n
          BY <3>0
        <4>0. len \in Nat
          BY <1>0
        <4>2. (len - n) + (i + 1) = p + 1
          <5> HIDE DEF len
          <5> QED
            BY <3>0, <4>0
        <4>3. p \in 1 .. (len - 1) /\ p \in 1 .. len /\ p + 1 \in 1 .. len
          <5> HIDE DEF len
          <5> QED
            BY <3>0, <4>0
        <4>4. w[i] = c[p]
          BY <4>1 DEF w, LastOf
        <4>5. w[i + 1] = c[p + 1]
          <5>1. w[i + 1] = c[(len - n) + (i + 1)]
            BY <4>1 DEF w, LastOf
          <5> QED
            BY <4>2, <5>1
        <4> QED
          BY <4>3, <4>4, <4>5
      <3>2. f # c[p + 1] /\ c[p + 1] \in Items
        <4>1. 1 \in 1 .. n /\ n > 0
          BY <3>0
        <4>2. f = c[(len - n) + 1] /\ (len - n) + 1 \in 1 .. len
          BY <1>2, <1>3, <4>1
        <4>3. (len - n) + 1 # p + 1
          BY <1>0, <3>0
        <4> HIDE DEF p
        <4> QED
          BY <1>0, <3>1, <4>2, <4>3
      <3> HIDE DEF p
      <3>3. l.next[c[p]] = c[p + 1] /\ l.prev[c[p + 1]] = c[p]
        BY <3>1 DEF Laid, Spells
      <3> QED
        BY <1>4, <1>5, <3>1, <3>2, <3>3
    <2> QED
      BY <1>3, <1>5, <2>1, <2>2, <2>3 DEF Spells
  <1> QED
    BY <1>1, <1>5, <1>6, <1>7 DEF Laid, r, w

\* The nodes of a row with one more node, with one less, and of its end.
LEMMA MembersWith ==
  ASSUME NEW len \in Nat, NEW c \in Rows(len), NEW k \in 0 .. len,
         NEW x \in Items, \A i \in 1 .. len : c[i] # x, NEW y \in Items
  PROVE  (\E i \in 1 .. (len + 1) : With(c, len, k, x)[i] = y)
           <=> y = x \/ \E i \in 1 .. len : c[i] = y
  <1> DEFINE w == With(c, len, k, x)
  <1>1. /\ \A i \in 1 .. k : w[i] = c[i]
        /\ w[k + 1] = x
        /\ \A i \in (k + 1) .. len : w[i + 1] = c[i]
    BY RowWith
  <1> HIDE DEF w
  <1>2. ASSUME NEW i \in 1 .. len PROVE \E m \in 1 .. (len + 1) : w[m] = c[i]
    <2>1. CASE i <= k
      BY <1>1, <2>1
    <2>2. CASE i > k
      <3>1. i + 1 \in 1 .. (len + 1) /\ w[i + 1] = c[i]
        BY <1>1, <2>2
      <3> QED
        BY <3>1
    <2> QED
      BY <2>1, <2>2
  <1>3. \E m \in 1 .. (len + 1) : w[m] = x
    <2>1. k + 1 \in 1 .. (len + 1)
      OBVIOUS
    <2> QED
      BY <1>1, <2>1
  <1>4. ASSUME NEW i \in 1 .. (len + 1) PROVE w[i] = x \/ \E m \in 1 .. len : c[m] = w[i]
    <2>1. CASE i <= k
      <3>1. i \in 1 .. k /\ i \in 1 .. len
        BY <2>1
      <3> QED
        BY <1>1, <3>1
    <2>2. CASE i = k + 1
      BY <1>1, <2>2
    <2>3. CASE i > k + 1
      <3>1. PICK m \in (k + 1) .. len : i = m + 1
        <4>1. i - 1 \in (k + 1) .. len /\ i = (i - 1) + 1
          BY <2>3
        <4> QED
          BY <4>1
      <3>2. w[i] = c[m] /\ m \in 1 .. len
        BY <1>1, <3>1
      <3> QED
        BY <3>2
    <2> QED
      BY <2>1, <2>2, <2>3
  <1> QED
    BY <1>2, <1>3, <1>4 DEF w

LEMMA MembersWithout ==
  ASSUME NEW len \in Nat, NEW c \in Rows(len), NEW k \in 1 .. len, NEW y \in Items
  PROVE  (\E i \in 1 .. (len - 1) : Without(c, len, k)[i] = y)
           <=> y # c[k] /\ \E i \in 1 .. len : c[i] = y
  <1> DEFINE w == Without(c, len, k)
  <1>0. \A i, m \in 1 .. len : c[i] = c[m] => i = m
    BY DEF Rows
  <1>1. /\ \A i \in 1 .. (k - 1) : w[i] = c[i]
        /\ \A i \in k .. (len - 1) : w[i] = c[i + 1]
    BY RowWithout
  <1> HIDE DEF w
  <1>2. ASSUME NEW i \in 1 .. len, i # k PROVE \E m \in 1 .. (len - 1) : w[m] = c[i]
    <2>1. CASE i < k
      <3>1. i \in 1 .. (len - 1) /\ i \in 1 .. (k - 1)
        BY <2>1
      <3> QED
        BY <1>1, <3>1
    <2>2. CASE i > k
      <3>1. PICK m \in k .. (len - 1) : i = m + 1
        <4>1. i - 1 \in k .. (len - 1) /\ i = (i - 1) + 1
          BY <2>2
        <4> QED
          BY <4>1
      <3>2. w[m] = c[i] /\ m \in 1 .. (len - 1)
        BY <1>1, <3>1
      <3> QED
        BY <3>2
    <2> QED
      BY <1>2, <2>1, <2>2
  <1>3. ASSUME NEW i \in 1 .. (len - 1) PROVE w[i] # c[k] /\ \E m \in 1 .. len : c[m] = w[i]
    <2>1. CASE i < k
      <3>1. i \in 1 .. len /\ i \in 1 .. (k - 1)
        BY <2>1
      <3> QED
        BY <1>0, <1>1, <2>1, <3>1
    <2>2. CASE i >= k
      <3>1. i + 1 \in 1 .. len /\ i \in k .. (len - 1) /\ i + 1 # k
        BY <2>2
      <3> QED
        BY <1>0, <1>1, <3>1
    <2> QED
      BY <2>1, <2>2
  <1> QED
    BY <1>2, <1>3 DEF w

LEMMA MembersLast ==
  ASSUME NEW len \in Nat, NEW c \in Rows(len), NEW n \in 0 .. len, NEW y \in Items
  PROVE  (\E i \in 1 .. n : LastOf(c, len, n)[i] = y)
           <=> \E i \in 1 .. len : i > len - n /\ c[i] = y
  <1> DEFINE w == LastOf(c, len, n)
  <1>1. \A i \in 1 .. n : w[i] = c[(len - n) + i]
    BY DEF LastOf
  <1> HIDE DEF w
  <1>2. ASSUME NEW i \in 1 .. n PROVE \E m \in 1 .. len : m > len - n /\ c[m] = w[i]
    <2>1. (len - n) + i \in 1 .. len /\ (len - n) + i > len - n
      OBVIOUS
    <2> QED
      BY <1>1, <2>1
  <1>3. ASSUME NEW i \in 1 .. len, i > len - n PROVE \E m \in 1 .. n : w[m] = c[i]
    <2>1. i - (len - n) \in 1 .. n /\ (len - n) + (i - (len - n)) = i
      BY <1>3
    <2> QED
      BY <1>1, <2>1
  <1> QED
    BY <1>2, <1>3 DEF w

-----------------------------------------------------------------------------
\* The invariant.

\* The list as the sequence of its nodes.
Row == Chain(list)

TypeVars ==
  /\ list \in Lists
  /\ key \in [Items -> Nat]
  /\ owner \in [Items -> {"free", "held", "queued", "popped"}]
  /\ locked \in ListThreads \cup {NULL}
  /\ step \in [ListThreads -> {"idle", "insert", "walk", "pop", "popping", "done"}]
  /\ new_n \in [ListThreads -> Items \cup {NULL}]
  /\ cursor \in [ListThreads -> Items \cup {NULL}]
  /\ unlocked \in BOOLEAN /\ stopped \in BOOLEAN

\* The links spell the queued nodes.
RowInv ==
  /\ Laid(list, Row)
  /\ \A x \in Items : owner[x] = "queued" <=> \E i \in 1 .. list.size : Row[i] = x

\* Each node is with one thread at most, which knows what it is.
HandsInv ==
  /\ \A t \in ListThreads :
       /\ step[t] \in {"insert", "walk"} => new_n[t] \in Items /\ owner[new_n[t]] = "held"
       /\ step[t] = "done" /\ new_n[t] # NULL => owner[new_n[t]] = "popped"
       /\ step[t] \in {"idle", "pop", "popping"} => new_n[t] = NULL
       /\ unlocked => step[t] = "idle"
  /\ \A t, u \in ListThreads : new_n[t] # NULL /\ new_n[t] = new_n[u] => t = u
  /\ \A x \in Items : owner[x] # "free" => key[x] \in Keys

\* The thread in a critical section has the lock.
MutexInv == \A t \in ListThreads : step[t] \in {"walk", "popping"} => locked = t

\* The walk has passed the nodes with larger keys, and no others.
PlaceInv ==
  \A t \in ListThreads :
    /\ step[t] = "walk" =>
         \E k \in 0 .. list.size :
           /\ cursor[t] = IF k = 0 THEN NULL ELSE Row[k]
           /\ \A i \in (k + 1) .. list.size : key[new_n[t]] < key[Row[i]]
    /\ step[t] = "popping" => cursor[t] = list.head

\* Where the program uses the list, it is sorted.
SortedInv ==
  ~unlocked => \A i, m \in 1 .. list.size : i < m => key[Row[i]] <= key[Row[m]]

ListIndInv == TypeVars /\ RowInv /\ HandsInv /\ MutexInv /\ PlaceInv /\ SortedInv

-----------------------------------------------------------------------------
\* What a step may do to the row.

Same == list' = list /\ \A y \in Items : owner'[y] = "queued" <=> owner[y] = "queued"

\* x joins the row after node k; where the program uses the list it is the new
\* node of a thread, behind every key that is not larger.
Adds(k, x) ==
  /\ k \in 0 .. list.size /\ x \in Items /\ owner[x] # "queued"
  /\ Laid(list', With(Row, list.size, k, x))
  /\ owner' = [owner EXCEPT ![x] = "queued"]
  /\ ~unlocked =>
       /\ owner[x] = "held"
       /\ \A i \in 1 .. k : key[Row[i]] <= key[x]
       /\ \A i \in (k + 1) .. list.size : key[x] < key[Row[i]]

\* Node k leaves the row.
Removes(k) ==
  /\ k \in 1 .. list.size
  /\ Laid(list', Without(Row, list.size, k))
  /\ owner'[Row[k]] # "queued"
  /\ \A y \in Items \ {Row[k]} : owner'[y] = "queued" <=> owner[y] = "queued"

\* All but the last n nodes leave it.
Cuts(n) ==
  /\ unlocked
  /\ n \in 0 .. list.size
  /\ Laid(list', LastOf(Row, list.size, n))
  /\ \A y \in Items :
       owner'[y] = "queued" <=>
         owner[y] = "queued" /\ \A i \in 1 .. list.size : Row[i] = y => i > list.size - n

\* What the invariant says of the row.
LEMMA RowFacts ==
  ASSUME TypeVars, RowInv
  PROVE  /\ list \in Lists /\ list.size \in Nat /\ Row \in Rows(list.size)
         /\ \A i \in 1 .. list.size : Row[i] \in Items /\ owner[Row[i]] = "queued"
         /\ \A i, m \in 1 .. list.size : Row[i] = Row[m] => i = m
         /\ NULL \notin Items
         /\ list.size = 0 => list.head = NULL
         /\ list.size > 0 => list.head = Row[1] /\ list.tail = Row[list.size]
         /\ \A i \in 1 .. list.size : list.prev[Row[i]] = IF i = 1 THEN NULL ELSE Row[i - 1]
  <1>1. list \in Lists /\ list.size \in Nat /\ Row \in Rows(list.size) /\ NULL \notin Items
    BY ListAssumption DEF RowInv, Laid, Lists
  <1>2. /\ Row \in [1 .. list.size -> Items]
        /\ \A i, m \in 1 .. list.size : Row[i] = Row[m] => i = m
    BY <1>1 DEF Rows
  <1>3. \A i \in 1 .. list.size : Row[i] \in Items /\ owner[Row[i]] = "queued"
    BY <1>2 DEF RowInv
  <1>4. Spells(list, Row)
    BY DEF RowInv, Laid
  <1>5. ASSUME NEW i \in 1 .. list.size PROVE list.prev[Row[i]] = IF i = 1 THEN NULL ELSE Row[i - 1]
    <2>1. CASE i = 1
      BY <1>1, <1>4, <2>1 DEF Spells
    <2>2. CASE i # 1
      <3>1. i - 1 \in 1 .. (list.size - 1) /\ (i - 1) + 1 = i
        BY <1>1, <2>2
      <3> QED
        BY <1>4, <2>2, <3>1 DEF Spells
    <2> QED
      BY <2>1, <2>2
  <1>6. /\ list.size = 0 => list.head = NULL
        /\ list.size > 0 => list.head = Row[1] /\ list.tail = Row[list.size]
    BY <1>4 DEF Spells
  <1> QED
    BY <1>1, <1>2, <1>3, <1>5, <1>6

\* Link adds the new node where the walk has stopped.
LEMMA LinkAdds ==
  ASSUME ListIndInv, NEW t \in ListThreads, Link(t)
  PROVE  \E k \in 0 .. list.size : Adds(k, new_n[t])
  <1> DEFINE x == new_n[t]
  <1>1. step[t] = "walk" /\ ~unlocked /\ ~Larger(t)
    BY DEF Link, At
  <1>2. x \in Items /\ owner[x] = "held"
    BY <1>1 DEF ListIndInv, HandsInv
  <1>3. /\ list \in Lists /\ list.size \in Nat /\ Row \in Rows(list.size) /\ NULL \notin Items
        /\ \A i \in 1 .. list.size : Row[i] \in Items /\ owner[Row[i]] = "queued"
    BY RowFacts DEF ListIndInv
  <1>4. PICK k \in 0 .. list.size :
          /\ cursor[t] = IF k = 0 THEN NULL ELSE Row[k]
          /\ \A i \in (k + 1) .. list.size : key[new_n[t]] < key[Row[i]]
    BY <1>1 DEF ListIndInv, PlaceInv
  <1>5. \A i \in 1 .. list.size : Row[i] # x
    BY <1>2, <1>3
  <1>6. Laid(list, Row)
    BY DEF ListIndInv, RowInv
  <1>7. list' = LinkAfter(list, IF k = 0 THEN NULL ELSE Row[k], x)
    BY <1>4 DEF Link
  <1>8. Laid(list', With(Row, list.size, k, x))
    <2> HIDE DEF x
    <2> QED
      BY <1>2, <1>3, <1>5, <1>6, <1>7, LinkAfterLaid
  <1>9. ASSUME NEW i \in 1 .. k PROVE key[Row[i]] <= key[x]
    <2>1. k \in 1 .. list.size /\ i \in 1 .. list.size /\ cursor[t] = Row[k] /\ k # 0
      BY <1>3, <1>4
    <2>2. key[x] \in Nat /\ key[Row[i]] \in Nat /\ key[Row[k]] \in Nat
      BY <1>2, <1>3, <2>1 DEF ListIndInv, TypeVars
    <2>3. ~ (key[x] < key[Row[k]])
      BY <1>1, <1>3, <2>1 DEF Larger
    <2>4. i = k \/ i < k
      BY <2>1
    <2>5. i < k => key[Row[i]] <= key[Row[k]]
      BY <1>1, <2>1 DEF ListIndInv, SortedInv
    <2> QED
      BY <2>2, <2>3, <2>4, <2>5
  <1>10. owner' = [owner EXCEPT ![x] = "queued"]
    BY DEF Link
  <1> QED
    BY <1>1, <1>2, <1>4, <1>8, <1>9, <1>10 DEF Adds

\* PopLink removes the first node, if there is one.
LEMMA PopRemoves ==
  ASSUME ListIndInv, NEW t \in ListThreads, PopLink(t)
  PROVE  \/ cursor[t] = NULL /\ list.size = 0 /\ Same
         \/ cursor[t] # NULL /\ cursor[t] = Row[1] /\ Removes(1)
  <1>1. step[t] = "popping"
    BY DEF PopLink, At
  <1>2. /\ list \in Lists /\ list.size \in Nat /\ NULL \notin Items
        /\ \A i \in 1 .. list.size : Row[i] \in Items /\ owner[Row[i]] = "queued"
        /\ list.size = 0 => list.head = NULL
        /\ list.size > 0 => list.head = Row[1]
        /\ cursor[t] = list.head
    BY <1>1, RowFacts DEF ListIndInv, PlaceInv
  <1>3. CASE list.size = 0
    BY <1>2, <1>3 DEF PopLink, Same
  <1>4. CASE list.size > 0
    <2>1. cursor[t] # NULL /\ cursor[t] = Row[1] /\ 1 \in 1 .. list.size
      BY <1>2, <1>4
    <2>2. list' = PopHead(list) /\ owner' = [owner EXCEPT ![Row[1]] = "popped"]
      BY <2>1 DEF PopLink
    <2>3. Laid(list', Without(Row, list.size, 1))
      BY <1>2, <1>4, <2>2, PopHeadLaid DEF ListIndInv, RowInv
    <2>4. /\ owner'[Row[1]] = "popped"
          /\ \A y \in Items \ {Row[1]} : owner'[y] = owner[y]
      BY <1>2, <2>1, <2>2 DEF ListIndInv, TypeVars
    <2> QED
      BY <2>1, <2>3, <2>4 DEF Removes
  <1> QED
    BY <1>2, <1>3, <1>4

\* An insertion of the interface adds the node somewhere.
LEMMA ApiInsertAdds ==
  ASSUME ListIndInv, NEW x \in Items, NEW ts \in Keys, ApiInsert(x, ts)
  PROVE  \E k \in 0 .. list.size : Adds(k, x)
  <1>1. unlocked /\ owner[x] = "free" /\ owner' = [owner EXCEPT ![x] = "queued"]
    BY DEF ApiInsert, Alone
  <1>2. /\ list \in Lists /\ list.size \in Nat /\ Row \in Rows(list.size)
        /\ \A i \in 1 .. list.size : Row[i] # x
    BY <1>1, RowFacts DEF ListIndInv
  <1>3. Laid(list, Row)
    BY DEF ListIndInv, RowInv
  <1>4. \E k \in 0 .. list.size : Laid(list', With(Row, list.size, k, x))
    <2>1. CASE list' = LinkHead(list, x)
      <3>1. 0 \in 0 .. list.size
        BY <1>2
      <3> QED
        BY <1>2, <1>3, <2>1, <3>1, LinkHeadLaid
    <2>2. CASE list' = LinkTail(list, x)
      <3>1. list.size \in 0 .. list.size
        BY <1>2
      <3> QED
        BY <1>2, <1>3, <2>2, <3>1, LinkTailLaid
    <2> DEFINE larger == {i \in 1 .. list.size : \A m \in i .. list.size : ts < key[Row[m]]}
               k == list.size - Cardinality(larger)
    <2>3. CASE list' = LinkAfter(list, IF k = 0 THEN NULL ELSE Row[k], x)
      <3>1. k \in 0 .. list.size
        <4>1. \A i \in larger : \A m \in 1 .. list.size : i <= m => m \in larger
          <5> SUFFICES ASSUME NEW i \in larger, NEW m \in 1 .. list.size, i <= m PROVE m \in larger
            OBVIOUS
          <5>1. i \in 1 .. list.size
            OBVIOUS
          <5>2. \A p \in m .. list.size : p \in i .. list.size
            BY <1>2, <5>1
          <5> QED
            BY <5>2
        <4>2. larger \in SUBSET (1 .. list.size)
          OBVIOUS
        <4> HIDE DEF larger
        <4>3. Cardinality(larger) \in 0 .. list.size
          BY <1>2, <4>1, <4>2, ToTheEnd
        <4> QED
          BY <1>2, <4>3
      <3> HIDE DEF k, larger
      <3> QED
        BY <1>2, <1>3, <2>3, <3>1, LinkAfterLaid
    <2> QED
      BY <2>1, <2>2, <2>3 DEF ApiInsert, Row
  <1> QED
    BY <1>1, <1>4 DEF Adds

\* An extraction or a pop of the interface removes a node.
LEMMA ApiRemoves ==
  ASSUME ListIndInv,
         \/ \E k \in Keys : ApiExtract(k)
         \/ \E x \in Items : ApiExtractByContent(x)
         \/ ApiPop
  PROVE  Same \/ \E k \in 1 .. list.size : Removes(k)
  <1>1. /\ list \in Lists /\ list.size \in Nat
        /\ \A i \in 1 .. list.size : Row[i] \in Items /\ owner[Row[i]] = "queued"
        /\ list.size > 0 => list.head = Row[1]
        /\ Laid(list, Row)
    BY RowFacts DEF ListIndInv, RowInv
  <1>2. ASSUME NEW k \in 1 .. list.size,
               Laid(list', Without(Row, list.size, k)), owner' = [owner EXCEPT ![Row[k]] = "free"]
        PROVE  Removes(k)
    BY <1>1, <1>2 DEF Removes, ListIndInv, TypeVars
  <1>3. ASSUME NEW k \in 1 .. list.size,
               list' = Unlink(list, Row[k]), owner' = [owner EXCEPT ![Row[k]] = "free"]
        PROVE  Removes(k)
    BY <1>1, <1>2, <1>3, UnlinkLaid
  <1>4. ASSUME NEW ts \in Keys, ApiExtract(ts) PROVE Same \/ \E k \in 1 .. list.size : Removes(k)
    <2>1. CASE UNCHANGED <<list, owner>>
      BY <2>1 DEF Same
    <2>2. CASE ~ UNCHANGED <<list, owner>>
      <3> DEFINE first == CHOOSE i \in Matches(ts) : \A m \in Matches(ts) : i <= m
      <3>1. first \in 1 .. list.size
        <4>1. Matches(ts) # {} /\ Matches(ts) \in SUBSET (1 .. list.size) /\ Matches(ts) \in SUBSET Nat
          BY <1>4 DEF ApiExtract, Matches
        <4>2. \E i \in Matches(ts) : \A m \in Matches(ts) : i <= m
          BY <4>1, LeastNat
        <4> QED
          BY <4>1, <4>2
      <3>2. FirstMatch(ts) = Row[first]
        BY DEF FirstMatch, Row
      <3>3. list' = Unlink(list, Row[first]) /\ owner' = [owner EXCEPT ![Row[first]] = "free"]
        BY <1>4, <2>2, <3>2 DEF ApiExtract
      <3> HIDE DEF first
      <3> QED
        BY <1>3, <3>1, <3>3
    <2> QED
      BY <2>1, <2>2
  <1>5. ASSUME NEW x \in Items, ApiExtractByContent(x) PROVE \E k \in 1 .. list.size : Removes(k)
    <2>1. PICK k \in 1 .. list.size : Row[k] = x
      BY <1>5 DEF ApiExtractByContent, ListIndInv, RowInv
    <2> QED
      BY <1>3, <1>5, <2>1 DEF ApiExtractByContent
  <1>6. ASSUME ApiPop PROVE \E k \in 1 .. list.size : Removes(k)
    <2>1. 1 \in 1 .. list.size /\ list' = PopHead(list) /\ owner' = [owner EXCEPT ![Row[1]] = "free"]
      <3>1. list.size > 0 /\ list' = PopHead(list) /\ owner' = [owner EXCEPT ![list.head] = "free"]
        BY <1>6 DEF ApiPop
      <3>2. 1 \in 1 .. list.size /\ list.head = Row[1]
        BY <1>1, <3>1
      <3> QED
        BY <3>1, <3>2
    <2>2. Laid(list', Without(Row, list.size, 1))
      BY <1>1, <1>6, <2>1, PopHeadLaid DEF ApiPop
    <2> QED
      BY <1>2, <2>1, <2>2
  <1> QED
    BY <1>4, <1>5, <1>6

\* list_trunc_before() cuts the first nodes off.
LEMMA ApiTruncCuts ==
  ASSUME ListIndInv, NEW k \in Keys, ApiTruncBefore(k)
  PROVE  \E n \in 0 .. list.size : Cuts(n)
  <1> DEFINE len == list.size
             kept == {i \in 1 .. len : \E m \in 1 .. i : key[Row[m]] >= k}
             n == Cardinality(kept)
             first == IF kept = {} THEN NULL ELSE Row[len - n + 1]
  <1>1. /\ list \in Lists /\ len \in Nat /\ Row \in Rows(len) /\ Laid(list, Row)
        /\ \A i \in 1 .. len : Row[i] \in Items /\ owner[Row[i]] = "queued"
        /\ \A i, m \in 1 .. len : Row[i] = Row[m] => i = m
    BY RowFacts DEF ListIndInv, RowInv
  <1>2. /\ unlocked
        /\ list' = [list EXCEPT !.head = first, !.size = n,
                                !.prev = IF first = NULL THEN @ ELSE [@ EXCEPT ![first] = NULL]]
        /\ owner' = [y \in Items |->
                       IF \E i \in 1 .. len : Row[i] = y /\ i \notin kept THEN "free" ELSE owner[y]]
    BY DEF ApiTruncBefore, Alone, Row
  <1>3. n \in 0 .. len /\ kept = {i \in 1 .. len : i > len - n}
    <2>1. \A i \in kept : \A m \in 1 .. len : i <= m => m \in kept
      <3> SUFFICES ASSUME NEW i \in kept, NEW m \in 1 .. len, i <= m PROVE m \in kept
        OBVIOUS
      <3>1. PICK p \in 1 .. i : key[Row[p]] >= k
        OBVIOUS
      <3>2. p \in 1 .. m
        BY <1>1
      <3> QED
        BY <3>1, <3>2
    <2>2. kept \in SUBSET (1 .. len)
      OBVIOUS
    <2> HIDE DEF kept, len
    <2> QED
      BY <1>1, <2>1, <2>2, ToTheEnd
  <1>4. kept = {} <=> n = 0
    <2> HIDE DEF kept, n, len
    <2>1. n \in Nat /\ n <= len
      BY <1>1, <1>3
    <2>2. ASSUME n > 0 PROVE kept # {}
      <3>1. len \in 1 .. len /\ len > len - n
        BY <1>1, <2>1, <2>2
      <3>2. len \in kept
        BY <1>3, <3>1
      <3> QED
        BY <3>2
    <2>3. ASSUME n = 0 PROVE kept = {}
      <3>1. \A i \in 1 .. len : ~ (i > len - n)
        BY <1>1, <2>3
      <3> QED
        BY <1>3, <3>1
    <2> QED
      BY <2>1, <2>2, <2>3
  <1>5. list' = CutTo(list, Row, n)
    <2> HIDE DEF kept, n
    <2> QED
      BY <1>2, <1>4 DEF CutTo
  <1> HIDE DEF n, kept
  <1>6. Laid(list', LastOf(Row, len, n))
    BY <1>1, <1>3, <1>5, CutToLaid
  <1>7. ASSUME NEW y \in Items
        PROVE  owner'[y] = "queued" <=>
                 owner[y] = "queued" /\ \A i \in 1 .. len : Row[i] = y => i > len - n
    <2>1. owner'[y] = IF \E i \in 1 .. len : Row[i] = y /\ ~ (i > len - n) THEN "free" ELSE owner[y]
      BY <1>2, <1>3
    <2> QED
      BY <2>1
  <1> QED
    BY <1>2, <1>3, <1>6, <1>7 DEF Cuts

\* A step of the interface that nobody locks.
Api ==
  \/ \E x \in Items, k \in Keys : ApiInsert(x, k)
  \/ \E k \in Keys : ApiExtract(k) \/ ApiTruncBefore(k)
  \/ \E x \in Items : ApiExtractByContent(x)
  \/ ApiPop \/ ApiTruncAfter

\* The row changes by one node, or is cut, and the keys of nodes in use stay
\* as long as the program uses the list.
LEMMA RowKinds ==
  ASSUME ListIndInv, [ListNext]_lvars
  PROVE  /\ \/ Same
            \/ \E k \in 0 .. list.size : \E x \in Items : Adds(k, x)
            \/ \E k \in 1 .. list.size : Removes(k)
            \/ \E n \in 0 .. list.size : Cuts(n)
         /\ unlocked' = unlocked
         /\ ~unlocked => \A y \in Items : owner[y] # "free" => key'[y] = key[y]
  <1> DEFINE Kind == \/ Same
                     \/ \E k \in 0 .. list.size : \E x \in Items : Adds(k, x)
                     \/ \E k \in 1 .. list.size : Removes(k)
                     \/ \E n \in 0 .. list.size : Cuts(n)
             Keep == /\ unlocked' = unlocked
                     /\ ~unlocked => \A y \in Items : owner[y] # "free" => key'[y] = key[y]
  <1>y. owner \in [Items -> {"free", "held", "queued", "popped"}] /\ key \in [Items -> Nat]
    BY DEF ListIndInv, TypeVars
  <1>1. ASSUME NEW t \in ListThreads, NEW x \in Items, NEW k \in Keys, InsertCall(t, x, k)
        PROVE  Kind /\ Keep
    <2>1. owner[x] = "free" /\ owner' = [owner EXCEPT ![x] = "held"] /\ key' = [key EXCEPT ![x] = k]
          /\ list' = list /\ unlocked' = unlocked
      BY <1>1 DEF InsertCall
    <2> QED
      BY <1>y, <2>1 DEF Same
  <1>2. ASSUME NEW t \in ListThreads, LockInsert(t) \/ Walk(t) \/ PopCall(t) \/ LockPop(t)
        PROVE  Kind /\ Keep
    BY <1>2 DEF LockInsert, Walk, PopCall, LockPop, Same
  <1>3. ASSUME NEW t \in ListThreads, Link(t) PROVE Kind /\ Keep
    <2>1. PICK k \in 0 .. list.size : Adds(k, new_n[t])
      BY <1>3, LinkAdds
    <2>2. new_n[t] \in Items
      BY <2>1 DEF Adds
    <2> QED
      BY <1>3, <2>1, <2>2 DEF Link
  <1>4. ASSUME NEW t \in ListThreads, PopLink(t) PROVE Kind /\ Keep
    <2>1. list.size \in Nat
      BY RowFacts DEF ListIndInv
    <2>2. Same \/ Removes(1)
      BY <1>4, PopRemoves
    <2>3. Removes(1) => 1 \in 1 .. list.size
      BY DEF Removes
    <2>4. Keep
      BY <1>4 DEF PopLink
    <2> QED
      BY <2>2, <2>3, <2>4
  <1>5. ASSUME NEW t \in ListThreads, CallReturn(t) PROVE Kind /\ Keep
    <2>1. /\ list' = list /\ unlocked' = unlocked /\ key' = key
          /\ owner' = [x \in Items |-> IF x = new_n[t] THEN "free" ELSE owner[x]]
          /\ step[t] = "done"
      BY <1>5 DEF CallReturn, At
    <2>2. \A y \in Items : y = new_n[t] => owner[y] = "popped"
      BY <2>1, ListAssumption DEF ListIndInv, HandsInv
    <2> QED
      BY <2>1, <2>2 DEF Same
  <1>6. ASSUME Api PROVE Kind /\ Keep
    <2>1. unlocked /\ unlocked' = unlocked
      BY <1>6 DEF Api, ApiInsert, ApiExtract, ApiTruncBefore, ApiExtractByContent, ApiPop,
                  ApiTruncAfter, Alone, ApiVars
    <2>2. Kind
      <3>1. ASSUME NEW x \in Items, NEW k \in Keys, ApiInsert(x, k) PROVE Kind
        BY <3>1, ApiInsertAdds
      <3>2. ASSUME NEW k \in Keys, ApiTruncBefore(k) PROVE Kind
        BY <3>2, ApiTruncCuts
      <3>3. ASSUME \/ \E k \in Keys : ApiExtract(k)
                   \/ \E x \in Items : ApiExtractByContent(x)
                   \/ ApiPop
            PROVE  Kind
        BY <3>3, ApiRemoves
      <3>4. ASSUME ApiTruncAfter PROVE Kind
        BY <3>4 DEF ApiTruncAfter, Same
      <3> HIDE DEF Kind
      <3> QED
        BY <1>6, <3>1, <3>2, <3>3, <3>4 DEF Api
    <2> QED
      BY <2>1, <2>2
  <1>7. ASSUME Stopped \/ UNCHANGED lvars PROVE Kind /\ Keep
    BY <1>7 DEF Stopped, lvars, Same
  <1> HIDE DEF Kind, Keep
  <1>8. Kind /\ Keep
    BY <1>1, <1>2, <1>3, <1>4, <1>5, <1>6, <1>7 DEF ListNext, Api
  <1> QED
    BY <1>8 DEF Kind, Keep

\* A list that is laid as a row of n nodes has size n.
LEMMA LaidSize ==
  ASSUME NEW l, NEW c, NEW n \in Nat, Laid(l, c), c \in Rows(n)
  PROVE  l \in Lists /\ l.size = n /\ Chain(l) = c
  <1>1. l \in Lists /\ l.size \in Nat /\ c \in Rows(l.size)
    BY DEF Laid, Lists
  <1>2. DOMAIN c = 1 .. l.size /\ DOMAIN c = 1 .. n
    BY <1>1 DEF Rows
  <1> DEFINE len == l.size
  <1>3. len \in Nat /\ 1 .. len = 1 .. n
    BY <1>1, <1>2
  <1>4. len = n
    <2> HIDE DEF len
    <2>1. len > 0 => len \in 1 .. n
      BY <1>3
    <2>2. n > 0 => n \in 1 .. len
      BY <1>3
    <2> QED
      BY <1>3, <2>1, <2>2
  <1> QED
    BY <1>1, <1>4, ChainIs

\* The row in the next state, when a node joins, when one leaves, and after a cut.
LEMMA AddsRow ==
  ASSUME ListIndInv, NEW k, NEW x, Adds(k, x)
  PROVE  /\ Laid(list', Row') /\ list'.size = list.size + 1
         /\ Row' = With(Row, list.size, k, x)
         /\ \A i \in 1 .. k : Row'[i] = Row[i]
         /\ Row'[k + 1] = x
         /\ \A i \in (k + 1) .. list.size : Row'[i + 1] = Row[i]
  <1>1. /\ list.size \in Nat /\ Row \in Rows(list.size)
        /\ \A i \in 1 .. list.size : owner[Row[i]] = "queued"
    BY RowFacts DEF ListIndInv
  <1>2. /\ k \in 0 .. list.size /\ x \in Items /\ \A i \in 1 .. list.size : Row[i] # x
        /\ Laid(list', With(Row, list.size, k, x))
    BY <1>1 DEF Adds
  <1> DEFINE w == With(Row, list.size, k, x)
             n == list.size + 1
  <1>3. /\ w \in Rows(n)
        /\ \A i \in 1 .. k : w[i] = Row[i]
        /\ w[k + 1] = x
        /\ \A i \in (k + 1) .. list.size : w[i + 1] = Row[i]
    BY <1>1, <1>2, RowWith
  <1>4. n \in Nat
    BY <1>1
  <1>5. list'.size = n /\ Chain(list') = w
    <2> HIDE DEF w, n
    <2>1. Laid(list', w)
      BY <1>2 DEF w
    <2> QED
      BY <1>3, <1>4, <2>1, LaidSize
  <1> QED
    BY <1>2, <1>3, <1>5 DEF Row

LEMMA RemovesRow ==
  ASSUME ListIndInv, NEW k, Removes(k)
  PROVE  /\ Laid(list', Row') /\ list'.size = list.size - 1
         /\ Row' = Without(Row, list.size, k)
         /\ \A i \in 1 .. (k - 1) : Row'[i] = Row[i]
         /\ \A i \in k .. (list.size - 1) : Row'[i] = Row[i + 1]
  <1>1. list.size \in Nat /\ Row \in Rows(list.size)
    BY RowFacts DEF ListIndInv
  <1>2. k \in 1 .. list.size /\ Laid(list', Without(Row, list.size, k))
    BY <1>1 DEF Removes
  <1> DEFINE w == Without(Row, list.size, k)
             n == list.size - 1
  <1>3. /\ w \in Rows(n)
        /\ \A i \in 1 .. (k - 1) : w[i] = Row[i]
        /\ \A i \in k .. (list.size - 1) : w[i] = Row[i + 1]
    BY <1>1, <1>2, RowWithout
  <1>4. n \in Nat
    BY <1>1, <1>2
  <1>5. list'.size = n /\ Chain(list') = w
    <2> HIDE DEF w, n
    <2>1. Laid(list', w)
      BY <1>2 DEF w
    <2> QED
      BY <1>3, <1>4, <2>1, LaidSize
  <1> QED
    BY <1>2, <1>3, <1>5 DEF Row

LEMMA CutsRow ==
  ASSUME ListIndInv, NEW n, Cuts(n)
  PROVE  Laid(list', Row') /\ list'.size = n /\ Row' = LastOf(Row, list.size, n)
  <1>1. list.size \in Nat /\ Row \in Rows(list.size)
    BY RowFacts DEF ListIndInv
  <1>2. n \in 0 .. list.size /\ n \in Nat /\ Laid(list', LastOf(Row, list.size, n))
    BY <1>1 DEF Cuts
  <1>3. LastOf(Row, list.size, n) \in Rows(n)
    BY <1>1, <1>2, RowLast
  <1> DEFINE w == LastOf(Row, list.size, n)
  <1>5. list'.size = n /\ Chain(list') = w
    <2>1. Laid(list', w) /\ w \in Rows(n)
      BY <1>2, <1>3
    <2> HIDE DEF w
    <2> QED
      BY <1>2, <2>1, LaidSize
  <1> QED
    BY <1>2, <1>5 DEF Row

-----------------------------------------------------------------------------
\* A step keeps the invariant.

LEMMA InitInv ==
  ASSUME ListInit
  PROVE  ListIndInv
  <1> DEFINE none == [i \in 1 .. 0 |-> NULL]
  <1>1. list \in Lists /\ list.size = 0 /\ list.head = NULL
    BY DEF ListInit, Lists
  <1>2. Laid(list, none)
    <2>1. none \in Rows(0)
      BY DEF Rows
    <2> HIDE DEF none
    <2> QED
      BY <1>1, <2>1 DEF Laid, Spells
  <1>3. Laid(list, Row)
    <2> HIDE DEF none
    <2> QED
      BY <1>1, <1>2, ChainIs DEF Row
  <1>4. RowInv
    BY <1>1, <1>3 DEF RowInv, ListInit
  <1>5. TypeVars
    BY <1>1 DEF TypeVars, ListInit
  <1>6. HandsInv
    BY ListAssumption DEF HandsInv, ListInit
  <1>7. MutexInv /\ PlaceInv
    BY DEF MutexInv, PlaceInv, ListInit
  <1>8. SortedInv
    BY <1>1 DEF SortedInv
  <1> QED
    BY <1>4, <1>5, <1>6, <1>7, <1>8 DEF ListIndInv

LEMMA RowStep ==
  ASSUME ListIndInv, [ListNext]_lvars
  PROVE  RowInv'
  <1>1. /\ list.size \in Nat /\ Row \in Rows(list.size) /\ Laid(list, Row)
        /\ \A i \in 1 .. list.size : Row[i] \in Items /\ owner[Row[i]] = "queued"
        /\ owner \in [Items -> {"free", "held", "queued", "popped"}]
        /\ \A i, m \in 1 .. list.size : Row[i] = Row[m] => i = m
    BY RowFacts DEF ListIndInv, RowInv, TypeVars
  <1>2. \A y \in Items : owner[y] = "queued" <=> \E i \in 1 .. list.size : Row[i] = y
    BY DEF ListIndInv, RowInv
  <1>3. CASE Same
    BY <1>1, <1>2, <1>3 DEF Same, RowInv, Row
  <1>4. ASSUME NEW k \in 0 .. list.size, NEW x \in Items, Adds(k, x) PROVE RowInv'
    <2>1. /\ Laid(list', Row') /\ list'.size = list.size + 1
          /\ Row' = With(Row, list.size, k, x)
      BY <1>4, AddsRow
    <2>2. owner' = [owner EXCEPT ![x] = "queued"] /\ \A i \in 1 .. list.size : Row[i] # x
      BY <1>1, <1>4 DEF Adds
    <2>3. ASSUME NEW y \in Items
          PROVE  owner'[y] = "queued" <=> \E i \in 1 .. list'.size : Row'[i] = y
      <3>1. (\E i \in 1 .. (list.size + 1) : With(Row, list.size, k, x)[i] = y)
               <=> y = x \/ \E i \in 1 .. list.size : Row[i] = y
        <4> DEFINE len == list.size
        <4>1. len \in Nat /\ Row \in Rows(len) /\ k \in 0 .. len /\ \A i \in 1 .. len : Row[i] # x
          BY <1>1, <2>2
        <4> HIDE DEF len
        <4>2. (\E i \in 1 .. (len + 1) : With(Row, len, k, x)[i] = y)
                <=> y = x \/ \E i \in 1 .. len : Row[i] = y
          BY <4>1, MembersWith
        <4> QED
          BY <4>2 DEF len
      <3>2. owner'[y] = "queued" <=> y = x \/ owner[y] = "queued"
        BY <1>1, <2>2
      <3> QED
        BY <1>2, <2>1, <3>1, <3>2
    <2> QED
      BY <2>1, <2>3 DEF RowInv
  <1>5. ASSUME NEW k \in 1 .. list.size, Removes(k) PROVE RowInv'
    <2>1. /\ Laid(list', Row') /\ list'.size = list.size - 1
          /\ Row' = Without(Row, list.size, k)
      BY <1>5, RemovesRow
    <2>2. ASSUME NEW y \in Items
          PROVE  owner'[y] = "queued" <=> \E i \in 1 .. list'.size : Row'[i] = y
      <3>1. (\E i \in 1 .. (list.size - 1) : Without(Row, list.size, k)[i] = y)
               <=> y # Row[k] /\ \E i \in 1 .. list.size : Row[i] = y
        <4> DEFINE len == list.size
        <4>1. len \in Nat /\ Row \in Rows(len) /\ k \in 1 .. len
          BY <1>1
        <4> HIDE DEF len
        <4>2. (\E i \in 1 .. (len - 1) : Without(Row, len, k)[i] = y)
                <=> y # Row[k] /\ \E i \in 1 .. len : Row[i] = y
          BY <4>1, MembersWithout
        <4> QED
          BY <4>2 DEF len
      <3>2. owner'[y] = "queued" <=> y # Row[k] /\ owner[y] = "queued"
        BY <1>5 DEF Removes
      <3> QED
        BY <1>2, <2>1, <3>1, <3>2
    <2> QED
      BY <2>1, <2>2 DEF RowInv
  <1>6. ASSUME NEW n \in 0 .. list.size, Cuts(n) PROVE RowInv'
    <2>1. Laid(list', Row') /\ list'.size = n /\ Row' = LastOf(Row, list.size, n)
      BY <1>6, CutsRow
    <2>2. ASSUME NEW y \in Items
          PROVE  owner'[y] = "queued" <=> \E i \in 1 .. list'.size : Row'[i] = y
      <3>1. (\E i \in 1 .. n : LastOf(Row, list.size, n)[i] = y)
               <=> \E i \in 1 .. list.size : i > list.size - n /\ Row[i] = y
        <4> DEFINE len == list.size
        <4>1. len \in Nat /\ Row \in Rows(len) /\ n \in 0 .. len
          BY <1>1
        <4> HIDE DEF len
        <4>2. (\E i \in 1 .. n : LastOf(Row, len, n)[i] = y)
                <=> \E i \in 1 .. len : i > len - n /\ Row[i] = y
          BY <4>1, MembersLast
        <4> QED
          BY <4>2 DEF len
      <3>2. owner'[y] = "queued" <=>
              owner[y] = "queued" /\ \A i \in 1 .. list.size : Row[i] = y => i > list.size - n
        BY <1>6 DEF Cuts
      <3>3. owner'[y] = "queued" <=> \E i \in 1 .. list.size : i > list.size - n /\ Row[i] = y
        BY <1>1, <1>2, <3>2
      <3> QED
        BY <2>1, <3>1, <3>3
    <2> QED
      BY <2>1, <2>2 DEF RowInv
  <1> QED
    BY <1>3, <1>4, <1>5, <1>6, RowKinds

LEMMA TypeStep ==
  ASSUME ListIndInv, [ListNext]_lvars
  PROVE  TypeVars'
  <1>1. list' \in Lists
    BY RowStep DEF RowInv, Laid
  <1>2. /\ list \in Lists
        /\ key \in [Items -> Nat]
        /\ owner \in [Items -> {"free", "held", "queued", "popped"}]
        /\ locked \in ListThreads \cup {NULL}
        /\ step \in [ListThreads -> {"idle", "insert", "walk", "pop", "popping", "done"}]
        /\ new_n \in [ListThreads -> Items \cup {NULL}]
        /\ cursor \in [ListThreads -> Items \cup {NULL}]
        /\ unlocked \in BOOLEAN /\ stopped \in BOOLEAN
    BY DEF ListIndInv, TypeVars
  <1>3. \A k \in Keys : k \in Nat
    BY ListAssumption
  <1>4. /\ list.head \in Items \cup {NULL} /\ list.tail \in Items \cup {NULL}
        /\ list.prev \in [Items -> Items \cup {NULL}]
    BY <1>2 DEF Lists
  <1>5. ASSUME NEW t \in ListThreads, NEW x \in Items, NEW k \in Keys, InsertCall(t, x, k)
        PROVE  TypeVars'
    BY <1>1, <1>2, <1>3, <1>5 DEF InsertCall, Move, TypeVars
  <1>6. ASSUME NEW t \in ListThreads, LockInsert(t) PROVE TypeVars'
    BY <1>1, <1>2, <1>4, <1>6 DEF LockInsert, Move, TypeVars
  <1>7. ASSUME NEW t \in ListThreads, Walk(t) PROVE TypeVars'
    <2>1. cursor[t] \in Items
      BY <1>2, <1>7 DEF Walk, Larger
    <2> QED
      BY <1>1, <1>2, <1>4, <1>7, <2>1 DEF Walk, TypeVars
  <1>8. ASSUME NEW t \in ListThreads, Link(t) PROVE TypeVars'
    BY <1>1, <1>2, <1>8 DEF Link, Move, TypeVars
  <1>9. ASSUME NEW t \in ListThreads, PopCall(t) PROVE TypeVars'
    BY <1>1, <1>2, <1>9 DEF PopCall, Move, TypeVars
  <1>10. ASSUME NEW t \in ListThreads, LockPop(t) PROVE TypeVars'
    BY <1>1, <1>2, <1>4, <1>10 DEF LockPop, Move, TypeVars
  <1>11. ASSUME NEW t \in ListThreads, PopLink(t) PROVE TypeVars'
    BY <1>1, <1>2, <1>11 DEF PopLink, Move, TypeVars
  <1>12. ASSUME NEW t \in ListThreads, CallReturn(t) PROVE TypeVars'
    BY <1>1, <1>2, <1>12 DEF CallReturn, Move, TypeVars
  <1>13. ASSUME NEW x \in Items, NEW k \in Keys, ApiInsert(x, k) PROVE TypeVars'
    BY <1>1, <1>2, <1>3, <1>13 DEF ApiInsert, ApiVars, TypeVars
  <1>14. ASSUME NEW k \in Keys, ApiExtract(k) PROVE TypeVars'
    BY <1>1, <1>2, <1>14 DEF ApiExtract, ApiVars, TypeVars
  <1>15. ASSUME NEW k \in Keys, ApiTruncBefore(k) PROVE TypeVars'
    <2>1. owner' \in [Items -> {"free", "held", "queued", "popped"}]
      BY <1>2, <1>15 DEF ApiTruncBefore
    <2> QED
      BY <1>1, <1>2, <1>15, <2>1 DEF ApiTruncBefore, ApiVars, TypeVars
  <1>16. ASSUME NEW x \in Items, ApiExtractByContent(x) PROVE TypeVars'
    BY <1>1, <1>2, <1>16 DEF ApiExtractByContent, ApiVars, TypeVars
  <1>17. ASSUME ApiPop PROVE TypeVars'
    BY <1>1, <1>2, <1>17 DEF ApiPop, ApiVars, TypeVars
  <1>18. ASSUME ApiTruncAfter PROVE TypeVars'
    BY <1>1, <1>2, <1>18 DEF ApiTruncAfter, ApiVars, TypeVars
  <1>19. ASSUME Stopped \/ UNCHANGED lvars PROVE TypeVars'
    BY <1>1, <1>2, <1>19 DEF Stopped, lvars, TypeVars
  <1> QED
    BY <1>5, <1>6, <1>7, <1>8, <1>9, <1>10, <1>11, <1>12, <1>13, <1>14, <1>15, <1>16,
       <1>17, <1>18, <1>19 DEF ListNext

\* Steps of the interface find every thread idle.
LEMMA ApiIdle ==
  ASSUME ListIndInv, Api
  PROVE  /\ unlocked /\ unlocked' = unlocked /\ locked' = locked
         /\ step' = step /\ new_n' = new_n /\ cursor' = cursor
         /\ \A t \in ListThreads : step[t] = "idle" /\ new_n[t] = NULL
  <1>1. /\ unlocked /\ unlocked' = unlocked /\ locked' = locked
        /\ step' = step /\ new_n' = new_n /\ cursor' = cursor
    BY DEF Api, ApiInsert, ApiExtract, ApiTruncBefore, ApiExtractByContent, ApiPop,
           ApiTruncAfter, Alone, ApiVars
  <1> QED
    BY <1>1 DEF ListIndInv, HandsInv

LEMMA HandsStep ==
  ASSUME ListIndInv, [ListNext]_lvars
  PROVE  HandsInv'
  <1>1. /\ key \in [Items -> Nat]
        /\ owner \in [Items -> {"free", "held", "queued", "popped"}]
        /\ step \in [ListThreads -> {"idle", "insert", "walk", "pop", "popping", "done"}]
        /\ new_n \in [ListThreads -> Items \cup {NULL}]
        /\ cursor \in [ListThreads -> Items \cup {NULL}]
        /\ NULL \notin Items
    BY ListAssumption DEF ListIndInv, TypeVars
  <1>2. /\ \A t \in ListThreads :
             /\ step[t] \in {"insert", "walk"} => new_n[t] \in Items /\ owner[new_n[t]] = "held"
             /\ step[t] = "done" /\ new_n[t] # NULL => owner[new_n[t]] = "popped"
             /\ step[t] \in {"idle", "pop", "popping"} => new_n[t] = NULL
             /\ unlocked => step[t] = "idle"
        /\ \A t, u \in ListThreads : new_n[t] # NULL /\ new_n[t] = new_n[u] => t = u
        /\ \A x \in Items : owner[x] # "free" => key[x] \in Keys
    BY DEF ListIndInv, HandsInv
  <1>3. \A t \in ListThreads : new_n[t] # NULL => owner[new_n[t]] \in {"held", "popped"}
    BY <1>1, <1>2
  <1>4. ASSUME NEW t \in ListThreads, NEW x \in Items, NEW k \in Keys, InsertCall(t, x, k)
        PROVE  HandsInv'
    <2>1. /\ ~unlocked /\ unlocked' = unlocked /\ owner[x] = "free"
          /\ owner' = [owner EXCEPT ![x] = "held"] /\ key' = [key EXCEPT ![x] = k]
          /\ new_n' = [new_n EXCEPT ![t] = x] /\ step' = [step EXCEPT ![t] = "insert"]
      BY <1>4 DEF InsertCall, At, Move
    <2>2. \A u \in ListThreads : new_n[u] # x
      BY <1>3, <2>1, <1>1
    <2> QED
      BY <1>1, <1>2, <2>1, <2>2 DEF HandsInv
  <1>5. ASSUME NEW t \in ListThreads, LockInsert(t) \/ PopCall(t) \/ LockPop(t) PROVE HandsInv'
    <2>1. /\ ~unlocked /\ unlocked' = unlocked /\ owner' = owner /\ key' = key /\ new_n' = new_n
          /\ \/ step[t] = "insert" /\ step' = [step EXCEPT ![t] = "walk"]
             \/ step[t] = "idle" /\ step' = [step EXCEPT ![t] = "pop"]
             \/ step[t] = "pop" /\ step' = [step EXCEPT ![t] = "popping"]
      BY <1>5 DEF LockInsert, PopCall, LockPop, At, Move
    <2> QED
      BY <1>1, <1>2, <2>1 DEF HandsInv
  <1>6. ASSUME NEW t \in ListThreads, Walk(t) PROVE HandsInv'
    BY <1>2, <1>6 DEF Walk, HandsInv
  <1>7. ASSUME NEW t \in ListThreads, Link(t) PROVE HandsInv'
    <2>1. /\ ~unlocked /\ unlocked' = unlocked /\ step[t] = "walk" /\ key' = key
          /\ owner' = [owner EXCEPT ![new_n[t]] = "queued"]
          /\ new_n' = [new_n EXCEPT ![t] = NULL] /\ step' = [step EXCEPT ![t] = "done"]
      BY <1>7 DEF Link, At, Move
    <2>2. new_n[t] \in Items /\ key[new_n[t]] \in Keys
      BY <1>2, <2>1
    <2>3. \A u \in ListThreads \ {t} : new_n[u] # new_n[t]
      BY <1>1, <1>2, <2>2
    <2> QED
      BY <1>1, <1>2, <2>1, <2>2, <2>3 DEF HandsInv
  <1>8. ASSUME NEW t \in ListThreads, PopLink(t) PROVE HandsInv'
    <2>1. /\ ~unlocked /\ unlocked' = unlocked /\ step[t] = "popping" /\ key' = key
          /\ new_n' = [new_n EXCEPT ![t] = cursor[t]] /\ step' = [step EXCEPT ![t] = "done"]
      BY <1>8 DEF PopLink, At, Move
    <2>2. CASE cursor[t] = NULL
      <3>1. owner' = owner
        BY <1>8, <2>2 DEF PopLink
      <3> QED
        BY <1>1, <1>2, <2>1, <2>2, <3>1 DEF HandsInv
    <2>3. CASE cursor[t] # NULL
      <3>1. owner' = [owner EXCEPT ![cursor[t]] = "popped"] /\ cursor[t] \in Items
        BY <1>1, <1>8, <2>3 DEF PopLink
      <3>2. owner[cursor[t]] = "queued"
        <4>1. cursor[t] = Row[1] /\ 1 \in 1 .. list.size
          BY <1>8, <2>3, PopRemoves DEF Removes
        <4> QED
          BY <4>1, RowFacts DEF ListIndInv
      <3>3. \A u \in ListThreads : new_n[u] # cursor[t]
        BY <1>1, <1>3, <3>1, <3>2
      <3> QED
        BY <1>1, <1>2, <2>1, <2>3, <3>1, <3>2, <3>3 DEF HandsInv
    <2> QED
      BY <2>2, <2>3
  <1>9. ASSUME NEW t \in ListThreads, CallReturn(t) PROVE HandsInv'
    <2>1. /\ ~unlocked /\ unlocked' = unlocked /\ step[t] = "done" /\ key' = key
          /\ owner' = [x \in Items |-> IF x = new_n[t] THEN "free" ELSE owner[x]]
          /\ new_n' = [new_n EXCEPT ![t] = NULL] /\ step' = [step EXCEPT ![t] = "idle"]
      BY <1>9 DEF CallReturn, At, Move
    <2>2. \A u \in ListThreads \ {t} : new_n[u] # NULL => owner'[new_n[u]] = owner[new_n[u]]
      BY <1>1, <1>2, <2>1
    <2>3. \A x \in Items : owner'[x] # "free" => owner[x] # "free"
      BY <2>1
    <2> QED
      BY <1>1, <1>2, <2>1, <2>2, <2>3 DEF HandsInv
  <1>10. ASSUME Api PROVE HandsInv'
    <2>1. /\ unlocked' = unlocked /\ step' = step /\ new_n' = new_n
          /\ \A t \in ListThreads : step[t] = "idle" /\ new_n[t] = NULL
      BY <1>10, ApiIdle
    <2>2. \A x \in Items : owner'[x] # "free" => key'[x] \in Keys
      <3>1. ASSUME NEW x \in Items, NEW k \in Keys, ApiInsert(x, k)
            PROVE  \A y \in Items : owner'[y] # "free" => key'[y] \in Keys
        BY <1>1, <1>2, <3>1 DEF ApiInsert
      <3>2. ASSUME NEW k \in Keys, ApiExtract(k) \/ ApiTruncBefore(k)
            PROVE  \A y \in Items : owner'[y] # "free" => key'[y] \in Keys
        BY <1>1, <1>2, <3>2 DEF ApiExtract, ApiTruncBefore
      <3>3. ASSUME \/ \E x \in Items : ApiExtractByContent(x)
                   \/ ApiPop \/ ApiTruncAfter
            PROVE  \A y \in Items : owner'[y] # "free" => key'[y] \in Keys
        BY <1>1, <1>2, <3>3 DEF ApiExtractByContent, ApiPop, ApiTruncAfter
      <3> QED
        BY <1>10, <3>1, <3>2, <3>3 DEF Api
    <2> QED
      BY <1>1, <1>2, <2>1, <2>2 DEF HandsInv
  <1>11. ASSUME Stopped \/ UNCHANGED lvars PROVE HandsInv'
    BY <1>2, <1>11 DEF Stopped, lvars, HandsInv
  <1> QED
    BY <1>4, <1>5, <1>6, <1>7, <1>8, <1>9, <1>10, <1>11 DEF ListNext, Api

LEMMA MutexStep ==
  ASSUME ListIndInv, [ListNext]_lvars
  PROVE  MutexInv'
  <1>1. /\ step \in [ListThreads -> {"idle", "insert", "walk", "pop", "popping", "done"}]
        /\ NULL \notin ListThreads
        /\ \A t \in ListThreads : step[t] \in {"walk", "popping"} => locked = t
    BY ListAssumption DEF ListIndInv, TypeVars, MutexInv
  <1>2. ASSUME NEW t \in ListThreads, LockInsert(t) \/ LockPop(t) PROVE MutexInv'
    <2>1. locked = NULL /\ locked' = t /\ \A u \in ListThreads \ {t} : step'[u] = step[u]
      BY <1>1, <1>2 DEF LockInsert, LockPop, Move
    <2> QED
      BY <1>1, <2>1 DEF MutexInv
  <1>3. ASSUME NEW t \in ListThreads, Link(t) \/ PopLink(t) PROVE MutexInv'
    <2>1. locked = t /\ step' = [step EXCEPT ![t] = "done"]
      BY <1>1, <1>3 DEF Link, PopLink, At, Move
    <2> QED
      BY <1>1, <2>1 DEF MutexInv
  <1>4. ASSUME NEW t \in ListThreads,
               \/ \E x \in Items, k \in Keys : InsertCall(t, x, k)
               \/ Walk(t) \/ PopCall(t) \/ CallReturn(t)
        PROVE  MutexInv'
    BY <1>1, <1>4 DEF InsertCall, Walk, PopCall, CallReturn, Move, MutexInv
  <1>5. ASSUME Api PROVE MutexInv'
    BY <1>1, <1>5, ApiIdle DEF MutexInv
  <1>6. ASSUME Stopped \/ UNCHANGED lvars PROVE MutexInv'
    BY <1>1, <1>6 DEF Stopped, lvars, MutexInv
  <1> QED
    BY <1>2, <1>3, <1>4, <1>5, <1>6 DEF ListNext, Api

LEMMA PlaceStep ==
  ASSUME ListIndInv, [ListNext]_lvars
  PROVE  PlaceInv'
  <1> DEFINE Place(u) ==
               /\ step[u] = "walk" =>
                    \E k \in 0 .. list.size :
                      /\ cursor[u] = IF k = 0 THEN NULL ELSE Row[k]
                      /\ \A i \in (k + 1) .. list.size : key[new_n[u]] < key[Row[i]]
               /\ step[u] = "popping" => cursor[u] = list.head
  <1>1. /\ key \in [Items -> Nat]
        /\ owner \in [Items -> {"free", "held", "queued", "popped"}]
        /\ step \in [ListThreads -> {"idle", "insert", "walk", "pop", "popping", "done"}]
        /\ new_n \in [ListThreads -> Items \cup {NULL}]
        /\ cursor \in [ListThreads -> Items \cup {NULL}]
        /\ NULL \notin Items /\ NULL \notin ListThreads
    BY ListAssumption DEF ListIndInv, TypeVars
  <1>2. /\ \A u \in ListThreads : step[u] \in {"walk", "popping"} => locked = u
        /\ \A u \in ListThreads : Place(u)
    BY DEF ListIndInv, MutexInv, PlaceInv
  <1>3. /\ list.size \in Nat
        /\ \A i \in 1 .. list.size : Row[i] \in Items /\ owner[Row[i]] = "queued"
        /\ list.size = 0 => list.head = NULL
        /\ list.size > 0 => list.head = Row[1] /\ list.tail = Row[list.size]
        /\ \A i \in 1 .. list.size : list.prev[Row[i]] = IF i = 1 THEN NULL ELSE Row[i - 1]
    BY RowFacts DEF ListIndInv
  <1>4. \A u \in ListThreads : step[u] = "walk" => new_n[u] \in Items /\ owner[new_n[u]] = "held"
    BY DEF ListIndInv, HandsInv
  \* A thread that does not move finds the same list and the same keys.
  <1>5. ASSUME NEW u \in ListThreads, list' = list, step'[u] = step[u], cursor'[u] = cursor[u],
               new_n'[u] = new_n[u],
               \A y \in Items : owner[y] # "free" => key'[y] = key[y]
        PROVE  Place(u)'
    <2>1. Row' = Row
      BY <1>5 DEF Row
    <2>2. CASE step[u] = "walk"
      <3>1. PICK k \in 0 .. list.size :
              /\ cursor[u] = IF k = 0 THEN NULL ELSE Row[k]
              /\ \A i \in (k + 1) .. list.size : key[new_n[u]] < key[Row[i]]
        BY <1>2, <2>2
      <3>2. key'[new_n[u]] = key[new_n[u]]
        BY <1>4, <1>5, <2>2
      <3>3. \A i \in (k + 1) .. list.size : key'[Row[i]] = key[Row[i]]
        <4>1. \A i \in (k + 1) .. list.size : i \in 1 .. list.size
          BY <1>3
        <4> QED
          BY <1>3, <1>5, <4>1
      <3> QED
        BY <1>5, <2>1, <2>2, <3>1, <3>2, <3>3
    <2>3. CASE step[u] # "walk"
      BY <1>2, <1>5, <2>3
    <2> QED
      BY <2>2, <2>3
  <1>6. ASSUME NEW t \in ListThreads, NEW x \in Items, NEW k \in Keys, InsertCall(t, x, k)
        PROVE  PlaceInv'
    <2>1. /\ list' = list /\ cursor' = cursor /\ owner[x] = "free" /\ step' = [step EXCEPT ![t] = "insert"]
          /\ key' = [key EXCEPT ![x] = k] /\ new_n' = [new_n EXCEPT ![t] = x]
      BY <1>6 DEF InsertCall, Move
    <2>2. \A y \in Items : owner[y] # "free" => key'[y] = key[y]
      BY <1>1, <2>1
    <2>3. \A u \in ListThreads \ {t} : Place(u)'
      <3>1. \A u \in ListThreads \ {t} : step'[u] = step[u] /\ new_n'[u] = new_n[u]
        BY <1>1, <2>1
      <3> QED
        BY <1>5, <2>1, <2>2, <3>1
    <2>4. Place(t)'
      BY <1>1, <2>1
    <2> QED
      BY <2>3, <2>4 DEF PlaceInv
  <1>7. ASSUME NEW t \in ListThreads, PopCall(t) \/ CallReturn(t) PROVE PlaceInv'
    <2>1. /\ list' = list /\ cursor' = cursor /\ key' = key
          /\ \A u \in ListThreads \ {t} : step'[u] = step[u] /\ new_n'[u] = new_n[u]
          /\ step'[t] \in {"pop", "idle"}
      BY <1>1, <1>7 DEF PopCall, CallReturn, Move
    <2>2. \A u \in ListThreads \ {t} : Place(u)'
      BY <1>5, <2>1
    <2>3. Place(t)'
      BY <2>1
    <2> QED
      BY <2>2, <2>3 DEF PlaceInv
  <1>8. ASSUME NEW t \in ListThreads, LockInsert(t) \/ LockPop(t) \/ Walk(t) PROVE PlaceInv'
    <2>1. /\ list' = list /\ key' = key /\ new_n' = new_n
          /\ \A u \in ListThreads \ {t} : step'[u] = step[u] /\ cursor'[u] = cursor[u]
      BY <1>1, <1>8 DEF LockInsert, LockPop, Walk, Move
    <2>2. \A u \in ListThreads \ {t} : Place(u)'
      BY <1>5, <2>1
    <2>3. Row' = Row
      BY <2>1 DEF Row
    <2>4. CASE LockInsert(t)
      <3>1. step'[t] = "walk" /\ cursor'[t] = IF list.size = 0 THEN NULL ELSE list.tail
        BY <1>1, <2>4 DEF LockInsert, Move
      <3>2. cursor'[t] = IF list.size = 0 THEN NULL ELSE Row[list.size]
        BY <1>3, <3>1
      <3>3. list.size \in 0 .. list.size /\ (list.size + 1) .. list.size = {}
        BY <1>3
      <3>4. Place(t)'
        BY <2>1, <2>3, <3>1, <3>2, <3>3
      <3> QED
        BY <2>2, <3>4 DEF PlaceInv
    <2>5. CASE LockPop(t)
      <3>1. Place(t)'
        BY <1>1, <2>1, <2>5 DEF LockPop, Move
      <3> QED
        BY <2>2, <3>1 DEF PlaceInv
    <2>6. CASE Walk(t)
      <3>1. /\ step[t] = "walk" /\ step' = step /\ cursor'[t] = list.prev[cursor[t]]
            /\ cursor[t] # NULL /\ key[new_n[t]] < key[cursor[t]]
        BY <1>1, <2>6 DEF Walk, At, Larger
      <3>2. PICK k \in 0 .. list.size :
              /\ cursor[t] = IF k = 0 THEN NULL ELSE Row[k]
              /\ \A i \in (k + 1) .. list.size : key[new_n[t]] < key[Row[i]]
        BY <1>2, <3>1
      <3>3. k \in 1 .. list.size /\ cursor[t] = Row[k]
        BY <1>3, <3>1, <3>2
      <3>4. cursor'[t] = IF k = 1 THEN NULL ELSE Row[k - 1]
        BY <1>3, <3>1, <3>3
      <3> DEFINE m == k - 1
      <3>5. m \in 0 .. list.size /\ cursor'[t] = IF m = 0 THEN NULL ELSE Row[m]
        BY <1>3, <3>3, <3>4
      <3>6. ASSUME NEW i \in (m + 1) .. list.size PROVE key[new_n[t]] < key[Row[i]]
        <4>1. i = k \/ i \in (k + 1) .. list.size
          BY <1>3, <3>3
        <4> QED
          BY <3>1, <3>2, <3>3, <4>1
      <3> HIDE DEF m
      <3>7. Place(t)'
        BY <2>1, <2>3, <3>1, <3>5, <3>6
      <3> QED
        BY <2>2, <3>7 DEF PlaceInv
    <2> QED
      BY <1>8, <2>4, <2>5, <2>6
  \* The thread that unlocks is the only one in a critical section.
  <1>9. ASSUME NEW t \in ListThreads, Link(t) \/ PopLink(t) PROVE PlaceInv'
    <2>1. locked = t /\ step' = [step EXCEPT ![t] = "done"]
      BY <1>2, <1>9 DEF Link, PopLink, At, Move
    <2>2. \A u \in ListThreads : step'[u] \notin {"walk", "popping"}
      BY <1>1, <1>2, <2>1
    <2> QED
      BY <2>2 DEF PlaceInv
  <1>10. ASSUME Api PROVE PlaceInv'
    <2>1. \A u \in ListThreads : step'[u] = "idle"
      BY <1>10, ApiIdle
    <2> QED
      BY <2>1 DEF PlaceInv
  <1>11. ASSUME Stopped \/ UNCHANGED lvars PROVE PlaceInv'
    <2>1. list' = list /\ step' = step /\ cursor' = cursor /\ new_n' = new_n /\ key' = key
      BY <1>11 DEF Stopped, lvars
    <2> QED
      BY <1>5, <2>1 DEF PlaceInv
  <1> HIDE DEF Place
  <1> QED
    BY <1>6, <1>7, <1>8, <1>9, <1>10, <1>11 DEF ListNext, Api

LEMMA SortedStep ==
  ASSUME ListIndInv, [ListNext]_lvars
  PROVE  SortedInv'
  <1> SUFFICES ASSUME ~unlocked'
               PROVE  \A i, m \in 1 .. list'.size : i < m => key'[Row'[i]] <= key'[Row'[m]]
    BY DEF SortedInv
  <1>1. /\ ~unlocked /\ unlocked' = unlocked
        /\ \A y \in Items : owner[y] # "free" => key'[y] = key[y]
    BY RowKinds
  <1>2. /\ list.size \in Nat
        /\ \A i \in 1 .. list.size : Row[i] \in Items /\ owner[Row[i]] = "queued"
    BY RowFacts DEF ListIndInv
  <1>3. /\ \A i \in 1 .. list.size : key'[Row[i]] = key[Row[i]] /\ key[Row[i]] \in Nat
        /\ \A i, m \in 1 .. list.size : i < m => key[Row[i]] <= key[Row[m]]
    BY <1>1, <1>2 DEF ListIndInv, TypeVars, SortedInv
  <1>4. CASE Same
    <2>1. list' = list /\ Row' = Row
      BY <1>4 DEF Same, Row
    <2> QED
      BY <1>3, <2>1
  <1>5. ASSUME NEW k \in 0 .. list.size, NEW x \in Items, Adds(k, x)
        PROVE  \A i, m \in 1 .. list'.size : i < m => key'[Row'[i]] <= key'[Row'[m]]
    <2>1. /\ list'.size = list.size + 1
          /\ \A i \in 1 .. k : Row'[i] = Row[i]
          /\ Row'[k + 1] = x
          /\ \A i \in (k + 1) .. list.size : Row'[i + 1] = Row[i]
      BY <1>5, AddsRow
    <2>2. /\ key'[x] = key[x] /\ key[x] \in Nat
          /\ \A i \in 1 .. k : key[Row[i]] <= key[x]
          /\ \A i \in (k + 1) .. list.size : key[x] < key[Row[i]]
      BY <1>1, <1>5 DEF Adds, ListIndInv, TypeVars
    <2> SUFFICES ASSUME NEW i \in 1 .. (list.size + 1), NEW m \in 1 .. (list.size + 1), i < m
                 PROVE  key'[Row'[i]] <= key'[Row'[m]]
      BY <2>1
    <2>3. CASE m <= k
      <3>1. i \in 1 .. k /\ m \in 1 .. k /\ i \in 1 .. list.size /\ m \in 1 .. list.size
        BY <1>2, <2>3
      <3> QED
        BY <1>3, <2>1, <3>1
    <2>4. CASE m = k + 1
      <3>1. i \in 1 .. k /\ i \in 1 .. list.size
        BY <1>2, <2>4
      <3> QED
        BY <1>3, <2>1, <2>2, <2>4, <3>1
    <2>5. CASE m > k + 1
      <3>1. PICK p \in (k + 1) .. list.size : m = p + 1
        <4>1. m - 1 \in (k + 1) .. list.size /\ m = (m - 1) + 1
          BY <1>2, <2>5
        <4> QED
          BY <4>1
      <3>2. p \in 1 .. list.size /\ Row'[m] = Row[p] /\ key'[Row'[m]] = key[Row[p]]
        BY <1>2, <1>3, <2>1, <3>1
      <3>3. CASE i <= k
        <4>1. i \in 1 .. k /\ i \in 1 .. list.size /\ i < p
          BY <1>2, <3>1, <3>3
        <4> QED
          BY <1>3, <2>1, <3>2, <4>1
      <3>4. CASE i = k + 1
        BY <1>3, <2>1, <2>2, <3>1, <3>2, <3>4
      <3>5. CASE i > k + 1
        <4>1. PICK q \in (k + 1) .. list.size : i = q + 1
          <5>1. i - 1 \in (k + 1) .. list.size /\ i = (i - 1) + 1
            BY <1>2, <3>5
          <5> QED
            BY <5>1
        <4>2. q \in 1 .. list.size /\ Row'[i] = Row[q] /\ q < p
          BY <1>2, <2>1, <3>1, <4>1
        <4> QED
          BY <1>3, <3>2, <4>2
      <3> QED
        BY <3>3, <3>4, <3>5
    <2> QED
      BY <2>3, <2>4, <2>5
  <1>6. ASSUME NEW k \in 1 .. list.size, Removes(k)
        PROVE  \A i, m \in 1 .. list'.size : i < m => key'[Row'[i]] <= key'[Row'[m]]
    <2>1. /\ list'.size = list.size - 1
          /\ \A i \in 1 .. (k - 1) : Row'[i] = Row[i]
          /\ \A i \in k .. (list.size - 1) : Row'[i] = Row[i + 1]
      BY <1>6, RemovesRow
    <2> SUFFICES ASSUME NEW i \in 1 .. (list.size - 1), NEW m \in 1 .. (list.size - 1), i < m
                 PROVE  key'[Row'[i]] <= key'[Row'[m]]
      BY <2>1
    <2>2. PICK p \in 1 .. list.size : Row'[i] = Row[p] /\ p = IF i < k THEN i ELSE i + 1
      <3>1. i < k => i \in 1 .. (k - 1) /\ i \in 1 .. list.size
        BY <1>2
      <3>2. ~ (i < k) => i \in k .. (list.size - 1) /\ i + 1 \in 1 .. list.size
        BY <1>2
      <3> QED
        BY <2>1, <3>1, <3>2
    <2>3. PICK q \in 1 .. list.size : Row'[m] = Row[q] /\ q = IF m < k THEN m ELSE m + 1
      <3>1. m < k => m \in 1 .. (k - 1) /\ m \in 1 .. list.size
        BY <1>2
      <3>2. ~ (m < k) => m \in k .. (list.size - 1) /\ m + 1 \in 1 .. list.size
        BY <1>2
      <3> QED
        BY <2>1, <3>1, <3>2
    <2>4. p < q
      BY <1>2, <2>2, <2>3
    <2> QED
      BY <1>3, <2>2, <2>3, <2>4
  <1>7. ASSUME NEW n \in 0 .. list.size, Cuts(n) PROVE FALSE
    BY <1>1, <1>7 DEF Cuts
  <1> QED
    BY <1>4, <1>5, <1>6, <1>7, RowKinds

-----------------------------------------------------------------------------
\* ListIndInv is an invariant, whatever the threads, the nodes and the keys:
\* the lock excludes, and the links spell the queued nodes (list.c).
THEOREM ListInvariance == ListSpec => []ListIndInv
  <1>1. ListInit => ListIndInv
    BY InitInv
  <1>2. ListIndInv /\ [ListNext]_lvars => ListIndInv'
    BY TypeStep, RowStep, HandsStep, MutexStep, PlaceStep, SortedStep DEF ListIndInv
  <1> QED
    BY <1>1, <1>2, PTL DEF ListSpec

\* The type invariant, and in it the mutual exclusion of the critical sections.
THEOREM ListTypeCorrect == ListSpec => []ListTypeOK
  <1>1. ListIndInv => ListTypeOK
    BY DEF ListIndInv, TypeVars, MutexInv, ListTypeOK, Lists
  <1> QED
    BY <1>1, ListInvariance, PTL

\* The list read from head and the list read from tail are the queued nodes.
THEOREM ListWellFormed == ListSpec => []ListShape
  <1>1. ASSUME ListIndInv PROVE ListShape
    <2>1. /\ list.size \in Nat
          /\ \A i \in 1 .. list.size : Row[i] \in Items /\ owner[Row[i]] = "queued"
          /\ \A i, m \in 1 .. list.size : Row[i] = Row[m] => i = m
          /\ \A i \in 1 .. list.size : list.prev[Row[i]] = IF i = 1 THEN NULL ELSE Row[i - 1]
          /\ list.size = 0 => list.head = NULL
          /\ list.size > 0 => list.tail = Row[list.size]
      BY <1>1, RowFacts DEF ListIndInv
    <2>2. list.size > 0 => list.next[Row[list.size]] = NULL
      BY <1>1 DEF ListIndInv, RowInv, Laid, Spells
    <2>3. {Row[i] : i \in 1 .. list.size} = {x \in Items : owner[x] = "queued"}
      BY <1>1, <2>1 DEF ListIndInv, RowInv
    <2>4. list.size > 0 => list.prev[Row[1]] = NULL
      <3>1. list.size > 0 => 1 \in 1 .. list.size
        BY <2>1
      <3> QED
        BY <2>1, <3>1
    <2>5. \A i \in 2 .. list.size : list.prev[Row[i]] = Row[i - 1]
      <3>1. \A i \in 2 .. list.size : i \in 1 .. list.size /\ i # 1
        BY <2>1
      <3> QED
        BY <2>1, <3>1
    <2> QED
      BY <2>1, <2>2, <2>3, <2>4, <2>5 DEF ListShape, Row
  <1> QED
    BY <1>1, ListInvariance, PTL

\* A node that joins or leaves moves no other past its neighbours.
LEMMA OrderStep ==
  ASSUME ListIndInv, [ListNext]_lvars, ~unlocked,
         NEW i \in 1 .. list.size, NEW m \in 1 .. list.size, i < m,
         NEW a \in 1 .. list'.size, NEW b \in 1 .. list'.size,
         Row[i] = Row'[a], Row[m] = Row'[b]
  PROVE  a < b
  <1>1. /\ list.size \in Nat
        /\ \A p \in 1 .. list.size : Row[p] \in Items /\ owner[Row[p]] = "queued"
        /\ \A p, q \in 1 .. list.size : Row[p] = Row[q] => p = q
    BY RowFacts DEF ListIndInv
  <1>2. CASE Same
    <2>1. list' = list /\ Row' = Row
      BY <1>2 DEF Same, Row
    <2> QED
      BY <1>1, <2>1
  <1>3. ASSUME NEW k \in 0 .. list.size, NEW x \in Items, Adds(k, x) PROVE a < b
    <2>1. /\ list'.size = list.size + 1
          /\ \A p \in 1 .. k : Row'[p] = Row[p]
          /\ Row'[k + 1] = x
          /\ \A p \in (k + 1) .. list.size : Row'[p + 1] = Row[p]
      BY <1>3, AddsRow
    <2>2. Row[i] # x /\ Row[m] # x
      BY <1>1, <1>3 DEF Adds
    <2>3. a = IF i <= k THEN i ELSE i + 1
      <3>1. CASE a <= k
        <4>1. a \in 1 .. k /\ a \in 1 .. list.size
          BY <1>1, <3>1
        <4> QED
          BY <1>1, <2>1, <3>1, <4>1
      <3>2. CASE a = k + 1
        BY <2>1, <2>2, <3>2
      <3>3. CASE a > k + 1
        <4>1. a - 1 \in (k + 1) .. list.size /\ a = (a - 1) + 1
          BY <1>1, <2>1, <3>3
        <4>2. Row'[a] = Row[a - 1] /\ a - 1 \in 1 .. list.size
          BY <2>1, <4>1
        <4> QED
          BY <1>1, <3>3, <4>1, <4>2
      <3> QED
        BY <1>1, <2>1, <3>1, <3>2, <3>3
    <2>4. b = IF m <= k THEN m ELSE m + 1
      <3>1. CASE b <= k
        <4>1. b \in 1 .. k /\ b \in 1 .. list.size
          BY <1>1, <3>1
        <4> QED
          BY <1>1, <2>1, <3>1, <4>1
      <3>2. CASE b = k + 1
        BY <2>1, <2>2, <3>2
      <3>3. CASE b > k + 1
        <4>1. b - 1 \in (k + 1) .. list.size /\ b = (b - 1) + 1
          BY <1>1, <2>1, <3>3
        <4>2. Row'[b] = Row[b - 1] /\ b - 1 \in 1 .. list.size
          BY <2>1, <4>1
        <4> QED
          BY <1>1, <3>3, <4>1, <4>2
      <3> QED
        BY <1>1, <2>1, <3>1, <3>2, <3>3
    <2> QED
      BY <1>1, <2>3, <2>4
  <1>4. ASSUME NEW k \in 1 .. list.size, Removes(k) PROVE a < b
    <2>1. /\ list'.size = list.size - 1
          /\ \A p \in 1 .. (k - 1) : Row'[p] = Row[p]
          /\ \A p \in k .. (list.size - 1) : Row'[p] = Row[p + 1]
      BY <1>4, RemovesRow
    <2>2. i = IF a < k THEN a ELSE a + 1
      <3>1. a < k => a \in 1 .. (k - 1) /\ a \in 1 .. list.size
        BY <1>1
      <3>2. ~ (a < k) => a \in k .. (list.size - 1) /\ a + 1 \in 1 .. list.size
        BY <1>1, <2>1
      <3> QED
        BY <1>1, <2>1, <3>1, <3>2
    <2>3. m = IF b < k THEN b ELSE b + 1
      <3>1. b < k => b \in 1 .. (k - 1) /\ b \in 1 .. list.size
        BY <1>1
      <3>2. ~ (b < k) => b \in k .. (list.size - 1) /\ b + 1 \in 1 .. list.size
        BY <1>1, <2>1
      <3> QED
        BY <1>1, <2>1, <3>1, <3>2
    <2> QED
      BY <1>1, <2>1, <2>2, <2>3
  <1>5. ASSUME NEW n \in 0 .. list.size, Cuts(n) PROVE FALSE
    BY <1>5 DEF Cuts
  <1> QED
    BY <1>2, <1>3, <1>4, <1>5, RowKinds

\* The new node comes behind every key that is not larger.
LEMMA BehindStep ==
  ASSUME ListIndInv, [ListNext]_lvars, ~unlocked,
         NEW a \in 1 .. list'.size, NEW b \in 1 .. list'.size, a < b,
         owner[Row'[a]] = "held"
  PROVE  key'[Row'[b]] > key'[Row'[a]]
  <1>1. /\ list.size \in Nat
        /\ \A p \in 1 .. list.size : Row[p] \in Items /\ owner[Row[p]] = "queued"
        /\ \A y \in Items : owner[y] # "free" => key'[y] = key[y]
    BY RowFacts, RowKinds DEF ListIndInv
  <1>2. CASE Same
    <2>1. list' = list /\ Row' = Row
      BY <1>2 DEF Same, Row
    <2> QED
      BY <1>1, <2>1
  <1>3. ASSUME NEW k \in 0 .. list.size, NEW x \in Items, Adds(k, x)
        PROVE  key'[Row'[b]] > key'[Row'[a]]
    <2>1. /\ list'.size = list.size + 1
          /\ \A p \in 1 .. k : Row'[p] = Row[p]
          /\ Row'[k + 1] = x
          /\ \A p \in (k + 1) .. list.size : Row'[p + 1] = Row[p]
      BY <1>3, AddsRow
    <2>2. /\ key'[x] = key[x] /\ key[x] \in Nat
          /\ \A p \in (k + 1) .. list.size : key[x] < key[Row[p]] /\ key[Row[p]] \in Nat
      <3>1. \A p \in (k + 1) .. list.size : p \in 1 .. list.size
        BY <1>1
      <3> QED
        BY <1>1, <1>3, <3>1 DEF Adds, ListIndInv, TypeVars
    <2>3. a = k + 1
      <3>1. a <= k => a \in 1 .. k /\ a \in 1 .. list.size
        BY <1>1
      <3>2. a > k + 1 => a - 1 \in (k + 1) .. list.size /\ (a - 1) + 1 = a /\ a - 1 \in 1 .. list.size
        BY <1>1, <2>1
      <3>3. ~ (a <= k)
        BY <1>1, <2>1, <3>1
      <3>4. ~ (a > k + 1)
        BY <1>1, <2>1, <3>2
      <3> QED
        BY <1>1, <2>1, <3>3, <3>4
    <2>4. PICK p \in (k + 1) .. list.size : b = p + 1
      <3>1. b - 1 \in (k + 1) .. list.size /\ b = (b - 1) + 1
        BY <1>1, <2>1, <2>3
      <3> QED
        BY <3>1
    <2>5. Row'[b] = Row[p] /\ p \in 1 .. list.size /\ key'[Row[p]] = key[Row[p]]
      BY <1>1, <2>1, <2>4
    <2> QED
      BY <2>1, <2>2, <2>3, <2>5
  <1>4. ASSUME NEW k \in 1 .. list.size, Removes(k) PROVE FALSE
    <2>1. /\ list'.size = list.size - 1
          /\ \A p \in 1 .. (k - 1) : Row'[p] = Row[p]
          /\ \A p \in k .. (list.size - 1) : Row'[p] = Row[p + 1]
      BY <1>4, RemovesRow
    <2>2. a < k => a \in 1 .. (k - 1) /\ a \in 1 .. list.size
      BY <1>1
    <2>3. ~ (a < k) => a \in k .. (list.size - 1) /\ a + 1 \in 1 .. list.size
      BY <1>1, <2>1
    <2> QED
      BY <1>1, <2>1, <2>2, <2>3
  <1>5. ASSUME NEW n \in 0 .. list.size, Cuts(n) PROVE FALSE
    BY <1>5 DEF Cuts
  <1> QED
    BY <1>2, <1>3, <1>4, <1>5, RowKinds

\* Where process() uses the list, a step keeps it sorted and keeps the order of
\* the nodes that stay; equal timestamps leave first in, first out.
THEOREM ListKeepsOrder == ListSpec => ListStable
  <1>1. ASSUME ListIndInv, [ListNext]_lvars, ~unlocked
        PROVE  /\ \A i, m \in 1 .. list.size, a, b \in 1 .. list'.size :
                    /\ i < m
                    /\ Chain(list)[i] = Chain(list')[a]
                    /\ Chain(list)[m] = Chain(list')[b]
                    => a < b
               /\ \A a, b \in 1 .. list'.size :
                    a < b /\ owner[Chain(list')[a]] = "held" => key'[Chain(list')[b]] > key'[Chain(list')[a]]
               /\ \A a, b \in 1 .. list'.size :
                    a < b => key'[Chain(list')[a]] <= key'[Chain(list')[b]]
    <2>1. Chain(list) = Row /\ Chain(list') = Row'
      BY DEF Row
    <2>2. \A i, m \in 1 .. list.size, a, b \in 1 .. list'.size :
            i < m /\ Row[i] = Row'[a] /\ Row[m] = Row'[b] => a < b
      BY <1>1, OrderStep
    <2>3. \A a, b \in 1 .. list'.size :
            a < b /\ owner[Row'[a]] = "held" => key'[Row'[b]] > key'[Row'[a]]
      BY <1>1, BehindStep
    <2>4. \A a, b \in 1 .. list'.size : a < b => key'[Row'[a]] <= key'[Row'[b]]
      <3>1. SortedInv' /\ ~unlocked'
        BY <1>1, SortedStep, RowKinds
      <3> QED
        BY <3>1 DEF SortedInv
    <2> QED
      BY <2>1, <2>2, <2>3, <2>4
  <1> QED
    BY <1>1, ListInvariance, PTL DEF ListSpec, ListStable

-----------------------------------------------------------------------------
\* The list as a pool.

\* The queued nodes with the key k.
Queued(k) == {x \in Items : owner[x] = "queued" /\ key[x] = k}

\* The variables of the pool.
PoolNow == [k \in Keys |-> IF unlocked THEN 0 ELSE Cardinality(Queued(k))]
OpNow ==
  [t \in ListThreads |->
     CASE step[t] \in {"insert", "walk"} -> "put"
       [] step[t] \in {"pop", "popping"} -> "get"
       [] OTHER -> step[t]]
ValueNow == [t \in ListThreads |-> IF new_n[t] = NULL THEN Empty ELSE key[new_n[t]]]

\* No call and no return: the pool stutters.
Still == PoolNow' = PoolNow /\ OpNow' = OpNow /\ ValueNow' = ValueNow

LEMMA PoolFacts ==
  ASSUME ListIndInv
  PROVE  /\ \A k \in Keys : IsFiniteSet(Queued(k)) /\ Cardinality(Queued(k)) \in Nat
         /\ \A k \in Keys : Cardinality(Queued(k)) = 0 <=> Queued(k) = {}
         /\ OpNow = [t \in ListThreads |-> OpNow[t]]
         /\ ValueNow = [t \in ListThreads |-> ValueNow[t]]
         /\ \A t \in ListThreads : new_n[t] = NULL => ValueNow[t] = Empty
         /\ \A t \in ListThreads : step[t] = "idle" => OpNow[t] = "idle"
         /\ \A t \in ListThreads : step[t] = "done" => OpNow[t] = "done"
         /\ \A t \in ListThreads : step[t] \in {"insert", "walk"} => OpNow[t] = "put"
         /\ \A t \in ListThreads : step[t] \in {"pop", "popping"} => OpNow[t] = "get"
  <1>1. ASSUME NEW k \in Keys
        PROVE  /\ IsFiniteSet(Queued(k)) /\ Cardinality(Queued(k)) \in Nat
               /\ Cardinality(Queued(k)) = 0 <=> Queued(k) = {}
    <2>1. IsFiniteSet(Queued(k))
      <3>1. Queued(k) \in SUBSET Items /\ IsFiniteSet(Items)
        BY ListAssumption DEF Queued
      <3> QED
        BY <3>1, FS_Subset
    <2> QED
      BY <2>1, FS_EmptySet, FS_CardinalityType
  <1>2. /\ OpNow = [t \in ListThreads |-> OpNow[t]]
        /\ ValueNow = [t \in ListThreads |-> ValueNow[t]]
    BY DEF OpNow, ValueNow
  <1>3. /\ \A t \in ListThreads : new_n[t] = NULL => ValueNow[t] = Empty
        /\ \A t \in ListThreads : step[t] = "idle" => OpNow[t] = "idle"
        /\ \A t \in ListThreads : step[t] = "done" => OpNow[t] = "done"
        /\ \A t \in ListThreads : step[t] \in {"insert", "walk"} => OpNow[t] = "put"
        /\ \A t \in ListThreads : step[t] \in {"pop", "popping"} => OpNow[t] = "get"
    BY DEF OpNow, ValueNow
  <1> QED
    BY <1>1, <1>2, <1>3

\* A step that changes neither the queued nodes nor their keys keeps the pool.
LEMMA PoolSame ==
  ASSUME \A k \in Keys : Queued(k)' = Queued(k), unlocked' = unlocked
  PROVE  PoolNow' = PoolNow
  BY DEF PoolNow

LEMMA PoolInit ==
  ASSUME ListInit
  PROVE  ListPool!Init
  <1>1. \A k \in Keys : {x \in Items : owner[x] = "queued" /\ key[x] = k} = {}
    BY DEF ListInit
  <1>2. Cardinality({}) = 0
    BY FS_EmptySet
  <1>3. \A t \in ListThreads : step[t] = "idle" /\ new_n[t] = NULL
    BY DEF ListInit
  <1> QED
    BY <1>1, <1>2, <1>3 DEF ListPool!Init

\* Each locked step is a step of the pool or none.
LEMMA PoolInsertCall ==
  ASSUME ListIndInv, NEW t \in ListThreads, NEW x \in Items, NEW k \in Keys, InsertCall(t, x, k)
  PROVE  ListPool!CallPut(t, k)
  <1>1. /\ ~unlocked /\ unlocked' = unlocked /\ owner[x] = "free" /\ step[t] = "idle"
        /\ owner' = [owner EXCEPT ![x] = "held"] /\ key' = [key EXCEPT ![x] = k]
        /\ new_n' = [new_n EXCEPT ![t] = x] /\ step' = [step EXCEPT ![t] = "insert"]
    BY DEF InsertCall, At, Move
  <1>2. /\ key \in [Items -> Nat] /\ owner \in [Items -> {"free", "held", "queued", "popped"}]
        /\ step \in [ListThreads -> {"idle", "insert", "walk", "pop", "popping", "done"}]
        /\ new_n \in [ListThreads -> Items \cup {NULL}] /\ NULL \notin Items
        /\ \A u \in ListThreads : new_n[u] # NULL => owner[new_n[u]] # "free"
    BY ListAssumption DEF ListIndInv, TypeVars, HandsInv
  <1>3. PoolNow' = PoolNow
    <2>1. \A y \in Items : owner'[y] = "queued" <=> owner[y] = "queued"
      BY <1>1, <1>2
    <2>2. \A y \in Items : owner[y] = "queued" => key'[y] = key[y]
      BY <1>1, <1>2
    <2>3. \A j \in Keys : Queued(j)' = Queued(j)
      BY <2>1, <2>2 DEF Queued
    <2> QED
      BY <1>1, <2>3, PoolSame
  <1>4. OpNow[t] = "idle" /\ OpNow' = [OpNow EXCEPT ![t] = "put"]
    BY <1>1, <1>2 DEF OpNow
  <1>5. ValueNow' = [ValueNow EXCEPT ![t] = k]
    <2>1. \A u \in ListThreads \ {t} : new_n'[u] = new_n[u] /\ new_n[u] # x
      BY <1>1, <1>2
    <2>2. \A u \in ListThreads \ {t} : ValueNow'[u] = ValueNow[u]
      BY <1>1, <1>2, <2>1 DEF ValueNow
    <2>3. ValueNow'[t] = k
      BY <1>1, <1>2 DEF ValueNow
    <2> QED
      BY <2>2, <2>3 DEF ValueNow
  <1> QED
    BY <1>3, <1>4, <1>5 DEF ListPool!CallPut, ListPool!Become, PoolNow, OpNow, ValueNow, Queued

\* LockInsert, Walk and LockPop do not show, nor does the interface that the
\* program does not use while it uses the list.
LEMMA PoolStill ==
  ASSUME ListIndInv,
         \/ \E t \in ListThreads : LockInsert(t) \/ Walk(t) \/ LockPop(t)
         \/ Api \/ Stopped \/ UNCHANGED lvars
  PROVE  UNCHANGED ListPool!vars
  <1>1. step \in [ListThreads -> {"idle", "insert", "walk", "pop", "popping", "done"}]
    BY DEF ListIndInv, TypeVars
  <1>2. ASSUME NEW t \in ListThreads, LockInsert(t) \/ Walk(t) \/ LockPop(t) PROVE Still
    <2>1. /\ unlocked' = unlocked /\ owner' = owner /\ key' = key /\ new_n' = new_n
          /\ \/ step' = step
             \/ step[t] = "insert" /\ step' = [step EXCEPT ![t] = "walk"]
             \/ step[t] = "pop" /\ step' = [step EXCEPT ![t] = "popping"]
      BY <1>2 DEF LockInsert, Walk, LockPop, At, Move
    <2>2. PoolNow' = PoolNow /\ ValueNow' = ValueNow
      BY <2>1 DEF PoolNow, Queued, ValueNow
    <2>3. OpNow' = OpNow
      BY <1>1, <2>1 DEF OpNow
    <2> QED
      BY <2>2, <2>3 DEF Still
  <1>3. ASSUME Api PROVE Still
    <2>1. /\ unlocked /\ unlocked' = unlocked /\ step' = step /\ new_n' = new_n
          /\ \A u \in ListThreads : new_n[u] = NULL
      BY <1>3, ApiIdle
    <2>2. PoolNow' = PoolNow
      BY <2>1 DEF PoolNow
    <2> QED
      BY <2>1, <2>2 DEF Still, OpNow, ValueNow
  <1>4. ASSUME Stopped \/ UNCHANGED lvars PROVE Still
    BY <1>4 DEF Stopped, lvars, Still, PoolNow, Queued, OpNow, ValueNow
  <1>5. Still
    BY <1>2, <1>3, <1>4
  <1> QED
    BY <1>5 DEF Still, ListPool!vars, PoolNow, Queued, OpNow, ValueNow

\* Link puts the new node in the pool.
LEMMA PoolLink ==
  ASSUME ListIndInv, NEW t \in ListThreads, Link(t)
  PROVE  ListPool!Put(t)
  <1> DEFINE x == new_n[t]
  <1>1. /\ ~unlocked /\ unlocked' = unlocked /\ step[t] = "walk" /\ key' = key
        /\ owner' = [owner EXCEPT ![x] = "queued"]
        /\ new_n' = [new_n EXCEPT ![t] = NULL] /\ step' = [step EXCEPT ![t] = "done"]
    BY DEF Link, At, Move
  <1>2. /\ owner \in [Items -> {"free", "held", "queued", "popped"}]
        /\ step \in [ListThreads -> {"idle", "insert", "walk", "pop", "popping", "done"}]
        /\ new_n \in [ListThreads -> Items \cup {NULL}] /\ NULL \notin Items
        /\ x \in Items /\ owner[x] = "held" /\ key[x] \in Keys
    BY <1>1, ListAssumption DEF ListIndInv, TypeVars, HandsInv
  <1>3. OpNow[t] = "put" /\ OpNow' = [OpNow EXCEPT ![t] = "done"]
    BY <1>1, <1>2 DEF OpNow
  <1>4. ValueNow[t] = key[x] /\ ValueNow' = [ValueNow EXCEPT ![t] = Empty]
    BY <1>1, <1>2 DEF ValueNow
  <1> HIDE DEF x
  <1>5. PoolNow' = [PoolNow EXCEPT ![ValueNow[t]] = @ + 1]
    <2>1. ASSUME NEW k \in Keys
          PROVE  PoolNow'[k] = IF k = key[x] THEN PoolNow[k] + 1 ELSE PoolNow[k]
      <3>1. PoolNow'[k] = Cardinality(Queued(k)') /\ PoolNow[k] = Cardinality(Queued(k))
        BY <1>1 DEF PoolNow
      <3>2. CASE k = key[x]
        <4>1. Queued(k)' = Queued(k) \cup {x} /\ x \notin Queued(k)
          BY <1>1, <1>2, <3>2 DEF Queued
        <4>2. IsFiniteSet(Queued(k))
          BY PoolFacts
        <4>3. Cardinality(Queued(k) \cup {x}) = Cardinality(Queued(k)) + 1
          BY <4>1, <4>2, FS_AddElement
        <4> QED
          BY <3>1, <3>2, <4>1, <4>3
      <3>3. CASE k # key[x]
        <4>1. Queued(k)' = Queued(k)
          BY <1>1, <1>2, <3>3 DEF Queued
        <4> QED
          BY <3>1, <3>3, <4>1
      <3> QED
        BY <3>2, <3>3
    <2>2. PoolNow = [k \in Keys |-> PoolNow[k]] /\ PoolNow' = [k \in Keys |-> PoolNow'[k]]
      BY DEF PoolNow
    <2> QED
      BY <1>2, <1>4, <2>1, <2>2
  <1> QED
    BY <1>3, <1>4, <1>5 DEF ListPool!Put, ListPool!Become, PoolNow, OpNow, ValueNow, Queued

LEMMA PoolCallReturn ==
  ASSUME ListIndInv, NEW t \in ListThreads
  PROVE  /\ PopCall(t) => ListPool!CallGet(t)
         /\ CallReturn(t) => ListPool!Return(t)
  <1>1. /\ owner \in [Items -> {"free", "held", "queued", "popped"}]
        /\ step \in [ListThreads -> {"idle", "insert", "walk", "pop", "popping", "done"}]
        /\ new_n \in [ListThreads -> Items \cup {NULL}] /\ NULL \notin Items
        /\ step[t] = "idle" => new_n[t] = NULL
        /\ step[t] = "done" /\ new_n[t] # NULL => owner[new_n[t]] = "popped"
    BY ListAssumption DEF ListIndInv, TypeVars, HandsInv
  <1>2. ASSUME PopCall(t) PROVE ListPool!CallGet(t)
    <2>1. /\ step[t] = "idle" /\ step' = [step EXCEPT ![t] = "pop"]
          /\ unlocked' = unlocked /\ owner' = owner /\ key' = key /\ new_n' = new_n
      BY <1>2 DEF PopCall, At, Move
    <2>2. PoolNow' = PoolNow
      BY <2>1 DEF PoolNow, Queued
    <2>3. OpNow[t] = "idle" /\ OpNow' = [OpNow EXCEPT ![t] = "get"]
      BY <1>1, <2>1 DEF OpNow
    <2>4. ValueNow' = [ValueNow EXCEPT ![t] = Empty]
      BY <1>1, <2>1 DEF ValueNow
    <2> QED
      BY <2>2, <2>3, <2>4 DEF ListPool!CallGet, ListPool!Become, PoolNow, OpNow, ValueNow, Queued
  <1>3. ASSUME CallReturn(t) PROVE ListPool!Return(t)
    <2>1. /\ step[t] = "done" /\ step' = [step EXCEPT ![t] = "idle"]
          /\ unlocked' = unlocked /\ key' = key /\ new_n' = [new_n EXCEPT ![t] = NULL]
          /\ owner' = [x \in Items |-> IF x = new_n[t] THEN "free" ELSE owner[x]]
      BY <1>3 DEF CallReturn, At, Move
    <2>2. \A y \in Items : owner'[y] = "queued" <=> owner[y] = "queued"
      BY <1>1, <2>1
    <2>3. \A k \in Keys : Queued(k)' = Queued(k)
      BY <2>1, <2>2 DEF Queued
    <2>4. PoolNow' = PoolNow
      BY <2>1, <2>3, PoolSame
    <2>5. OpNow[t] = "done" /\ OpNow' = [OpNow EXCEPT ![t] = "idle"]
      BY <1>1, <2>1 DEF OpNow
    <2>6. ValueNow' = [ValueNow EXCEPT ![t] = Empty]
      BY <1>1, <2>1 DEF ValueNow
    <2> QED
      BY <2>4, <2>5, <2>6 DEF ListPool!Return, ListPool!Become, PoolNow, OpNow, ValueNow, Queued
  <1> QED
    BY <1>2, <1>3

\* PopLink gets a smallest key, or finds the pool empty.
LEMMA PoolPopLink ==
  ASSUME ListIndInv, NEW t \in ListThreads, PopLink(t)
  PROVE  ListPool!Get(t)
  <1> DEFINE x == cursor[t]
  <1>1. /\ ~unlocked /\ unlocked' = unlocked /\ step[t] = "popping" /\ key' = key
        /\ new_n' = [new_n EXCEPT ![t] = x] /\ step' = [step EXCEPT ![t] = "done"]
    BY DEF PopLink, At, Move
  <1>2. /\ owner \in [Items -> {"free", "held", "queued", "popped"}] /\ key \in [Items -> Nat]
        /\ step \in [ListThreads -> {"idle", "insert", "walk", "pop", "popping", "done"}]
        /\ new_n \in [ListThreads -> Items \cup {NULL}] /\ NULL \notin Items
        /\ \A y \in Items : owner[y] # "free" => key[y] \in Keys
        /\ \A y \in Items : owner[y] = "queued" <=> \E i \in 1 .. list.size : Row[i] = y
        /\ \A i, m \in 1 .. list.size : i < m => key[Row[i]] <= key[Row[m]]
    BY <1>1, ListAssumption DEF ListIndInv, TypeVars, HandsInv, RowInv, SortedInv
  <1>3. OpNow[t] = "get" /\ OpNow' = [OpNow EXCEPT ![t] = "done"]
    BY <1>1, <1>2 DEF OpNow
  <1>4. list.size \in Nat
    BY RowFacts DEF ListIndInv
  <1>5. PoolNow = [k \in Keys |-> Cardinality(Queued(k))] /\ PoolNow' = [k \in Keys |-> Cardinality(Queued(k)')]
    BY <1>1 DEF PoolNow
  <1>6. CASE x = NULL
    <2>1. list.size = 0 /\ owner' = owner
      BY <1>6, PopRemoves DEF PopLink
    <2>2. \A k \in Keys : Queued(k) = {} /\ Queued(k)' = {}
      BY <1>2, <2>1 DEF Queued
    <2>3. (\A k \in Keys : PoolNow[k] = 0) /\ PoolNow' = PoolNow
      BY <1>5, <2>2, FS_EmptySet
    <2>4. ValueNow' = [ValueNow EXCEPT ![t] = Empty]
      BY <1>1, <1>2, <1>6 DEF ValueNow
    <2> QED
      BY <1>3, <2>3, <2>4 DEF ListPool!Get, ListPool!Become, PoolNow, OpNow, ValueNow, Queued
  <1>7. CASE x # NULL
    <2>1. x = Row[1] /\ 1 \in 1 .. list.size /\ owner' = [owner EXCEPT ![x] = "popped"]
      BY <1>7, PopRemoves DEF PopLink, Removes
    <2>2. x \in Items /\ owner[x] = "queued"
      BY <2>1, RowFacts DEF ListIndInv
    <2> DEFINE k == key[x]
    <2>3. k \in Keys /\ x \in Queued(k)
      BY <1>2, <2>2 DEF Queued
    <2>4. \A j \in Keys : IsFiniteSet(Queued(j)) /\ Cardinality(Queued(j)) \in Nat
      BY PoolFacts
    <2>5. PoolNow[k] > 0
      <3>1. Cardinality(Queued(k)) # 0
        BY <2>3, PoolFacts
      <3> QED
        BY <1>5, <2>3, <2>4, <3>1
    <2>6. ASSUME NEW j \in Keys, PoolNow[j] > 0 PROVE k <= j
      <3>1. Queued(j) # {}
        <4>1. Cardinality(Queued(j)) > 0 /\ Cardinality(Queued(j)) \in Nat
          BY <1>5, <2>4, <2>6
        <4> QED
          BY <4>1, PoolFacts
      <3>2. PICK y \in Items : owner[y] = "queued" /\ key[y] = j
        BY <3>1 DEF Queued
      <3>3. PICK i \in 1 .. list.size : Row[i] = y
        BY <1>2, <3>2
      <3> QED
        BY <1>2, <1>4, <2>1, <2>2, <3>2, <3>3
    <2>7. PoolNow' = [PoolNow EXCEPT ![k] = @ - 1]
      <3>1. ASSUME NEW j \in Keys
            PROVE  PoolNow'[j] = IF j = k THEN PoolNow[j] - 1 ELSE PoolNow[j]
        <4>1. PoolNow'[j] = Cardinality(Queued(j)') /\ PoolNow[j] = Cardinality(Queued(j))
          BY <1>5
        <4>2. CASE j = k
          <5>1. Queued(j)' = Queued(j) \ {x} /\ x \in Queued(j)
            BY <1>1, <1>2, <2>1, <2>2, <4>2 DEF Queued
          <5> QED
            BY <2>4, <4>1, <4>2, <5>1, FS_RemoveElement
        <4>3. CASE j # k
          <5>1. Queued(j)' = Queued(j)
            BY <1>1, <1>2, <2>1, <2>2, <4>3 DEF Queued
          <5> QED
            BY <4>1, <4>3, <5>1
        <4> QED
          BY <4>2, <4>3
      <3>2. PoolNow = [j \in Keys |-> PoolNow[j]] /\ PoolNow' = [j \in Keys |-> PoolNow'[j]]
        BY <1>5
      <3> HIDE DEF k
      <3> QED
        BY <2>3, <3>1, <3>2
    <2>8. ValueNow' = [ValueNow EXCEPT ![t] = k]
      <3>1. \A u \in ListThreads \ {t} : ValueNow'[u] = ValueNow[u]
        BY <1>1, <1>2 DEF ValueNow
      <3>2. ValueNow'[t] = k
        BY <1>1, <1>2, <2>2 DEF ValueNow
      <3> HIDE DEF k
      <3> QED
        BY <3>1, <3>2 DEF ValueNow
    <2> HIDE DEF k
    <2> QED
      BY <1>3, <2>3, <2>5, <2>6, <2>7, <2>8
      DEF ListPool!Get, ListPool!Smallest, ListPool!Become, PoolNow, OpNow, ValueNow, Queued
  <1> QED
    BY <1>6, <1>7

\* Where the program uses it, the list is a pool that returns a smallest
\* timestamp: every call takes effect at one step while the lock is held.
THEOREM ListRefinesPool == ListSpec => ListImplementsPool
  <1>1. ListInit => ListPool!Init
    BY PoolInit
  <1>2. ASSUME ListIndInv, [ListNext]_lvars PROVE [ListPool!Next]_ListPool!vars
    <2>1. ASSUME NEW t \in ListThreads, NEW x \in Items, NEW k \in Keys, InsertCall(t, x, k)
          PROVE  ListPool!Next
      BY <1>2, <2>1, PoolInsertCall DEF ListPool!Next
    <2>2. ASSUME NEW t \in ListThreads, Link(t) \/ PopLink(t) \/ PopCall(t) \/ CallReturn(t)
          PROVE  ListPool!Next
      BY <1>2, <2>2, PoolLink, PoolPopLink, PoolCallReturn DEF ListPool!Next
    <2>3. ASSUME \/ \E t \in ListThreads : LockInsert(t) \/ Walk(t) \/ LockPop(t)
                 \/ Api \/ Stopped \/ UNCHANGED lvars
          PROVE  UNCHANGED ListPool!vars
      BY <1>2, <2>3, PoolStill
    <2> QED
      BY <1>2, <2>1, <2>2, <2>3 DEF ListNext, Api
  <1> QED
    BY <1>1, <1>2, ListInvariance, PTL DEF ListSpec, ListImplementsPool, ListPool!Spec
=============================================================================
