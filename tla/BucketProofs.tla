---------------------------- MODULE BucketProofs ----------------------------
(***************************************************************************)
(* Proofs about module BucketList: what the operations of a bucket rely on *)
(* when they interleave, for any number of threads, nodes and timestamps.  *)
(*                                                                         *)
(* IndInv is the inductive invariant.  It says what the list is (ListOk,   *)
(* Live), which thread owns a node that is not linked yet (Owned), what    *)
(* each thread knows at each point of search() and dequeue() of pointers   *)
(* it read earlier (SearchKnows, DequeueKnows), that to-free chains are    *)
(* paths of marked nodes, and what a scan may still answer (ScanKnows).    *)
(*                                                                         *)
(* A step is quiet or one of four writes (StepKinds): it cuts a chain,     *)
(* points a new node, puts it into the list, or marks a node.  Each keeps  *)
(* Grow: marked nodes frozen, linked nodes and their order kept.  That is  *)
(* why what a thread read long ago is still of use to it.                  *)
(*                                                                         *)
(* The module begins with lemmas about singly linked lists with marks:     *)
(* what can be reached from the head, paths of marked nodes, and the       *)
(* values of BucketList's recursive functions.  They speak of any next     *)
(* function f and are used for next and next'.  Induction runs over sets:  *)
(* a set of numbers that holds 0 and successors is Nat, the nodes in reach *)
(* are the least set closed under next, and a finite set of nodes has a    *)
(* last one.                                                               *)
(***************************************************************************)
EXTENDS BucketList, NumberLemmas

-----------------------------------------------------------------------------
\* Every node there is, and what next can be.
Cells == Nodes \cup {HeadNode, TailNode}
Heap == [Cells -> Refs]

\* A set of nodes that holds the head and what its nodes point to.
Closed(f, S) == HeadNode \in S /\ \A n \in S : f[n].to \in S

\* The nodes that can be reached from the head: the least closed set.
Reach(f) == {n \in Cells : \A S \in SUBSET Cells : Closed(f, S) => n \in S}

\* c is a path of k marked nodes from a on, and b is what comes after it.
Path(f, c, k, a, b) ==
  /\ c \in [1 .. k -> Nodes]
  /\ k > 0 => c[1] = a
  /\ k = 0 => a = b
  /\ \A i \in 1 .. k : f[c[i]].marked /\ f[c[i]].to = IF i = k THEN b ELSE c[i + 1]

MarkedPath(f, a, k, b) == \E c \in [1 .. k -> Nodes] : Path(f, c, k, a, b)

\* O is a strict total order of the nodes in P, and next follows it.
Ordered(O, P) ==
  /\ P \subseteq Cells /\ HeadNode \in P /\ TailNode \in P
  /\ \A x \in P : <<x, x>> \notin O
  /\ \A x, y, z \in P : <<x, y>> \in O /\ <<y, z>> \in O => <<x, z>> \in O
  /\ \A x, y \in P : x = y \/ <<x, y>> \in O \/ <<y, x>> \in O
  /\ \A x \in P : x = HeadNode \/ <<HeadNode, x>> \in O

Follows(f, O, P) ==
  /\ f[TailNode].to = TailNode
  /\ \A n \in P : n # TailNode => f[n].to \in P /\ <<n, f[n].to>> \in O

\* Where one can go from the head, one can go on.
LEMMA ReachClosed ==
  ASSUME NEW f \in Heap
  PROVE  Reach(f) \subseteq Cells /\ Closed(f, Reach(f))
  <1>1. \A n \in Cells : f[n].to \in Cells
    BY DEF Heap, Refs, Cells
  <1> QED
    BY <1>1 DEF Reach, Closed, Cells

\* Any closed set holds the nodes that can be reached.
LEMMA ReachLeast ==
  ASSUME NEW f \in Heap, NEW S \in SUBSET Cells, Closed(f, S)
  PROVE  Reach(f) \subseteq S
  BY DEF Reach

\* Only nodes of the order can be reached, as next follows it.
LEMMA ReachWithin ==
  ASSUME NEW f \in Heap, NEW O, NEW P, Ordered(O, P), Follows(f, O, P)
  PROVE  Reach(f) \subseteq P
  <1>1. P \in SUBSET Cells /\ Closed(f, P)
    BY DEF Closed, Ordered, Follows
  <1> QED
    BY <1>1, ReachLeast

\* Between a reachable node and the next one there is no reachable node.
LEMMA ReachTight ==
  ASSUME NEW f \in Heap, NEW O, NEW P, Ordered(O, P), Follows(f, O, P),
         NEW p \in Reach(f), NEW m \in Reach(f), <<p, m>> \in O
  PROVE  f[p].to = m \/ <<f[p].to, m>> \in O
  <1> DEFINE R == Reach(f)
             Beyond(x) == {y \in R : y = x \/ <<y, x>> \in O \/ y = f[x].to \/ <<f[x].to, y>> \in O}
             Good == {x \in R : \A y \in R : <<y, x>> \in O => f[y].to = x \/ <<f[y].to, x>> \in O}
  <1>1. R \in SUBSET Cells /\ R \subseteq P /\ HeadNode \in R /\ \A n \in R : f[n].to \in R
    BY ReachClosed, ReachWithin DEF Closed
  <1>2. \A x \in R : f[x].to = x \/ <<x, f[x].to>> \in O
    BY <1>1 DEF Follows
  <1>3. ASSUME NEW x \in Good PROVE Beyond(x) = R
    <2>1. HeadNode \in Beyond(x)
      BY <1>1 DEF Ordered
    <2>2. ASSUME NEW y \in Beyond(x) PROVE f[y].to \in Beyond(x)
      <3>1. CASE y = x
        BY <3>1, <1>1
      <3>2. CASE <<y, x>> \in O
        BY <3>2, <1>1
      <3>3. CASE y = f[x].to \/ <<f[x].to, y>> \in O
        <4>1. f[y].to = y \/ <<y, f[y].to>> \in O
          BY <1>2
        <4>2. f[y].to \in R /\ f[y].to \in P /\ f[x].to \in P /\ y \in P
          BY <1>1
        <4> QED
          BY <3>3, <4>1, <4>2 DEF Ordered
      <3> QED
        BY <3>1, <3>2, <3>3
    <2>3. Beyond(x) \in SUBSET Cells /\ Closed(f, Beyond(x))
      BY <2>1, <2>2, <1>1 DEF Closed
    <2> QED
      BY <2>3, ReachLeast
  <1>4. HeadNode \in Good
    BY <1>1 DEF Ordered
  <1>5. ASSUME NEW x \in Good PROVE f[x].to \in Good
    <2> DEFINE z == f[x].to
    <2>1. z \in R /\ z \in P /\ (z = x \/ <<x, z>> \in O)
      BY <1>1, <1>2
    <2>2. ASSUME NEW y \in R, <<y, z>> \in O PROVE f[y].to = z \/ <<f[y].to, z>> \in O
      <3>1. y \in Beyond(x)
        BY <1>3
      <3>2. y = x \/ <<y, x>> \in O
        <4>1. y = x \/ <<y, x>> \in O \/ y = z \/ <<z, y>> \in O
          BY <3>1
        <4> HIDE DEF z
        <4>2. y \in P /\ z \in P
          BY <2>1, <1>1
        <4>3. y # z /\ <<z, y>> \notin O
          BY <2>2, <4>2 DEF Ordered
        <4> QED
          BY <4>1, <4>3
      <3>3. CASE y = x
        BY <3>3
      <3>4. CASE <<y, x>> \in O
        <4>1. f[y].to = x \/ <<f[y].to, x>> \in O
          BY <3>4
        <4> HIDE DEF z
        <4>2. f[y].to \in P /\ x \in P
          BY <1>1
        <4> QED
          BY <4>1, <4>2, <2>1 DEF Ordered
      <3> QED
        BY <3>2, <3>3, <3>4
    <2> QED
      BY <2>1, <2>2
  <1>6. Good = R
    <2>1. Good \in SUBSET Cells /\ Closed(f, Good)
      BY <1>1, <1>4, <1>5 DEF Closed
    <2> QED
      BY <2>1, ReachLeast
  <1> QED
    BY <1>6

\* What matters of next is where it leads from the nodes that are reached.
LEMMA ReachElsewhere ==
  ASSUME NEW f \in Heap, NEW g \in Heap, \A n \in Reach(f) : g[n].to = f[n].to
  PROVE  Reach(g) = Reach(f)
  <1>1. Reach(f) \in SUBSET Cells /\ Closed(f, Reach(f))
    BY ReachClosed
  <1>2. Reach(g) \in SUBSET Cells /\ Closed(g, Reach(g))
    BY ReachClosed
  <1>3. Closed(g, Reach(f))
    BY <1>1 DEF Closed
  <1>4. Reach(g) \subseteq Reach(f)
    BY <1>1, <1>3, ReachLeast
  <1>5. Closed(f, Reach(g))
    BY <1>2, <1>4 DEF Closed
  <1>6. Reach(f) \subseteq Reach(g)
    BY <1>2, <1>5, ReachLeast
  <1> QED
    BY <1>4, <1>6

\* A node put behind a reachable one is all that is gained.
LEMMA ReachLink ==
  ASSUME NEW f \in Heap, NEW g \in Heap, NEW l \in Reach(f), NEW x \in Nodes,
         f[x].to = f[l].to, g[l].to = x,
         \A n \in Cells : n # l => g[n].to = f[n].to,
         x # l
  PROVE  Reach(g) = Reach(f) \cup {x}
  <1>1. Reach(f) \in SUBSET Cells /\ Closed(f, Reach(f))
    BY ReachClosed
  <1>2. Reach(g) \in SUBSET Cells /\ Closed(g, Reach(g))
    BY ReachClosed
  <1>3. x \in Cells /\ x # HeadNode
    BY BucketListAssumption DEF Cells
  <1>4. Closed(g, Reach(f) \cup {x})
    BY <1>1, <1>3 DEF Closed
  <1>5. Reach(g) \subseteq Reach(f) \cup {x}
    BY <1>1, <1>3, <1>4, ReachLeast
  <1>6. Closed(f, Reach(g))
    BY <1>2, <1>3 DEF Closed
  <1>7. Reach(f) \subseteq Reach(g)
    BY <1>2, <1>6, ReachLeast
  <1>8. x \in Reach(g)
    BY <1>2, <1>7 DEF Closed
  <1> QED
    BY <1>5, <1>7, <1>8

-----------------------------------------------------------------------------
\* A path stays in a set from which no marked node leads out.
LEMMA PathWithin ==
  ASSUME NEW f \in Heap, NEW c, NEW k \in Nat, NEW a, NEW b, Path(f, c, k, a, b),
         NEW S, a \in S, \A n \in S : n \in Nodes /\ f[n].marked => f[n].to \in S
  PROVE  b \in S /\ \A i \in 1 .. k : c[i] \in S
  <1> DEFINE T == {j \in Nat : j + 1 \in 1 .. k => c[j + 1] \in S}
  <1>1. 0 \in T
    BY DEF Path
  <1>2. ASSUME NEW j \in T PROVE j + 1 \in T
    <2> SUFFICES ASSUME j + 2 \in 1 .. k PROVE c[j + 2] \in S
      OBVIOUS
    <2>1. c[j + 1] \in S /\ c[j + 1] \in Nodes
      BY DEF Path
    <2>2. f[c[j + 1]].marked /\ f[c[j + 1]].to = c[j + 2]
      BY DEF Path
    <2> QED
      BY <2>1, <2>2
  <1>3. T = Nat
    <2> HIDE DEF T
    <2>1. T \in SUBSET Nat
      BY DEF T
    <2> QED
      BY <1>1, <1>2, <2>1, NatSet
  <1>4. \A i \in 1 .. k : c[i] \in S
    <2> TAKE i \in 1 .. k
    <2> HIDE DEF T
    <2>1. i - 1 \in T /\ (i - 1) + 1 = i
      BY <1>3
    <2>2. (i - 1) + 1 \in 1 .. k => c[(i - 1) + 1] \in S
      BY <2>1 DEF T
    <2> QED
      BY <2>1, <2>2
  <1>5. b \in S
    <2>1. CASE k = 0
      BY <2>1 DEF Path
    <2>2. CASE k > 0
      <3>1. c[k] \in S /\ c[k] \in Nodes /\ f[c[k]].marked /\ f[c[k]].to = b
        BY <1>4, <2>2 DEF Path
      <3> QED
        BY <3>1
    <2> QED
      BY <2>1, <2>2
  <1> QED
    BY <1>4, <1>5

\* Marked nodes are part of the order.
MarkedIn(f, P) == \A n \in Nodes : f[n].marked => n \in P

\* A path goes up in the order from a, or from after a, to b.
PathInOrder(O, P, c, k, a, b) ==
  /\ b \in P
  /\ a = b \/ <<a, b>> \in O
  /\ \A i \in 1 .. k : c[i] \in P /\ <<c[i], b>> \in O /\ (a = c[i] \/ <<a, c[i]>> \in O)
  /\ \A i, j \in 1 .. k : i < j => <<c[i], c[j]>> \in O

\* A path is ordered.
LEMMA PathOrdered ==
  ASSUME NEW f \in Heap, NEW O, NEW P, Ordered(O, P), Follows(f, O, P), MarkedIn(f, P),
         NEW c, NEW k \in Nat, NEW a \in P, NEW b, Path(f, c, k, a, b)
  PROVE  PathInOrder(O, P, c, k, a, b)
  <1> USE DEF PathInOrder
  <1> DEFINE From(x) == {y \in P : y = x \/ <<x, y>> \in O}
  <1>1. \A n \in P : n \in Nodes => f[n].to \in P /\ <<n, f[n].to>> \in O
    BY BucketListAssumption DEF Follows
  <1>2. \A x \in P : \A y \in From(x) : y \in Nodes => f[y].to \in From(x)
    <2> TAKE x \in P
    <2> TAKE y \in From(x)
    <2> SUFFICES ASSUME y \in Nodes PROVE f[y].to \in From(x)
      OBVIOUS
    <2> DEFINE z == f[y].to
    <2>1. y \in P /\ z \in P /\ <<y, z>> \in O /\ (y = x \/ <<x, y>> \in O)
      BY <1>1
    <2> HIDE DEF z
    <2>2. <<x, z>> \in O
      BY <2>1 DEF Ordered
    <2> QED
      BY <2>1, <2>2 DEF z
  <1>3. b \in From(a) /\ \A i \in 1 .. k : c[i] \in From(a)
    <2> HIDE DEF From
    <2>1. a \in From(a)
      BY DEF From
    <2> QED
      BY <1>2, <2>1, PathWithin
  <1> DEFINE T == {m \in Nat : \A i \in 1 .. k : i + m + 1 <= k => <<c[i], c[i + m + 1]>> \in O}
  <1>4. \A i \in 1 .. k : c[i] \in P /\ c[i] \in Nodes
    BY <1>3 DEF Path
  <1>5. \A i \in 1 .. k : i + 1 <= k => <<c[i], c[i + 1]>> \in O
    <2> TAKE i \in 1 .. k
    <2> HAVE i + 1 <= k
    <2>1. f[c[i]].to = c[i + 1]
      BY DEF Path
    <2> QED
      BY <1>1, <1>4, <2>1
  <1>6. 0 \in T
    BY <1>5
  <1>7. ASSUME NEW m \in T PROVE m + 1 \in T
    <2> SUFFICES ASSUME NEW i \in 1 .. k, i + m + 2 <= k PROVE <<c[i], c[i + m + 2]>> \in O
      OBVIOUS
    <2>1. <<c[i], c[i + m + 1]>> \in O
      OBVIOUS
    <2>2. <<c[i + m + 1], c[i + m + 2]>> \in O
      BY <1>5
    <2>3. c[i] \in P /\ c[i + m + 1] \in P /\ c[i + m + 2] \in P
      BY <1>4
    <2> QED
      BY <2>1, <2>2, <2>3 DEF Ordered
  <1>8. T = Nat
    <2> HIDE DEF T
    <2>1. T \in SUBSET Nat
      BY DEF T
    <2> QED
      BY <1>6, <1>7, <2>1, NatSet
  <1>9. ASSUME NEW i \in 1 .. k, NEW j \in 1 .. k, i < j PROVE <<c[i], c[j]>> \in O
    <2> DEFINE m == j - i - 1
    <2> HIDE DEF T
    <2>1. m \in T /\ i + m + 1 = j
      BY <1>8, <1>9
    <2> HIDE DEF m
    <2>2. i + m + 1 <= k => <<c[i], c[i + m + 1]>> \in O
      BY <2>1 DEF T
    <2> QED
      BY <2>1, <2>2
  <1>10. ASSUME NEW i \in 1 .. k PROVE <<c[i], b>> \in O
    <2>1. f[c[k]].to = b /\ k \in 1 .. k
      BY DEF Path
    <2>2. <<c[k], b>> \in O
      BY <2>1, <1>1, <1>4
    <2>3. i = k \/ <<c[i], c[k]>> \in O
      BY <2>1, <1>9
    <2>4. c[i] \in P /\ c[k] \in P /\ b \in P
      BY <1>3, <1>4, <2>1
    <2> QED
      BY <2>2, <2>3, <2>4 DEF Ordered
  <1> QED
    BY <1>3, <1>9, <1>10

\* A path meets no node twice.
LEMMA PathBound ==
  ASSUME NEW f \in Heap, NEW O, NEW P, Ordered(O, P), Follows(f, O, P), MarkedIn(f, P),
         NEW k \in Nat, NEW a \in P, NEW b, MarkedPath(f, a, k, b)
  PROVE  k <= Cardinality(Nodes)
  <1>1. PICK c \in [1 .. k -> Nodes] : Path(f, c, k, a, b)
    BY DEF MarkedPath
  <1>2. \A i, j \in 1 .. k : i # j => c[i] # c[j]
    <2>o. PathInOrder(O, P, c, k, a, b)
      BY <1>1, PathOrdered
    <2>1. \A i, j \in 1 .. k : i < j => <<c[i], c[j]>> \in O
      BY <2>o DEF PathInOrder
    <2>2. \A i \in 1 .. k : c[i] \in P
      BY <2>o DEF PathInOrder
    <2>3. \A x \in P : <<x, x>> \notin O
      BY DEF Ordered
    <2> TAKE i, j \in 1 .. k
    <2>4. i < j \/ j < i \/ i = j
      OBVIOUS
    <2> QED
      BY <2>1, <2>2, <2>3, <2>4
  <1>3. IsFiniteSet(1 .. k) /\ Cardinality(1 .. k) = k
    BY FS_Interval
  <1>4. IsFiniteSet(Nodes) /\ Cardinality(Nodes) \in Nat
    BY BucketListAssumption, FS_CardinalityType
  <1>5. ~ (Cardinality(Nodes) < Cardinality(1 .. k))
    BY <1>2, <1>3, <1>4, FS_PigeonHole
  <1> QED
    BY <1>3, <1>4, <1>5

\* A marked node at the end of a path makes it longer.
LEMMA PathExtend ==
  ASSUME NEW f \in Heap, NEW a, NEW k \in Nat, NEW b \in Nodes,
         MarkedPath(f, a, k, b), f[b].marked
  PROVE  MarkedPath(f, a, k + 1, f[b].to)
  <1>1. PICK c \in [1 .. k -> Nodes] : Path(f, c, k, a, b)
    BY DEF MarkedPath
  <1> DEFINE d == [i \in 1 .. k + 1 |-> IF i = k + 1 THEN b ELSE c[i]]
  <1>2. d \in [1 .. k + 1 -> Nodes]
    OBVIOUS
  <1>3. d[1] = a
    BY <1>1 DEF Path
  <1>4. ASSUME NEW i \in 1 .. k + 1
        PROVE  f[d[i]].marked /\ f[d[i]].to = IF i = k + 1 THEN f[b].to ELSE d[i + 1]
    <2>1. CASE i = k + 1
      BY <2>1
    <2>2. CASE i # k + 1
      <3>1. i \in 1 .. k /\ d[i] = c[i]
        BY <2>2
      <3>2. d[i + 1] = IF i = k THEN b ELSE c[i + 1]
        BY <3>1
      <3>3. f[c[i]].marked /\ f[c[i]].to = IF i = k THEN b ELSE c[i + 1]
        BY <1>1, <3>1 DEF Path
      <3> QED
        BY <2>2, <3>1, <3>2, <3>3
    <2> QED
      BY <2>1, <2>2
  <1> HIDE DEF d
  <1>5. Path(f, d, k + 1, a, f[b].to)
    BY <1>2, <1>3, <1>4 DEF Path
  <1> QED
    BY <1>2, <1>5 DEF MarkedPath

\* No step changes the next pointer of a marked node.
Frozen(f, g) == \A n \in Cells : f[n].marked => g[n] = f[n]

\* So a path stays.
LEMMA PathFrozen ==
  ASSUME NEW f \in Heap, NEW g \in Heap, Frozen(f, g), NEW c, NEW k \in Nat, NEW a, NEW b
  PROVE  /\ Path(f, c, k, a, b) => Path(g, c, k, a, b)
         /\ MarkedPath(f, a, k, b) => MarkedPath(g, a, k, b)
  <1>1. ASSUME NEW d, Path(f, d, k, a, b) PROVE Path(g, d, k, a, b)
    <2>1. \A i \in 1 .. k : d[i] \in Cells
      BY <1>1 DEF Path, Cells
    <2> QED
      BY <1>1, <2>1 DEF Path, Frozen
  <1> QED
    BY <1>1 DEF MarkedPath

\* A path leads off marked nodes: its first node is marked, unless it has none.
LEMMA PathStart ==
  ASSUME NEW f, NEW k \in Nat, NEW a, NEW b, MarkedPath(f, a, k, b), a # b
  PROVE  k > 0 /\ a \in Nodes /\ f[a].marked
  <1>1. PICK c \in [1 .. k -> Nodes] : Path(f, c, k, a, b)
    BY DEF MarkedPath
  <1>2. k > 0 /\ 1 \in 1 .. k
    BY <1>1 DEF Path
  <1> QED
    BY <1>1, <1>2 DEF Path

\* Cutting the marked nodes behind a reachable one loses these only.
LEMMA ReachCut ==
  ASSUME NEW f \in Heap, NEW g \in Heap, NEW O, NEW P,
         Ordered(O, P), Follows(f, O, P), MarkedIn(f, P),
         NEW l \in Reach(f), ~ f[l].marked, l # TailNode,
         NEW c, NEW k \in Nat, NEW b, Path(f, c, k, f[l].to, b),
         g[l].to = b, \A n \in Cells : n # l => g[n].to = f[n].to
  PROVE  LET D == {c[i] : i \in 1 .. k} IN
         /\ D \subseteq Reach(f)
         /\ Reach(g) = Reach(f) \ D
  <1> DEFINE D == {c[i] : i \in 1 .. k}
             a == f[l].to
  <1>1. Reach(f) \in SUBSET Cells /\ Closed(f, Reach(f)) /\ Reach(f) \subseteq P
    BY ReachClosed, ReachWithin
  <1>2. Reach(g) \in SUBSET Cells /\ Closed(g, Reach(g))
    BY ReachClosed
  <1>3. l \in P /\ a \in P /\ <<l, a>> \in O /\ a \in Reach(f)
    BY <1>1 DEF Follows, Closed
  <1>p. Path(f, c, k, a, b)
    OBVIOUS
  <1> HIDE DEF a
  <1>4. b \in Reach(f) /\ D \subseteq Reach(f)
    <2>1. \A n \in Reach(f) : f[n].to \in Reach(f)
      BY <1>1 DEF Closed
    <2>2. b \in Reach(f) /\ \A i \in 1 .. k : c[i] \in Reach(f)
      BY <1>3, <1>p, <2>1, PathWithin
    <2> QED
      BY <2>2
  <1>5. /\ b \in P /\ <<l, b>> \in O
        /\ \A i \in 1 .. k : c[i] \in P /\ <<l, c[i]>> \in O /\ <<c[i], b>> \in O
    <2>1. /\ b \in P
          /\ a = b \/ <<a, b>> \in O
          /\ \A i \in 1 .. k : c[i] \in P /\ <<c[i], b>> \in O /\ (a = c[i] \/ <<a, c[i]>> \in O)
      <3>1. PathInOrder(O, P, c, k, a, b)
        BY <1>3, <1>p, PathOrdered
      <3> QED
        BY <3>1 DEF PathInOrder
    <2> QED
      BY <2>1, <1>3 DEF Ordered
  <1> DEFINE Outside == {n \in Reach(f) : n = l \/ <<n, l>> \in O \/ n = b \/ <<b, n>> \in O}
  <1>6. Closed(g, Outside)
    <2>1. HeadNode \in Outside
      BY <1>1, <1>3 DEF Closed, Ordered
    <2>2. ASSUME NEW n \in Outside PROVE g[n].to \in Outside
      <3>1. CASE n = l
        BY <3>1, <1>4
      <3>2. CASE n # l /\ <<n, l>> \in O
        <4>1. f[n].to = l \/ <<f[n].to, l>> \in O
          BY <3>2, ReachTight
        <4>2. g[n].to = f[n].to /\ f[n].to \in Reach(f)
          BY <3>2, <1>1 DEF Closed
        <4> QED
          BY <4>1, <4>2
      <3>3. CASE n # l /\ (n = b \/ <<b, n>> \in O)
        <4>1. g[n].to = f[n].to /\ f[n].to \in Reach(f)
          BY <3>3, <1>1 DEF Closed
        <4>2. n \in P /\ f[n].to \in P /\ (f[n].to = n \/ <<n, f[n].to>> \in O)
          BY <1>1, <4>1 DEF Follows
        <4>3. f[n].to = b \/ <<b, f[n].to>> \in O
          BY <3>3, <4>2, <1>5 DEF Ordered
        <4> QED
          BY <4>1, <4>3
      <3> QED
        BY <3>1, <3>2, <3>3
    <2> QED
      BY <2>1, <2>2 DEF Closed
  <1>7. Reach(g) \subseteq Outside
    BY <1>1, <1>6, ReachLeast
  <1>8. Outside \cap D = {}
    <2> SUFFICES ASSUME NEW i \in 1 .. k, c[i] \in Outside PROVE FALSE
      OBVIOUS
    <2>1. c[i] \in P /\ <<l, c[i]>> \in O /\ <<c[i], b>> \in O /\ b \in P /\ l \in P
      BY <1>3, <1>5
    <2> QED
      BY <2>1 DEF Ordered
  <1> DEFINE Upto == {n \in Reach(f) : (n = l \/ <<n, l>> \in O) => n \in Reach(g)}
  <1>9. Upto = Reach(f)
    <2>1. HeadNode \in Upto
      BY <1>1, <1>2 DEF Closed
    <2>2. ASSUME NEW n \in Upto PROVE f[n].to \in Upto
      <3>1. f[n].to \in Reach(f)
        BY <1>1 DEF Closed
      <3> SUFFICES ASSUME f[n].to = l \/ <<f[n].to, l>> \in O PROVE f[n].to \in Reach(g)
        BY <3>1
      <3>2. n \in P /\ f[n].to \in P /\ (f[n].to = n \/ <<n, f[n].to>> \in O)
        BY <1>1, <3>1 DEF Follows
      <3>3. n = l \/ <<n, l>> \in O
        BY <3>2, <1>3 DEF Ordered
      <3>4. n # l
        <4> SUFFICES ASSUME n = l PROVE FALSE
          OBVIOUS
        <4>1. a = l \/ <<a, l>> \in O
          BY DEF a
        <4>2. l \in P /\ a \in P /\ <<l, a>> \in O
          BY <1>3
        <4> QED
          BY <4>1, <4>2 DEF Ordered
      <3>5. n \in Reach(g) /\ g[n].to = f[n].to
        BY <3>3, <3>4, <1>1
      <3> QED
        BY <3>5, <1>2 DEF Closed
    <2>3. Upto \in SUBSET Cells /\ Closed(f, Upto)
      BY <2>1, <2>2, <1>1 DEF Closed
    <2> QED
      BY <2>3, ReachLeast
  <1>10. l \in Reach(g) /\ b \in Reach(g)
    BY <1>9, <1>2 DEF Closed
  <1>11. Closed(f, Reach(g) \cup D)
    <2>1. a \in Reach(g) \cup D
      <3>1. CASE k = 0
        BY <3>1, <1>10, <1>p DEF Path
      <3>2. CASE k > 0
        BY <3>2, <1>p DEF Path
      <3> QED
        BY <3>1, <3>2
    <2>2. ASSUME NEW i \in 1 .. k PROVE f[c[i]].to \in Reach(g) \cup D
      <3>1. f[c[i]].to = IF i = k THEN b ELSE c[i + 1]
        BY <1>p DEF Path
      <3>2. i = k \/ c[i + 1] \in D
        OBVIOUS
      <3> QED
        BY <3>1, <3>2, <1>10
    <2>3. \A n \in Reach(g) : n # l => f[n].to \in Reach(g)
      BY <1>2 DEF Closed
    <2> QED
      BY <1>2, <2>1, <2>2, <2>3 DEF Closed, a
  <1>12. Reach(f) \subseteq Reach(g) \cup D
    <2>1. Reach(g) \cup D \in SUBSET Cells
      BY <1>1, <1>2, <1>4
    <2> QED
      BY <2>1, <1>11, ReachLeast
  <1> QED
    BY <1>4, <1>7, <1>8, <1>12

-----------------------------------------------------------------------------
\* A finite set of nodes has a last one.
LEMMA LastOne ==
  ASSUME NEW O, NEW P, Ordered(O, P), NEW T \in SUBSET P, IsFiniteSet(T), T # {}
  PROVE  \E x \in T : \A y \in T : <<x, y>> \notin O
  <1> DEFINE Above(x) == {y \in T : <<x, y>> \in O}
             All == {Above(x) : x \in T}
  <1>1. All \subseteq FiniteSubsetsOf(T) /\ All # {}
    <2>1. ASSUME NEW x \in T PROVE Above(x) \in FiniteSubsetsOf(T)
      <3>1. Above(x) \in SUBSET T
        OBVIOUS
      <3> HIDE DEF Above
      <3>2. IsFiniteSet(Above(x))
        BY <3>1, FS_Subset
      <3> QED
        BY <3>1, <3>2 DEF FiniteSubsetsOf
    <2> HIDE DEF Above
    <2> QED
      BY <2>1
  <1>2. IsWellFoundedOn(StrictSubsetOrdering(T), FiniteSubsetsOf(T))
    BY FS_StrictSubsetOrderingWellFounded
  <1>3. PICK B \in All : \A C \in All : ~ (<<C, B>> \in StrictSubsetOrdering(T))
    <2> HIDE DEF All
    <2> QED
      BY <1>1, <1>2, WFMin
  <1>4. PICK x \in T : B = Above(x)
    BY <1>3
  <1>5. ASSUME NEW y \in T, <<x, y>> \in O PROVE FALSE
    <2>1. Above(y) \subseteq Above(x) /\ y \in Above(x) /\ y \notin Above(y)
      BY <1>5 DEF Ordered
    <2>2. <<Above(y), B>> \in StrictSubsetOrdering(T)
      BY <2>1, <1>4 DEF StrictSubsetOrdering
    <2> QED
      BY <2>2, <1>3
  <1> QED
    BY <1>5

-----------------------------------------------------------------------------
\* Where each node leads, past the marked ones (the function in FirstLive).
Tailed == Nodes \cup {TailNode}
Dead(f, n) == n # TailNode /\ f[n].marked

LiveFrom(f) ==
  CHOOSE h : h = [n \in Nodes \cup {TailNode} |->
                    IF n # TailNode /\ f[n].marked THEN h[f[n].to] ELSE n]

\* FirstLive is well defined.
LEMMA LiveFromDef ==
  ASSUME NEW f \in Heap
  PROVE  LET h == LiveFrom(f) IN
         \A n \in Tailed : h[n] = IF Dead(f, n) THEN h[f[n].to] ELSE n
  <1> DEFINE On(S) == \A x \in S : Dead(f, x) => f[x].to \in S
             Ends(n) == {m \in Tailed : ~ Dead(f, m) /\ \A S \in SUBSET Tailed : n \in S /\ On(S) => m \in S}
             g == [n \in Tailed |-> CHOOSE m : m \in Ends(n)]
  <1>1. \A n \in Tailed : f[n].to \in Tailed
    BY DEF Heap, Refs, Cells, Tailed
  <1>2. ASSUME NEW n \in Tailed, Dead(f, n) PROVE Ends(n) = Ends(f[n].to)
    <2>1. ASSUME NEW m \in Ends(n) PROVE m \in Ends(f[n].to)
      <3> SUFFICES ASSUME NEW S \in SUBSET Tailed, f[n].to \in S, On(S) PROVE m \in S
        OBVIOUS
      <3>1. S \cup {n} \in SUBSET Tailed /\ On(S \cup {n})
        OBVIOUS
      <3>2. m \in S \cup {n} /\ m # n
        BY <1>2, <3>1
      <3> QED
        BY <3>2
    <2>2. ASSUME NEW m \in Ends(f[n].to) PROVE m \in Ends(n)
      <3> SUFFICES ASSUME NEW S \in SUBSET Tailed, n \in S, On(S) PROVE m \in S
        OBVIOUS
      <3>1. f[n].to \in S
        BY <1>2
      <3> QED
        BY <3>1
    <2> QED
      BY <2>1, <2>2
  <1>3. ASSUME NEW n \in Tailed, ~ Dead(f, n) PROVE Ends(n) = {n}
    <2>1. {n} \in SUBSET Tailed /\ On({n})
      BY <1>3
    <2>2. n \in Ends(n)
      BY <1>3
    <2> QED
      BY <2>1, <2>2
  <1>4. \A n \in Tailed : g[n] = IF Dead(f, n) THEN g[f[n].to] ELSE n
    <2> TAKE n \in Tailed
    <2> HIDE DEF Ends
    <2>1. CASE Dead(f, n)
      BY <2>1, <1>1, <1>2
    <2>2. CASE ~ Dead(f, n)
      <3>1. Ends(n) = {n}
        BY <2>2, <1>3
      <3> QED
        BY <2>2, <3>1
    <2> QED
      BY <2>1, <2>2
  <1> DEFINE Def(h) == [n \in Nodes \cup {TailNode} |->
                    IF n # TailNode /\ f[n].marked THEN h[f[n].to] ELSE n]
  <1>5. g = Def(g)
    <2>1. g = [n \in Tailed |-> g[n]]
      OBVIOUS
    <2> HIDE DEF g
    <2> QED
      BY <1>4, <2>1 DEF Tailed, Dead
  <1>6. LiveFrom(f) = Def(LiveFrom(f))
    <2> HIDE DEF g
    <2>1. \E h : h = Def(h)
      BY <1>5
    <2> QED
      BY <2>1 DEF LiveFrom
  <1> QED
    BY <1>6 DEF Tailed, Dead

\* Along a path of marked nodes it does not change.
LEMMA LiveAlong ==
  ASSUME NEW f \in Heap, NEW a \in Tailed, NEW k \in Nat, NEW b, MarkedPath(f, a, k, b)
  PROVE  b \in Tailed /\ LiveFrom(f)[b] = LiveFrom(f)[a]
  <1>1. PICK c \in [1 .. k -> Nodes] : Path(f, c, k, a, b)
    BY DEF MarkedPath
  <1> DEFINE h == LiveFrom(f)
             S == {n \in Tailed : h[n] = h[a]}
  <1>2. \A n \in Tailed : h[n] = IF Dead(f, n) THEN h[f[n].to] ELSE n
    BY LiveFromDef
  <1>3. \A n \in S : n \in Nodes /\ f[n].marked => f[n].to \in S
    <2> SUFFICES ASSUME NEW n \in S, n \in Nodes, f[n].marked PROVE f[n].to \in S
      OBVIOUS
    <2>1. f[n].to \in Tailed
      BY DEF Heap, Refs, Cells, Tailed
    <2>2. Dead(f, n)
      BY BucketListAssumption DEF Dead
    <2> HIDE DEF h
    <2> QED
      BY <1>2, <2>1, <2>2
  <1>4. a \in S
    OBVIOUS
  <1> HIDE DEF h, S
  <1>5. b \in S
    BY <1>1, <1>3, <1>4, PathWithin
  <1> QED
    BY <1>5 DEF h, S

\* It ends at a node that is not marked, or at the tail.
LEMMA LiveType ==
  ASSUME NEW f \in Heap, NEW O, NEW P, Ordered(O, P), Follows(f, O, P), MarkedIn(f, P),
         NEW n \in Tailed
  PROVE  LiveFrom(f)[n] \in Tailed
  <1> DEFINE h == LiveFrom(f)
             T == {x \in Tailed : h[x] \notin Tailed}
  <1>1. \A x \in Tailed : h[x] = IF Dead(f, x) THEN h[f[x].to] ELSE x
    BY LiveFromDef
  <1> HIDE DEF h
  <1>2. ASSUME NEW x \in T PROVE x \in P /\ f[x].to \in T /\ <<x, f[x].to>> \in O
    <2>1. Dead(f, x) /\ h[f[x].to] \notin Tailed
      BY <1>1
    <2>2. x \in Nodes /\ f[x].marked /\ f[x].to \in Tailed
      BY <2>1 DEF Dead, Heap, Refs, Cells, Tailed
    <2> QED
      BY <2>1, <2>2 DEF MarkedIn, Follows, Dead
  <1>3. T = {}
    <2> SUFFICES ASSUME T # {} PROVE FALSE
      OBVIOUS
    <2>1. IsFiniteSet(T) /\ T \in SUBSET P
      <3>1. IsFiniteSet(Nodes \cup {TailNode})
        BY FS_AddElement, BucketListAssumption
      <3>2. T \in SUBSET Tailed /\ IsFiniteSet(Tailed)
        BY <3>1 DEF Tailed
      <3>3. T \in SUBSET P
        BY <1>2
      <3> HIDE DEF T
      <3> QED
        BY <3>2, <3>3, FS_Subset
    <2>2. PICK x \in T : \A y \in T : <<x, y>> \notin O
      <3> HIDE DEF T
      <3> QED
        BY <2>1, LastOne
    <2> QED
      BY <1>2, <2>2
  <1> QED
    BY <1>3 DEF h

-----------------------------------------------------------------------------
\* The function in ChainNodes.
ChainFrom(f, n, k) ==
  CHOOSE c : c = [i \in 1 .. k |-> IF i = 1 THEN n ELSE f[c[i - 1]].to]

\* What ChainNodes returns, and the nodes of a path.
ChainSet(f, n, k) == {ChainFrom(f, n, k)[i] : i \in 1 .. k}
PathSet(d, k) == {d[i] : i \in 1 .. k}

\* Of a path ChainNodes returns the nodes.
LEMMA ChainOfPath ==
  ASSUME NEW f \in Heap, NEW d, NEW k \in Nat, NEW a, NEW b, Path(f, d, k, a, b)
  PROVE  ChainSet(f, a, k) = PathSet(d, k)
  <1> DEFINE Def(c) == [i \in 1 .. k |-> IF i = 1 THEN a ELSE f[c[i - 1]].to]
             c == ChainFrom(f, a, k)
  <1>1. \A i \in 1 .. k : d[i] = IF i = 1 THEN a ELSE f[d[i - 1]].to
    <2> TAKE i \in 1 .. k
    <2>1. CASE i = 1
      BY <2>1 DEF Path
    <2>2. CASE i # 1
      <3>1. i - 1 \in 1 .. k /\ i - 1 # k /\ (i - 1) + 1 = i
        BY <2>2
      <3>2. f[d[i - 1]].to = d[(i - 1) + 1]
        BY <3>1 DEF Path
      <3> QED
        BY <2>2, <3>1, <3>2
    <2> QED
      BY <2>1, <2>2
  <1>2. d = Def(d)
    <2>1. d = [i \in 1 .. k |-> d[i]]
      BY DEF Path
    <2> QED
      BY <1>1, <2>1
  <1>3. c = Def(c)
    <2> HIDE DEF Def
    <2>1. \E e : e = Def(e)
      BY <1>2
    <2> QED
      BY <2>1 DEF ChainFrom, Def
  <1> HIDE DEF c
  <1>4. \A i \in 1 .. k : c[i] = IF i = 1 THEN a ELSE f[c[i - 1]].to
    BY <1>3
  <1> DEFINE T == {j \in Nat : j + 1 \in 1 .. k => c[j + 1] = d[j + 1]}
  <1>5. 0 \in T
    BY <1>1, <1>4
  <1>6. ASSUME NEW j \in T PROVE j + 1 \in T
    <2> SUFFICES ASSUME j + 2 \in 1 .. k PROVE c[j + 2] = d[j + 2]
      OBVIOUS
    <2>1. c[j + 1] = d[j + 1]
      OBVIOUS
    <2>2. (j + 2) - 1 = j + 1 /\ j + 2 # 1
      OBVIOUS
    <2>3. c[j + 2] = f[c[(j + 2) - 1]].to /\ d[j + 2] = f[d[(j + 2) - 1]].to
      BY <1>1, <1>4, <2>2
    <2> QED
      BY <2>1, <2>2, <2>3
  <1>7. T = Nat
    <2> HIDE DEF T
    <2>1. T \in SUBSET Nat
      BY DEF T
    <2> QED
      BY <1>5, <1>6, <2>1, NatSet
  <1>8. \A i \in 1 .. k : c[i] = d[i]
    <2> TAKE i \in 1 .. k
    <2> HIDE DEF T
    <2>1. i - 1 \in T /\ (i - 1) + 1 = i
      BY <1>7
    <2>2. (i - 1) + 1 \in 1 .. k => c[(i - 1) + 1] = d[(i - 1) + 1]
      BY <2>1 DEF T
    <2> QED
      BY <2>1, <2>2
  <1> QED
    BY <1>8 DEF c, ChainSet, PathSet

-----------------------------------------------------------------------------
\* The function in Walk.
WalkFrom(f) ==
  CHOOSE w : w = [i \in 0 .. Cardinality(Nodes) + 1 |->
        IF i = 0 THEN HeadNode ELSE IF w[i - 1] = TailNode THEN TailNode ELSE f[w[i - 1]].to]

Steps == 0 .. Cardinality(Nodes) + 1
StepOf(f, w, i) ==
  IF i = 0 THEN HeadNode ELSE IF w[i - 1] = TailNode THEN TailNode ELSE f[w[i - 1]].to

\* The nodes can be counted.
LEMMA NodesCount == IsFiniteSet(Nodes) /\ Cardinality(Nodes) \in Nat
  BY BucketListAssumption, FS_CardinalityType

\* Walk is well defined.
LEMMA WalkDef ==
  ASSUME NEW f \in Heap
  PROVE  /\ DOMAIN WalkFrom(f) = Steps
         /\ \A i \in Steps : WalkFrom(f)[i] = StepOf(f, WalkFrom(f), i)
  <1> DEFINE Good(k, w) == \A i \in 0 .. k : w[i] = StepOf(f, w, i)
             T == {k \in Nat : \E w : w = [i \in 0 .. k |-> w[i]] /\ Good(k, w)}
             N == Cardinality(Nodes)
             Def(w) == [i \in 0 .. N + 1 |->
        IF i = 0 THEN HeadNode ELSE IF w[i - 1] = TailNode THEN TailNode ELSE f[w[i - 1]].to]
  <1>1. 0 \in T
    <2> DEFINE w == [i \in 0 .. 0 |-> HeadNode]
    <2>1. w = [i \in 0 .. 0 |-> w[i]] /\ Good(0, w)
      BY DEF StepOf
    <2> QED
      BY <2>1
  <1>2. ASSUME NEW k \in T PROVE k + 1 \in T
    <2>1. PICK w : w = [i \in 0 .. k |-> w[i]] /\ Good(k, w)
      OBVIOUS
    <2> DEFINE v == [i \in 0 .. k + 1 |->
                       IF i = k + 1 THEN IF w[k] = TailNode THEN TailNode ELSE f[w[k]].to ELSE w[i]]
    <2>2. v = [i \in 0 .. k + 1 |-> v[i]]
      OBVIOUS
    <2>3. ASSUME NEW i \in 0 .. k + 1 PROVE v[i] = StepOf(f, v, i)
      <3>1. CASE i = k + 1
        <4>1. i - 1 = k /\ v[k] = w[k] /\ i # 0
          BY <3>1
        <4> QED
          BY <3>1, <4>1 DEF StepOf
      <3>2. CASE i # k + 1
        <4>1. i \in 0 .. k /\ v[i] = w[i] /\ (i # 0 => v[i - 1] = w[i - 1])
          BY <3>2
        <4>2. w[i] = StepOf(f, w, i)
          BY <2>1, <4>1
        <4> HIDE DEF v
        <4> QED
          BY <4>1, <4>2 DEF StepOf
      <3> QED
        BY <3>1, <3>2
    <2> HIDE DEF v
    <2>4. Good(k + 1, v)
      BY <2>3
    <2> QED
      BY <2>2, <2>4
  <1>3. T = Nat
    <2> HIDE DEF T
    <2>1. T \in SUBSET Nat
      BY DEF T
    <2> QED
      BY <1>1, <1>2, <2>1, NatSet
  <1>4. N + 1 \in T
    <2> HIDE DEF T
    <2> QED
      BY <1>3, NodesCount
  <1>5. PICK w : w = [i \in 0 .. N + 1 |-> w[i]] /\ Good(N + 1, w)
    BY <1>4
  <1>6. w = Def(w)
    BY <1>5 DEF StepOf
  <1>7. WalkFrom(f) = Def(WalkFrom(f))
    <2> HIDE DEF Def
    <2>1. \E v : v = Def(v)
      BY <1>6
    <2> QED
      BY <2>1 DEF WalkFrom, Def
  <1> QED
    BY <1>7 DEF StepOf, Steps

\* The walk stays among the reachable nodes.
LEMMA WalkReaches ==
  ASSUME NEW f \in Heap, f[TailNode].to = TailNode, NEW i \in Steps
  PROVE  WalkFrom(f)[i] \in Reach(f)
  <1> DEFINE w == WalkFrom(f)
             T == {j \in Nat : j \in Steps => w[j] \in Reach(f)}
  <1>1. \A j \in Steps : w[j] = StepOf(f, w, j)
    BY WalkDef
  <1>2. HeadNode \in Reach(f) /\ \A n \in Reach(f) : f[n].to \in Reach(f)
    BY ReachClosed DEF Closed
  <1> HIDE DEF w
  <1>3. 0 \in T
    BY <1>1, <1>2 DEF StepOf
  <1>4. ASSUME NEW j \in T PROVE j + 1 \in T
    <2> SUFFICES ASSUME j + 1 \in Steps PROVE w[j + 1] \in Reach(f)
      OBVIOUS
    <2>1. j \in Steps /\ (j + 1) - 1 = j /\ j + 1 # 0
      BY NodesCount DEF Steps
    <2>2. w[j + 1] = IF w[j] = TailNode THEN TailNode ELSE f[w[j]].to
      BY <1>1, <2>1 DEF StepOf
    <2> QED
      BY <1>2, <2>1, <2>2
  <1>5. T = Nat
    <2> HIDE DEF T
    <2>1. T \in SUBSET Nat
      BY DEF T
    <2> QED
      BY <1>3, <1>4, <2>1, NatSet
  <1>6. i \in T
    <2> HIDE DEF T
    <2> QED
      BY <1>5, NodesCount DEF Steps
  <1> QED
    BY <1>6 DEF w

\* It visits nodes in their order.
LEMMA WalkOrdered ==
  ASSUME NEW f \in Heap, NEW O, NEW P, Ordered(O, P), Follows(f, O, P),
         NEW i \in Steps, NEW j \in Steps, i < j, WalkFrom(f)[j] # TailNode
  PROVE  WalkFrom(f)[i] # TailNode /\ <<WalkFrom(f)[i], WalkFrom(f)[j]>> \in O
  <1> DEFINE w == WalkFrom(f)
             T == {m \in Nat : i + m + 1 \in Steps /\ w[i + m + 1] # TailNode =>
                     w[i] # TailNode /\ <<w[i], w[i + m + 1]>> \in O}
  <1>1. \A k \in Steps : w[k] = StepOf(f, w, k)
    BY WalkDef
  <1>2. \A k \in Steps : w[k] \in P
    <2>1. f[TailNode].to = TailNode
      BY DEF Follows
    <2> QED
      BY <2>1, WalkReaches, ReachWithin
  <1> HIDE DEF w
  <1>3. ASSUME NEW k \in Steps, k + 1 \in Steps, w[k + 1] # TailNode
        PROVE  w[k] # TailNode /\ <<w[k], w[k + 1]>> \in O
    <2>1. (k + 1) - 1 = k /\ k + 1 # 0
      BY NodesCount DEF Steps
    <2>2. w[k + 1] = IF w[k] = TailNode THEN TailNode ELSE f[w[k]].to
      BY <1>1, <1>3, <2>1 DEF StepOf
    <2> QED
      BY <1>2, <1>3, <2>2 DEF Follows
  <1>4. 0 \in T
    <2> SUFFICES ASSUME i + 1 \in Steps, w[i + 1] # TailNode PROVE w[i] # TailNode /\ <<w[i], w[i + 1]>> \in O
      BY NodesCount DEF Steps
    <2> QED
      BY <1>3
  <1>5. ASSUME NEW m \in T PROVE m + 1 \in T
    <2> DEFINE a == i + m + 1
    <2> SUFFICES ASSUME a + 1 \in Steps, w[a + 1] # TailNode
                 PROVE  w[i] # TailNode /\ <<w[i], w[a + 1]>> \in O
      <3>1. i + (m + 1) + 1 = a + 1
        BY NodesCount DEF Steps
      <3> QED
        BY <3>1
    <2>1. a \in Steps
      BY NodesCount DEF Steps
    <2>2. w[a] # TailNode /\ <<w[a], w[a + 1]>> \in O
      <3> HIDE DEF a
      <3> QED
        BY <1>3, <2>1
    <2>3. w[i] # TailNode /\ <<w[i], w[a]>> \in O
      BY <2>1, <2>2
    <2> HIDE DEF a
    <2>4. w[i] \in P /\ w[a] \in P /\ w[a + 1] \in P
      BY <1>2, <2>1
    <2> QED
      BY <2>2, <2>3, <2>4 DEF Ordered
  <1>6. T = Nat
    <2> HIDE DEF T
    <2>1. T \in SUBSET Nat
      BY DEF T
    <2> QED
      BY <1>4, <1>5, <2>1, NatSet
  <1> DEFINE m == j - i - 1
  <1> HIDE DEF T
  <1>7. m \in T /\ i + m + 1 = j
    BY <1>6, NodesCount DEF Steps
  <1> HIDE DEF m
  <1>8. i + m + 1 \in Steps /\ w[i + m + 1] # TailNode => w[i] # TailNode /\ <<w[i], w[i + m + 1]>> \in O
    BY <1>7 DEF T
  <1> QED
    BY <1>7, <1>8 DEF w

\* It visits them all: its last step, at the latest, is at the tail.
LEMMA WalkCovers ==
  ASSUME NEW f \in Heap, NEW O, NEW P, Ordered(O, P), Follows(f, O, P)
  PROVE  {WalkFrom(f)[i] : i \in DOMAIN WalkFrom(f)} \ {HeadNode, TailNode}
           = Reach(f) \ {HeadNode, TailNode}
  <1> DEFINE w == WalkFrom(f)
             N == Cardinality(Nodes)
             W == {w[i] : i \in DOMAIN w}
  <1>1. DOMAIN w = Steps /\ \A k \in Steps : w[k] = StepOf(f, w, k)
    BY WalkDef
  <1>2. f[TailNode].to = TailNode
    BY DEF Follows
  <1>3. \A k \in Steps : w[k] \in Reach(f)
    BY <1>2, WalkReaches
  <1>4. \A i, j \in Steps : i < j /\ w[j] # TailNode => w[i] # TailNode /\ <<w[i], w[j]>> \in O
    BY WalkOrdered
  <1> HIDE DEF w
  <1>5. Reach(f) \subseteq P /\ P \subseteq Cells
    BY ReachWithin DEF Ordered
  <1>6. 0 \in Steps /\ N \in Nat /\ Steps = 0 .. N + 1
    BY NodesCount DEF Steps
  <1>7. w[0] = HeadNode
    BY <1>1, <1>6 DEF StepOf
  <1>8. w[N + 1] = TailNode
    <2> SUFFICES ASSUME w[N + 1] # TailNode PROVE FALSE
      OBVIOUS
    <2> DEFINE v == [i \in 1 .. N + 1 |-> w[i]]
    <2>1. \A x \in P : <<x, x>> \notin O
      BY DEF Ordered
    <2>2. ASSUME NEW i \in 1 .. N + 1 PROVE w[i] \in Nodes
      <3>1. i \in Steps /\ 0 < i /\ (i = N + 1 \/ i < N + 1) /\ N + 1 \in Steps
        BY <1>6
      <3>2. w[i] # TailNode
        BY <1>4, <3>1
      <3>3. <<w[0], w[i]>> \in O
        BY <1>4, <1>6, <3>1, <3>2
      <3>4. w[i] # HeadNode
        BY <2>1, <1>3, <1>5, <1>7, <3>1, <3>3
      <3> QED
        BY <1>3, <1>5, <3>1, <3>2, <3>4 DEF Cells
    <2>3. v \in [1 .. N + 1 -> Nodes]
      BY <2>2
    <2>4. IsFiniteSet(1 .. N + 1) /\ Cardinality(1 .. N + 1) = N + 1
      BY <1>6, FS_Interval
    <2>5. PICK i, j \in 1 .. N + 1 : i # j /\ v[i] = v[j]
      <3> HIDE DEF v
      <3>1. Cardinality(Nodes) < Cardinality(1 .. N + 1)
        BY <2>4, <1>6
      <3> QED
        BY <2>3, <2>4, <3>1, NodesCount, FS_PigeonHole
    <2>6. w[i] = w[j] /\ i \in Steps /\ j \in Steps /\ (i < j \/ j < i)
      BY <2>5, <1>6
    <2>7. w[i] # TailNode /\ w[j] # TailNode /\ w[i] \in P
      BY <2>2, <2>6, <1>3, <1>5, BucketListAssumption
    <2> QED
      BY <2>1, <2>6, <2>7, <1>4
  <1>9. Closed(f, W)
    <2>1. HeadNode \in W
      BY <1>1, <1>6, <1>7
    <2>2. ASSUME NEW i \in Steps PROVE f[w[i]].to \in W
      <3>1. CASE i = N + 1
        BY <3>1, <1>1, <1>2, <1>8
      <3>2. CASE i # N + 1
        <4>1. i + 1 \in Steps /\ i + 1 # 0 /\ (i + 1) - 1 = i
          BY <3>2, <1>6
        <4>2. w[i + 1] = IF w[i] = TailNode THEN TailNode ELSE f[w[i]].to
          BY <1>1, <4>1 DEF StepOf
        <4> QED
          BY <1>1, <1>2, <4>1, <4>2
      <3> QED
        BY <3>1, <3>2
    <2> QED
      BY <1>1, <2>1, <2>2 DEF Closed
  <1>10. W \subseteq Reach(f) /\ W \in SUBSET Cells
    BY <1>1, <1>3, <1>5
  <1>11. Reach(f) \subseteq W
    <2> HIDE DEF W
    <2> QED
      BY <1>9, <1>10, ReachLeast
  <1>12. W = Reach(f)
    BY <1>10, <1>11
  <1> QED
    BY <1>12 DEF w

-----------------------------------------------------------------------------
\* The nodes of a sequence, and these with the two ends of the list.
Linked(s) == {s[i] : i \in DOMAIN s}
Places(s) == Linked(s) \cup {HeadNode, TailNode}

\* The order of the list: by timestamp, then in the order of linking.
Before(s, ts, m, n) ==
  \/ m = HeadNode /\ n # HeadNode
  \/ n = TailNode /\ m # TailNode
  \/ \E i, j \in DOMAIN s :
       /\ s[i] = m /\ s[j] = n
       /\ ts[m] < ts[n] \/ (ts[m] = ts[n] /\ i < j)

Order(s, ts) == {p \in Places(s) \X Places(s) : Before(s, ts, p[1], p[2])}

\* Every linked node points to a later one, and only linked nodes are marked.
ListOk ==
  /\ \A i, j \in DOMAIN linked : linked[i] = linked[j] => i = j
  /\ Linked(linked) \subseteq allocated
  /\ next[TailNode] = Ref(TailNode)
  /\ ~ next[HeadNode].marked
  /\ MarkedIn(next, Places(linked))
  /\ Follows(next, Order(linked, timestamp), Places(linked))

\* A linked node that is not marked can be reached.
Live == \A n \in Linked(linked) : next[n].marked \/ n \in Reach(next)

\* A node on its way into the list belongs to one thread.
Holding == {"search", "walk", "unlink", "check", "link"}

Owned ==
  /\ \A t \in Threads : pc[t] \in Holding => node[t] \in allocated \ Linked(linked)
  /\ \A t, u \in Threads : pc[t] \in Holding /\ pc[u] \in Holding /\ node[t] = node[u] => t = u
  /\ \A t \in Threads : pc[t] = "link" => next[node[t]] = Ref(right[t])

\* left comes before the new node and right after it, wherever they are by now.
LeftHere(t) ==
  left[t] = HeadNode \/ (left[t] \in Linked(linked) /\ timestamp[left[t]] <= timestamp[node[t]])

RightHere(t) ==
  right[t] = TailNode \/ (right[t] \in Linked(linked) /\ timestamp[node[t]] < timestamp[right[t]])

\* count marked nodes lead from left_next to right.
ChainHere(t) ==
  /\ <<left[t], left_next[t]>> \in Order(linked, timestamp)
  /\ MarkedPath(next, left_next[t], count[t], right[t])

\* What search() knows at each point.
SearchAt(t) ==
  /\ pc[t] = "walk" =>
       /\ right[t] \in Linked(linked) \cup {HeadNode}
       /\ <<right[t], right_next[t].to>> \in Order(linked, timestamp)
       /\ right_next[t].marked => next[right[t]] = right_next[t]
       /\ ~ right_next[t].marked /\ right[t] # HeadNode =>
            timestamp[right[t]] <= timestamp[node[t]]
       /\ right[t] # HeadNode => LeftHere(t) /\ ChainHere(t)
  /\ pc[t] = "unlink" => ChainHere(t) /\ left_next[t] # right[t]
  /\ pc[t] \in {"unlink", "check", "link"} => LeftHere(t) /\ RightHere(t)

SearchKnows == \A t \in Threads : SearchAt(t)

\* What dequeue() knows.
DequeueAt(t) ==
  /\ pc[t] \notin Holding \cup {"answered"} => node[t] = TailNode
  /\ pc[t] \in {"idle", "deq_head"} => left[t] = HeadNode /\ count[t] = 0
  /\ pc[t] \in {"deq_walk", "deq_unlink"} =>
       left[t] = HeadNode /\ ChainHere(t) /\ right[t] \in Linked(linked) \cup {TailNode}
  /\ pc[t] = "deq_unlink" => left_next[t] # right[t]
  /\ pc[t] \in {"deq_unlink", "mark"} => ~ right_next[t].marked
  /\ pc[t] = "mark" => right[t] \in Linked(linked)
  /\ pc[t] = "answered" /\ node[t] # TailNode =>
       node[t] \in Linked(linked) /\ next[node[t]].marked

DequeueKnows == \A t \in Threads : DequeueAt(t)

\* A chain in a to-free list is a path of marked nodes.
ChainsMarked ==
  \A t \in Threads : \A r \in to_free[t] :
    r.count > 0 /\ \E b \in Tailed : MarkedPath(next, r.start, r.count, b)

\* A CAS on the head that some thread is about to try.
Pending(t) == pc[t] \in {"unlink", "deq_unlink"} /\ left[t] = HeadNode

\* The head may point to n, now or after some of these CASes.
Ahead(S) ==
  /\ next[HeadNode].to \in S
  /\ \A t \in Threads : Pending(t) /\ left_next[t] \in S => right[t] \in S

Returns(n) == \A S \in SUBSET Tailed : Ahead(S) => n \in S

\* What a scan knows of the answers it may give.
ScanKnows ==
  \A t \in Threads :
    /\ pc[t] \in Scanning => FirstLive \in legal[t]
    /\ pc[t] = "deq_walk" /\ ~ next[left_next[t]].marked => left_next[t] \in legal[t]
    /\ pc[t] = "deq_unlink" /\ Returns(left_next[t]) => right[t] \in legal[t]

IndInv ==
  /\ TypeOK
  /\ ListOk
  /\ Live
  /\ Owned
  /\ SearchKnows
  /\ DequeueKnows
  /\ TakenOnce
  /\ ChainsMarked
  /\ ChainsExact
  /\ ScanKnows
  /\ ScanLegit

-----------------------------------------------------------------------------
\* s is a sequence of different nodes.
Listing(s) == s \in Seq(Nodes) /\ \A i, j \in DOMAIN s : s[i] = s[j] => i = j

\* What it means that one node comes before another.
LEMMA OrderMeans ==
  ASSUME NEW s, NEW ts, NEW m, NEW n
  PROVE  <<m, n>> \in Order(s, ts) <=> m \in Places(s) /\ n \in Places(s) /\ Before(s, ts, m, n)
  BY DEF Order

\* The types of the sets that a listing names.
LEMMA ListingType ==
  ASSUME NEW s, Listing(s)
  PROVE  /\ Linked(s) \subseteq Nodes
         /\ \A i \in DOMAIN s : s[i] \in Nodes
         /\ DOMAIN s \subseteq Nat
         /\ Places(s) \subseteq Cells
  BY DEF Listing, Linked, Places, Cells

\* The order of the list is a strict total order that starts at the head.
LEMMA OrderIsOrder ==
  ASSUME NEW s, NEW ts \in [Nodes -> Nat], Listing(s)
  PROVE  Ordered(Order(s, ts), Places(s))
  <1> DEFINE B(m, n) == Before(s, ts, m, n)
             P == Places(s)
  <1>1. /\ Linked(s) \subseteq Nodes
        /\ \A i \in DOMAIN s : s[i] \in Nodes
        /\ DOMAIN s \subseteq Nat
        /\ P \subseteq Cells
    BY ListingType
  <1>2. HeadNode \notin Linked(s) /\ TailNode \notin Linked(s) /\ HeadNode # TailNode
    BY <1>1, BucketListAssumption
  <1>3. \A i, j \in DOMAIN s : s[i] = s[j] => i = j
    BY DEF Listing
  <1>4. ASSUME NEW x \in P PROVE ~ B(x, x)
    BY <1>1, <1>3 DEF Before
  <1>5. ASSUME NEW x \in P, NEW y \in P, NEW z \in P, B(x, y), B(y, z) PROVE B(x, z)
    <2>1. CASE x = HeadNode
      <3>1. z # HeadNode
        BY <1>2, <1>5, <1>1, BucketListAssumption DEF Before
      <3> QED
        BY <2>1, <3>1 DEF Before
    <2>2. CASE z = TailNode
      <3>1. x # TailNode
        BY <1>2, <1>5, <1>1, BucketListAssumption DEF Before
      <3> QED
        BY <2>2, <3>1 DEF Before
    <2>3. CASE x # HeadNode /\ z # TailNode
      <3>1. y # TailNode /\ y # HeadNode
        BY <1>5, <2>3, <1>1, BucketListAssumption DEF Before
      <3>2. PICK i, j \in DOMAIN s :
              s[i] = x /\ s[j] = y /\ (ts[x] < ts[y] \/ (ts[x] = ts[y] /\ i < j))
        BY <1>5, <2>3, <3>1 DEF Before
      <3>3. PICK k, l \in DOMAIN s :
              s[k] = y /\ s[l] = z /\ (ts[y] < ts[z] \/ (ts[y] = ts[z] /\ k < l))
        BY <1>5, <2>3, <3>1 DEF Before
      <3>4. j = k
        BY <1>3, <3>2, <3>3
      <3>5. ts[x] \in Nat /\ ts[y] \in Nat /\ ts[z] \in Nat /\ i \in Nat /\ j \in Nat /\ l \in Nat
        BY <1>1, <3>2, <3>3
      <3>6. ts[x] < ts[z] \/ (ts[x] = ts[z] /\ i < l)
        BY <3>2, <3>3, <3>4, <3>5
      <3> QED
        BY <3>2, <3>3, <3>6 DEF Before
    <2> QED
      BY <2>1, <2>2, <2>3
  <1>6. ASSUME NEW x \in P, NEW y \in P, x # y PROVE B(x, y) \/ B(y, x)
    <2>1. CASE x \notin Linked(s) \/ y \notin Linked(s)
      BY <1>6, <2>1 DEF Places, Before
    <2>2. CASE x \in Linked(s) /\ y \in Linked(s)
      <3>1. PICK i, j \in DOMAIN s : s[i] = x /\ s[j] = y
        BY <2>2 DEF Linked
      <3>2. ts[x] \in Nat /\ ts[y] \in Nat /\ i \in Nat /\ j \in Nat /\ i # j
        BY <1>1, <1>6, <3>1
      <3>3. \/ ts[x] < ts[y] \/ (ts[x] = ts[y] /\ i < j)
            \/ ts[y] < ts[x] \/ (ts[y] = ts[x] /\ j < i)
        BY <3>2
      <3> QED
        BY <3>1, <3>3 DEF Before
    <2> QED
      BY <2>1, <2>2
  <1>7. \A x \in P : x = HeadNode \/ B(HeadNode, x)
    BY DEF Before
  <1> HIDE DEF B
  <1>8. \A x, y \in P : <<x, y>> \in Order(s, ts) <=> B(x, y)
    BY OrderMeans DEF B
  <1>9. HeadNode \in P /\ TailNode \in P
    BY DEF Places
  <1> HIDE DEF P
  <1>10. Ordered(Order(s, ts), P)
    BY <1>1, <1>4, <1>5, <1>6, <1>7, <1>8, <1>9 DEF Ordered
  <1> QED
    BY <1>10 DEF P

\* Nothing changes the order of linked nodes; a new node is put in its place.
LEMMA OrderGrows ==
  ASSUME NEW s, NEW ts \in [Nodes -> Nat], Listing(s), NEW us \in [Nodes -> Nat],
         \A n \in Linked(s) : us[n] = ts[n]
  PROVE  /\ Order(s, us) = Order(s, ts)
         /\ \A x \in Nodes \ Linked(s) :
              LET r == Append(s, x) IN
              /\ Listing(r) /\ Linked(r) = Linked(s) \cup {x}
              /\ Places(s) \subseteq Places(r) /\ Order(s, ts) \subseteq Order(r, us)
              /\ \A n \in Linked(s) : ts[n] <= us[x] => <<n, x>> \in Order(r, us)
              /\ \A n \in Linked(s) : us[x] < ts[n] => <<x, n>> \in Order(r, us)
              /\ <<HeadNode, x>> \in Order(r, us) /\ <<x, TailNode>> \in Order(r, us)
  <1>1. /\ Linked(s) \subseteq Nodes
        /\ \A i \in DOMAIN s : s[i] \in Nodes
        /\ DOMAIN s \subseteq Nat
    BY ListingType
  <1>2. HeadNode \notin Nodes /\ TailNode \notin Nodes /\ HeadNode # TailNode
    BY BucketListAssumption
  <1>3. \A m, n : Before(s, us, m, n) <=> Before(s, ts, m, n)
    BY DEF Before, Linked
  <1>4. Order(s, us) = Order(s, ts)
    BY <1>3 DEF Order
  <1>5. ASSUME NEW x \in Nodes \ Linked(s)
        PROVE  LET r == Append(s, x) IN
              /\ Listing(r) /\ Linked(r) = Linked(s) \cup {x}
              /\ Places(s) \subseteq Places(r) /\ Order(s, ts) \subseteq Order(r, us)
              /\ \A n \in Linked(s) : ts[n] <= us[x] => <<n, x>> \in Order(r, us)
              /\ \A n \in Linked(s) : us[x] < ts[n] => <<x, n>> \in Order(r, us)
              /\ <<HeadNode, x>> \in Order(r, us) /\ <<x, TailNode>> \in Order(r, us)
    <2> DEFINE r == Append(s, x)
               k == Len(s) + 1
    <2>1. /\ r \in Seq(Nodes) /\ k \in Nat /\ DOMAIN r = DOMAIN s \cup {k} /\ r[k] = x
          /\ \A i \in DOMAIN s : r[i] = s[i] /\ i < k
      <3>1. s \in Seq(Nodes) /\ Len(s) \in Nat /\ DOMAIN s = 1 .. Len(s)
        BY <1>5 DEF Listing
      <3>2. r \in Seq(Nodes) /\ Len(r) = Len(s) + 1 /\ r[k] = x
        BY <3>1, <1>5
      <3>3. \A i \in DOMAIN s : r[i] = s[i] /\ i < k
        BY <3>1
      <3> QED
        BY <3>1, <3>2, <3>3
    <2> HIDE DEF r, k
    <2>2. Linked(r) = Linked(s) \cup {x}
      BY <2>1 DEF Linked
    <2>3. Listing(r)
      BY <2>1, <1>5 DEF Listing, Linked
    <2>4. Places(s) \subseteq Places(r) /\ x \in Places(r)
      BY <2>2 DEF Places
    <2>5. \A m, n : Before(s, us, m, n) => Before(r, us, m, n)
      <3> SUFFICES ASSUME NEW m, NEW n, Before(s, us, m, n) PROVE Before(r, us, m, n)
        OBVIOUS
      <3>1. \A i \in DOMAIN s : i \in DOMAIN r /\ r[i] = s[i]
        BY <2>1
      <3> QED
        BY <3>1 DEF Before
    <2>6. Order(s, ts) \subseteq Order(r, us)
      BY <2>4, <2>5, <1>3 DEF Order
    <2>7. ASSUME NEW n \in Linked(s)
          PROVE  /\ ts[n] <= us[x] => <<n, x>> \in Order(r, us)
                 /\ us[x] < ts[n] => <<x, n>> \in Order(r, us)
      <3>1. PICK i \in DOMAIN s : s[i] = n
        BY DEF Linked
      <3>2. r[i] = n /\ r[k] = x /\ i < k /\ i \in DOMAIN r /\ k \in DOMAIN r /\ us[n] = ts[n]
        BY <2>1, <3>1
      <3>3. us[n] \in Nat /\ us[x] \in Nat /\ ts[n] \in Nat
        BY <1>1
      <3>4. ts[n] <= us[x] => Before(r, us, n, x)
        BY <3>2, <3>3 DEF Before
      <3>5. us[x] < ts[n] => Before(r, us, x, n)
        BY <3>2, <3>3 DEF Before
      <3>6. n \in Places(r)
        BY <2>2 DEF Places
      <3> QED
        BY <3>4, <3>5, <3>6, <2>4, OrderMeans
    <2>8. <<HeadNode, x>> \in Order(r, us) /\ <<x, TailNode>> \in Order(r, us)
      <3>1. HeadNode \in Places(r) /\ TailNode \in Places(r)
        BY DEF Places
      <3> QED
        BY <3>1, <2>4, <1>2, OrderMeans DEF Before
    <2> QED
      BY <2>2, <2>3, <2>4, <2>6, <2>7, <2>8 DEF r
  <1> QED
    BY <1>4, <1>5

-----------------------------------------------------------------------------
\* What a step may do to the list: nothing, or one CAS or store.
Quiet == UNCHANGED <<next, payload, to_free, linked>>

Cut(t) ==
  /\ pc[t] \in {"unlink", "deq_unlink"}
  /\ next[left[t]] = Ref(left_next[t])
  /\ Set(next, left[t], Ref(right[t]))
  /\ ConnectToBeFreed(t, left_next[t], count[t])
  /\ UNCHANGED <<timestamp, allocated, linked>>

Point(t) ==
  /\ pc[t] = "check"
  /\ Set(next, node[t], Ref(right[t]))
  /\ UNCHANGED <<timestamp, allocated, payload, to_free, linked>>

Put(t) ==
  /\ pc[t] = "link"
  /\ next[left[t]] = Ref(right[t])
  /\ Set(next, left[t], Ref(node[t]))
  /\ linked' = Append(linked, node[t])
  /\ UNCHANGED <<timestamp, allocated, payload, to_free>>

Delete(t) ==
  /\ pc[t] = "mark"
  /\ next[right[t]] = right_next[t]
  /\ Set(next, right[t], Marked(right_next[t]))
  /\ UNCHANGED <<timestamp, allocated, payload, to_free, linked>>

Allocate ==
  \/ UNCHANGED <<timestamp, allocated>>
  \/ \E n \in Nodes \ allocated, ts \in Timestamps :
       Set(timestamp, n, ts) /\ allocated' = allocated \cup {n}

Step(t) == Insert(t) \/ Dequeue(t)

\* Every step is one of these.
LEMMA StepKinds ==
  ASSUME NEW t \in Threads, Step(t)
  PROVE  (Quiet /\ Allocate) \/ Cut(t) \/ Point(t) \/ Put(t) \/ Delete(t)
  <1>1. ASSUME NEW n \in Nodes, NEW ts \in Timestamps, InsertCall(t, n, ts) PROVE Quiet /\ Allocate
    BY <1>1 DEF InsertCall, Quiet, Allocate
  <1>2. ASSUME SearchHead(t) \/ SearchWalk(t) \/ DequeueCall(t) \/ DeqHead(t) \/ DeqWalk(t) \/ DequeueReturn(t)
        PROVE  Quiet /\ Allocate
    BY <1>2 DEF SearchHead, SearchWalk, DequeueCall, DeqHead, DeqWalk, DequeueReturn, Quiet, Allocate, list
  <1>3. ASSUME SearchUnlink(t) PROVE (Quiet /\ Allocate) \/ Cut(t)
    BY <1>3 DEF SearchUnlink, UnlinkChain, Quiet, Allocate, Cut
  <1>4. ASSUME DeqUnlink(t) PROVE (Quiet /\ Allocate) \/ Cut(t)
    BY <1>4 DEF DeqUnlink, UnlinkChain, Quiet, Allocate, Cut
  <1>5. ASSUME SearchCheck(t) PROVE (Quiet /\ Allocate) \/ Point(t)
    BY <1>5 DEF SearchCheck, Quiet, Allocate, Point
  <1>6. ASSUME Link(t) PROVE (Quiet /\ Allocate) \/ Put(t)
    BY <1>6 DEF Link, Quiet, Allocate, Put
  <1>7. ASSUME DeqMark(t) PROVE (Quiet /\ Allocate) \/ Delete(t)
    BY <1>7 DEF DeqMark, Quiet, Allocate, Delete
  <1> QED
    BY <1>1, <1>2, <1>3, <1>4, <1>5, <1>6, <1>7 DEF Step, Insert, Dequeue

\* The other threads' locals stay.
Others(t) ==
  \A u \in Threads : u # t =>
    /\ pc'[u] = pc[u] /\ node'[u] = node[u]
    /\ left'[u] = left[u] /\ left_next'[u] = left_next[u]
    /\ right'[u] = right[u] /\ right_next'[u] = right_next[u]
    /\ count'[u] = count[u] /\ to_free'[u] = to_free[u]

\* A thread writes no local of another one.
LEMMA StepOthers ==
  ASSUME TypeOK, NEW t \in Threads, Step(t)
  PROVE  Others(t)
  <1> USE DEF Others, TypeOK, Set, Goto, regs, list, ClearRegs, ConnectToBeFreed
  <1>1. ASSUME NEW n \in Nodes, NEW ts \in Timestamps, InsertCall(t, n, ts) PROVE Others(t)
    BY <1>1 DEF InsertCall
  <1>2. ASSUME SearchHead(t) PROVE Others(t)
    BY <1>2 DEF SearchHead
  <1>3. ASSUME SearchWalk(t) PROVE Others(t)
    BY <1>3 DEF SearchWalk
  <1>4. ASSUME SearchUnlink(t) PROVE Others(t)
    BY <1>4 DEF SearchUnlink, UnlinkChain
  <1>5. ASSUME SearchCheck(t) PROVE Others(t)
    BY <1>5 DEF SearchCheck
  <1>6. ASSUME Link(t) PROVE Others(t)
    BY <1>6 DEF Link
  <1>7. ASSUME DequeueCall(t) PROVE Others(t)
    BY <1>7 DEF DequeueCall
  <1>8. ASSUME DeqHead(t) PROVE Others(t)
    BY <1>8 DEF DeqHead
  <1>9. ASSUME DeqWalk(t) PROVE Others(t)
    BY <1>9 DEF DeqWalk
  <1>10. ASSUME DeqUnlink(t) PROVE Others(t)
    BY <1>10 DEF DeqUnlink, UnlinkChain
  <1>11. ASSUME DeqMark(t) PROVE Others(t)
    BY <1>11 DEF DeqMark
  <1>12. ASSUME DequeueReturn(t) PROVE Others(t)
    BY <1>12 DEF DequeueReturn
  <1> QED
    BY <1>1, <1>2, <1>3, <1>4, <1>5, <1>6, <1>7, <1>8, <1>9, <1>10, <1>11, <1>12
       DEF Step, Insert, Dequeue

-----------------------------------------------------------------------------
CoreType ==
  /\ next \in Heap
  /\ timestamp \in [Nodes -> Nat]
  /\ allocated \subseteq Nodes
  /\ linked \in Seq(Nodes)

\* What a step leaves as it was: marked nodes, the linked ones and their order.
Grow ==
  /\ Frozen(next, next')
  /\ Linked(linked) \subseteq Linked(linked')
  /\ Order(linked, timestamp) \subseteq Order(linked', timestamp')
  /\ allocated \subseteq allocated'
  /\ \A n \in allocated : timestamp'[n] = timestamp[n]

\* The list, as the lemmas on lists need it.
ListGood ==
  /\ CoreType
  /\ Listing(linked)
  /\ Ordered(Order(linked, timestamp), Places(linked))
  /\ Follows(next, Order(linked, timestamp), Places(linked))
  /\ MarkedIn(next, Places(linked))
  /\ Linked(linked) \subseteq allocated
  /\ Reach(next) \subseteq Places(linked) /\ Closed(next, Reach(next))
  /\ next[TailNode] = Ref(TailNode) /\ ~ next[HeadNode].marked

\* Linked nodes are nodes, and the ends of the list are not.
PlacesGood ==
  /\ Linked(linked) \subseteq Nodes
  /\ HeadNode \notin Nodes /\ TailNode \notin Nodes /\ HeadNode # TailNode
  /\ Places(linked) = Linked(linked) \cup {HeadNode, TailNode}
  /\ Cells = Nodes \cup {HeadNode, TailNode}
  /\ Tailed = Nodes \cup {TailNode}

\* A good list has places of the right kinds.
LEMMA PlaceTypes ==
  ASSUME ListGood
  PROVE  PlacesGood
  BY BucketListAssumption DEF ListGood, CoreType, Places, Cells, Tailed, PlacesGood

\* The two parts of the invariant that speak of the list give all of this.
LEMMA GoodNow == CoreType /\ ListOk => ListGood /\ PlacesGood
  <1> SUFFICES ASSUME CoreType, ListOk PROVE ListGood
    BY PlaceTypes
  <1>1. Listing(linked)
    BY DEF ListOk, CoreType, Listing
  <1>2. Ordered(Order(linked, timestamp), Places(linked))
    BY <1>1, OrderIsOrder DEF CoreType
  <1>3. Reach(next) \subseteq Places(linked) /\ Closed(next, Reach(next))
    BY <1>1, <1>2, ReachWithin, ReachClosed DEF CoreType, ListOk
  <1> QED
    BY <1>1, <1>2, <1>3 DEF ListOk, ListGood

\* The same in the next state.
LEMMA GoodNext == (CoreType /\ ListOk => ListGood /\ PlacesGood)'
  BY GoodNow, PTL

\* TypeOK gives the types of the list.
LEMMA TypeCore == TypeOK => CoreType
  BY DEF TypeOK, CoreType, Heap, Cells

\* What the lemmas on lists need, from the invariant.
LEMMA ListFacts ==
  ASSUME TypeOK, ListOk
  PROVE  ListGood
  BY GoodNow, TypeCore

\* What a thread whose CAS cuts a chain knows.
CutGood(t) ==
  /\ left[t] \in Linked(linked) \cup {HeadNode} /\ left[t] \in Reach(next)
  /\ ~ next[left[t]].marked /\ next[left[t]].to = left_next[t]
  /\ left_next[t] \in Places(linked)
  /\ count[t] \in Nat
  /\ MarkedPath(next, left_next[t], count[t], right[t])
  /\ left_next[t] # right[t]
  /\ right[t] \in Linked(linked) \cup {TailNode}
  /\ <<left[t], right[t]>> \in Order(linked, timestamp)
  /\ \A n \in Cells : n # left[t] => next'[n] = next[n]
  /\ next'[left[t]] = Ref(right[t])

\* The CAS of search() and the one of dequeue(), if they succeed, cut a path of
\* marked nodes behind a reachable node.
LEMMA CutKnows ==
  ASSUME TypeOK, ListOk, Live, SearchKnows, DequeueKnows, NEW t \in Threads, Cut(t)
  PROVE  CutGood(t)
  <1>l. ListGood
    BY ListFacts
  <1>p. PlacesGood
    BY <1>l, PlaceTypes
  <1>1. /\ left[t] \in Linked(linked) \cup {HeadNode}
        /\ <<left[t], left_next[t]>> \in Order(linked, timestamp)
        /\ MarkedPath(next, left_next[t], count[t], right[t])
        /\ left_next[t] # right[t]
        /\ right[t] \in Linked(linked) \cup {TailNode}
    BY DEF Cut, SearchKnows, SearchAt, DequeueKnows, DequeueAt, ChainHere, LeftHere, RightHere
  <1>2. ~ next[left[t]].marked /\ next[left[t]].to = left_next[t]
    BY DEF Cut, Ref
  <1>4. left[t] \in Reach(next)
    BY <1>1, <1>2, <1>l DEF ListGood, Live, Closed
  <1>5. left[t] \in Places(linked) /\ left_next[t] \in Places(linked) /\ right[t] \in Places(linked)
    BY <1>1, OrderMeans DEF Places
  <1>6. count[t] \in Nat
    BY NodesCount DEF TypeOK
  <1>7. left_next[t] = right[t] \/ <<left_next[t], right[t]>> \in Order(linked, timestamp)
    <2>1. PICK c : Path(next, c, count[t], left_next[t], right[t])
      BY <1>1 DEF MarkedPath
    <2> DEFINE O == Order(linked, timestamp)
               P == Places(linked)
    <2>2. next \in Heap /\ Ordered(O, P) /\ Follows(next, O, P) /\ MarkedIn(next, P)
      BY <1>l DEF ListGood, CoreType
    <2> HIDE DEF O, P
    <2>3. left_next[t] = right[t] \/ <<left_next[t], right[t]>> \in O
      <3>1. left_next[t] \in P
        BY <1>5 DEF P
      <3>2. PathInOrder(O, P, c, count[t], left_next[t], right[t])
        BY <2>1, <2>2, <3>1, <1>6, PathOrdered
      <3> QED
        BY <3>2 DEF PathInOrder
    <2> QED
      BY <2>3 DEF O
  <1>8. <<left[t], right[t]>> \in Order(linked, timestamp)
    BY <1>1, <1>5, <1>7, <1>l DEF ListGood, Ordered
  <1>9. /\ \A n \in Cells : n # left[t] => next'[n] = next[n]
        /\ next'[left[t]] = Ref(right[t])
    BY <1>1, <1>l, <1>p DEF Cut, Set, ListGood, CoreType, Heap, PlacesGood
  <1> QED
    BY <1>1, <1>2, <1>4, <1>5, <1>6, <1>8, <1>9 DEF CutGood

\* The cut takes away exactly the chain.
LEMMA CutReach ==
  ASSUME ListGood, NEW t \in Threads, CutGood(t), next' \in Heap,
         NEW c, Path(next, c, count[t], left_next[t], right[t])
  PROVE  LET D == {c[i] : i \in 1 .. count[t]} IN
         D \subseteq Reach(next) /\ Reach(next') = Reach(next) \ D
  <1> DEFINE O == Order(linked, timestamp)
             P == Places(linked)
             f == next
             g == next'
  <1>1. f \in Heap /\ Ordered(O, P) /\ Follows(f, O, P) /\ MarkedIn(f, P)
    BY DEF ListGood, CoreType
  <1>2. left[t] \in Reach(f) /\ ~ f[left[t]].marked /\ left[t] # TailNode /\ count[t] \in Nat
    BY PlaceTypes DEF CutGood, PlacesGood
  <1>3. g[left[t]].to = right[t] /\ \A n \in Cells : n # left[t] => g[n].to = f[n].to
    BY DEF CutGood, Ref
  <1>4. Path(f, c, count[t], f[left[t]].to, right[t])
    BY DEF CutGood
  <1>5. g \in Heap
    OBVIOUS
  <1> HIDE DEF O, P, f, g
  <1>6. LET D == {c[i] : i \in 1 .. count[t]} IN D \subseteq Reach(f) /\ Reach(g) = Reach(f) \ D
    BY <1>1, <1>2, <1>3, <1>4, <1>5, ReachCut
  <1> QED
    BY <1>6 DEF f, g

\* A cut keeps the list in order and takes no unmarked node out of reach.
LEMMA CutStep ==
  ASSUME TypeOK, ListOk, Live, SearchKnows, DequeueKnows, NEW t \in Threads, Cut(t)
  PROVE  CoreType' /\ ListOk' /\ Live' /\ Grow
  <1>l. ListGood
    BY ListFacts
  <1>c. CutGood(t)
    BY CutKnows
  <1>p. PlacesGood
    BY <1>l, PlaceTypes
  <1>1. linked' = linked /\ timestamp' = timestamp /\ allocated' = allocated
    BY DEF Cut
  <1>2. next' \in Heap
    <2>1. Ref(right[t]) \in Refs
      BY <1>c, <1>p DEF CutGood, Refs, Ref, PlacesGood
    <2> QED
      BY <1>l, <2>1 DEF Cut, Set, ListGood, CoreType, Heap
  <1>3. Frozen(next, next')
    BY <1>c DEF Frozen, CutGood
  <1>4. Follows(next', Order(linked, timestamp), Places(linked))
    <2>1. next'[TailNode].to = TailNode
      BY <1>c, <1>l, <1>p DEF CutGood, ListGood, Ref, PlacesGood
    <2>2. ASSUME NEW n \in Places(linked), n # TailNode
          PROVE  next'[n].to \in Places(linked) /\ <<n, next'[n].to>> \in Order(linked, timestamp)
      <3>1. CASE n = left[t]
        BY <3>1, <1>c, <1>p DEF CutGood, Ref, PlacesGood
      <3>2. CASE n # left[t]
        <4>1. next'[n] = next[n]
          BY <3>2, <1>c, <1>p DEF CutGood, PlacesGood
        <4> QED
          BY <2>2, <4>1, <1>l DEF ListGood, Follows
      <3> QED
        BY <3>1, <3>2
    <2> QED
      BY <2>1, <2>2 DEF Follows
  <1>5. next'[TailNode] = Ref(TailNode) /\ ~ next'[HeadNode].marked /\ MarkedIn(next', Places(linked))
    BY <1>c, <1>l, <1>p DEF CutGood, ListGood, Ref, MarkedIn, PlacesGood
  <1>6. Live'
    <2>1. PICK c : Path(next, c, count[t], left_next[t], right[t])
      BY <1>c DEF CutGood, MarkedPath
    <2>2. Reach(next') = Reach(next) \ {c[i] : i \in 1 .. count[t]}
      BY <1>2, <1>c, <1>l, <1>p, <2>1, CutReach DEF PlacesGood
    <2>3. \A i \in 1 .. count[t] : c[i] \in Nodes /\ next[c[i]].marked
      BY <2>1 DEF Path
    <2>4. ASSUME NEW n \in Linked(linked), ~ next'[n].marked PROVE n \in Reach(next')
      <3>1. ~ next[n].marked
        BY <2>4, <1>3, <1>p DEF Frozen, PlacesGood
      <3>2. n \in Reach(next)
        BY <3>1 DEF Live
      <3> QED
        BY <2>2, <2>3, <3>1, <3>2
    <2> QED
      BY <1>1, <2>4 DEF Live
  <1>7. ListOk'
    BY <1>1, <1>4, <1>5 DEF ListOk
  <1> QED
    BY <1>l, <1>1, <1>2, <1>3, <1>6, <1>7 DEF ListGood, CoreType, Grow

\* The store of insert() into its new node does not touch the list.
LEMMA PointStep ==
  ASSUME TypeOK, ListOk, Live, Owned, SearchKnows, NEW t \in Threads, Point(t)
  PROVE  CoreType' /\ ListOk' /\ Live' /\ Grow /\ Reach(next') = Reach(next)
  <1>l. ListGood
    BY ListFacts
  <1>p. PlacesGood
    BY <1>l, PlaceTypes
  <1>1. linked' = linked /\ timestamp' = timestamp /\ allocated' = allocated
    BY DEF Point
  <1>2. node[t] \in Nodes /\ node[t] \notin Places(linked)
    BY <1>l, <1>p DEF Owned, Holding, Point, ListGood, CoreType, PlacesGood
  <1>4. /\ \A n \in Cells : n # node[t] => next'[n] = next[n]
        /\ next'[node[t]] = Ref(right[t])
        /\ next' \in Heap
    <2>1. Ref(right[t]) \in Refs
      BY <1>p DEF SearchKnows, SearchAt, Point, RightHere, Refs, Ref, PlacesGood
    <2> QED
      BY <1>2, <1>l, <1>p, <2>1 DEF Point, Set, ListGood, CoreType, Heap, PlacesGood
  <1>5. Frozen(next, next')
    BY <1>2, <1>4, <1>l DEF Frozen, MarkedIn, ListGood
  <1>6. \A n \in Places(linked) : next'[n] = next[n]
    BY <1>2, <1>4, <1>p DEF PlacesGood
  <1>7. Follows(next', Order(linked, timestamp), Places(linked))
    BY <1>6, <1>l, <1>p DEF Follows, ListGood, PlacesGood
  <1>8. next'[TailNode] = Ref(TailNode) /\ ~ next'[HeadNode].marked /\ MarkedIn(next', Places(linked))
    BY <1>2, <1>4, <1>6, <1>l, <1>p DEF Ref, MarkedIn, ListGood, PlacesGood
  <1>r. Reach(next') = Reach(next)
    BY <1>4, <1>6, <1>l, ReachElsewhere DEF ListGood, CoreType
  <1>9. Live'
    BY <1>1, <1>6, <1>p, <1>r DEF Live, PlacesGood
  <1>10. ListOk'
    BY <1>1, <1>7, <1>8 DEF ListOk
  <1> QED
    BY <1>l, <1>1, <1>4, <1>5, <1>9, <1>10, <1>r DEF CoreType, Grow, ListGood

\* The CAS of insert() puts the new node in its place, in reach.
LEMMA PutStep ==
  ASSUME TypeOK, ListOk, Live, Owned, SearchKnows, NEW t \in Threads, Put(t)
  PROVE  /\ CoreType' /\ ListOk' /\ Live' /\ Grow
         /\ Linked(linked') = Linked(linked) \cup {node[t]}
         /\ Reach(next') = Reach(next) \cup {node[t]}
  <1>l. ListGood
    BY ListFacts
  <1>p. PlacesGood
    BY <1>l, PlaceTypes
  <1> DEFINE x == node[t]
             l == left[t]
             b == right[t]
  <1>1. timestamp' = timestamp /\ allocated' = allocated /\ linked' = Append(linked, x)
    BY DEF Put
  <1>2. x \in Nodes /\ x \notin Places(linked) /\ x \in allocated
    BY <1>l, <1>p DEF Owned, Holding, Put, ListGood, CoreType, PlacesGood
  <1>3. /\ l = HeadNode \/ (l \in Linked(linked) /\ timestamp[l] <= timestamp[x])
        /\ b = TailNode \/ (b \in Linked(linked) /\ timestamp[x] < timestamp[b])
    BY DEF SearchKnows, SearchAt, Put, LeftHere, RightHere
  <1>4. next[l] = Ref(b) /\ next[x] = Ref(b) /\ next' = [next EXCEPT ![l] = Ref(x)]
    BY DEF Put, Owned, Set
  <1> HIDE DEF x, l, b
  <1>5. l \in Places(linked) /\ b \in Places(linked) /\ l # TailNode /\ l # x
    BY <1>2, <1>3, <1>p DEF PlacesGood
  <1>6. /\ \A n \in Cells : n # l => next'[n] = next[n]
        /\ next'[l] = Ref(x)
        /\ next' \in Heap
    <2>1. Ref(x) \in Refs
      BY <1>2 DEF Refs, Ref
    <2> QED
      BY <1>4, <1>5, <1>l, <1>p, <2>1 DEF ListGood, CoreType, Heap, PlacesGood
  <1>7. /\ Listing(linked') /\ Linked(linked') = Linked(linked) \cup {x}
        /\ Order(linked, timestamp) \subseteq Order(linked', timestamp)
        /\ \A n \in Linked(linked) : timestamp[n] <= timestamp[x] => <<n, x>> \in Order(linked', timestamp)
        /\ \A n \in Linked(linked) : timestamp[x] < timestamp[n] => <<x, n>> \in Order(linked', timestamp)
        /\ <<HeadNode, x>> \in Order(linked', timestamp) /\ <<x, TailNode>> \in Order(linked', timestamp)
    <2>1. x \in Nodes \ Linked(linked)
      BY <1>2, <1>p DEF PlacesGood
    <2>2. Listing(linked) /\ timestamp \in [Nodes -> Nat]
      BY <1>l DEF ListGood, CoreType
    <2> QED
      BY <1>1, <2>1, <2>2, OrderGrows
  <1>8. <<l, x>> \in Order(linked', timestamp) /\ <<x, b>> \in Order(linked', timestamp)
    BY <1>3, <1>7
  <1>9. Places(linked') = Places(linked) \cup {x}
    BY <1>7 DEF Places
  <1>10. Frozen(next, next')
    BY <1>4, <1>6 DEF Frozen, Ref
  <1>11. Follows(next', Order(linked', timestamp), Places(linked'))
    <2>1. next'[TailNode].to = TailNode
      BY <1>5, <1>6, <1>l, <1>p DEF ListGood, Ref, PlacesGood
    <2>2. ASSUME NEW n \in Places(linked'), n # TailNode
          PROVE  next'[n].to \in Places(linked') /\ <<n, next'[n].to>> \in Order(linked', timestamp)
      <3>1. CASE n = l
        BY <3>1, <1>6, <1>8, <1>9 DEF Ref
      <3>2. CASE n = x
        <4>1. next'[n] = Ref(b)
          BY <3>2, <1>2, <1>4, <1>5, <1>6, <1>p DEF PlacesGood
        <4> QED
          BY <3>2, <4>1, <1>5, <1>8, <1>9 DEF Ref
      <3>3. CASE n # l /\ n # x
        <4>1. n \in Places(linked) /\ next'[n] = next[n]
          BY <3>3, <1>2, <1>6, <1>9, <1>p DEF PlacesGood
        <4> QED
          BY <2>2, <4>1, <1>7, <1>9, <1>l DEF ListGood, Follows
      <3> QED
        BY <3>1, <3>2, <3>3
    <2> QED
      BY <2>1, <2>2 DEF Follows
  <1>12. /\ next'[TailNode] = Ref(TailNode) /\ ~ next'[HeadNode].marked
         /\ MarkedIn(next', Places(linked'))
    BY <1>5, <1>6, <1>9, <1>l, <1>p DEF ListGood, PlacesGood, Ref, MarkedIn
  <1>13. l \in Reach(next) /\ Reach(next') = Reach(next) \cup {x}
    <2>1. ~ next[l].marked
      BY <1>4 DEF Ref
    <2>2. l \in Reach(next)
      BY <1>3, <2>1, <1>l DEF Live, ListGood, Closed
    <2>3. next'[l].to = x /\ next[x].to = next[l].to /\ \A n \in Cells : n # l => next'[n].to = next[n].to
      BY <1>4, <1>6 DEF Ref
    <2> QED
      BY <1>2, <1>5, <1>6, <1>l, <2>2, <2>3, ReachLink DEF ListGood, CoreType
  <1>14. Live'
    <2>1. ASSUME NEW n \in Linked(linked'), ~ next'[n].marked PROVE n \in Reach(next')
      <3>1. CASE n = x
        BY <3>1, <1>13
      <3>2. CASE n # x
        <4>1. n \in Linked(linked) /\ ~ next[n].marked
          BY <3>2, <2>1, <1>7, <1>10, <1>p DEF Frozen, PlacesGood
        <4> QED
          BY <4>1, <1>13 DEF Live
      <3> QED
        BY <3>1, <3>2
    <2> QED
      BY <2>1 DEF Live
  <1>15. ListOk'
    <2>1. Linked(linked') \subseteq allocated
      BY <1>2, <1>7, <1>l DEF ListGood
    <2> QED
      BY <1>1, <1>7, <1>11, <1>12, <2>1 DEF ListOk, Listing
  <1>16. CoreType'
    BY <1>1, <1>6, <1>7, <1>l DEF CoreType, ListGood, Listing
  <1>17. Grow
    BY <1>1, <1>7, <1>10 DEF Grow
  <1> QED
    BY <1>7, <1>13, <1>14, <1>15, <1>16, <1>17 DEF x

\* The CAS that marks a node moves no pointer.
LEMMA DeleteStep ==
  ASSUME TypeOK, ListOk, Live, DequeueKnows, NEW t \in Threads, Delete(t)
  PROVE  /\ CoreType' /\ ListOk' /\ Live' /\ Grow
         /\ \A n \in Cells : next'[n].to = next[n].to
         /\ Reach(next') = Reach(next)
         /\ right[t] \in Linked(linked) /\ ~ next[right[t]].marked /\ next'[right[t]].marked
         /\ \A n \in Cells : n # right[t] => next'[n] = next[n]
  <1>l. ListGood
    BY ListFacts
  <1>p. PlacesGood
    BY <1>l, PlaceTypes
  <1>1. linked' = linked /\ timestamp' = timestamp /\ allocated' = allocated
    BY DEF Delete
  <1>2. right[t] \in Linked(linked) /\ ~ next[right[t]].marked /\ next[right[t]] = right_next[t]
    BY DEF Delete, DequeueKnows, DequeueAt
  <1>3. right[t] \in Nodes /\ right[t] \in Cells
    BY <1>2, <1>p DEF PlacesGood
  <1>4. right_next[t] \in Refs /\ next \in Heap
    BY <1>l DEF TypeOK, ListGood, CoreType
  <1>5. /\ Marked(right_next[t]) \in Refs
        /\ Marked(right_next[t]).to = right_next[t].to
        /\ Marked(right_next[t]).marked
    BY <1>4 DEF Marked, Refs
  <1>6. /\ \A n \in Cells : n # right[t] => next'[n] = next[n]
        /\ next'[right[t]] = Marked(right_next[t])
        /\ next' \in Heap
    BY <1>3, <1>4, <1>5 DEF Delete, Set, Heap
  <1>7. \A n \in Cells : next'[n].to = next[n].to
    BY <1>2, <1>5, <1>6
  <1>8. Frozen(next, next')
    BY <1>2, <1>6 DEF Frozen
  <1>9. Reach(next') = Reach(next)
    <2>1. Reach(next) \subseteq Cells
      BY DEF Reach
    <2> QED
      BY <1>4, <1>6, <1>7, <2>1, ReachElsewhere
  <1>10. Follows(next', Order(linked, timestamp), Places(linked))
    BY <1>7, <1>l, <1>p DEF Follows, ListGood, PlacesGood
  <1>11. next'[TailNode] = Ref(TailNode) /\ ~ next'[HeadNode].marked /\ MarkedIn(next', Places(linked))
    BY <1>2, <1>3, <1>6, <1>l, <1>p DEF ListGood, MarkedIn, PlacesGood
  <1>12. Live'
    BY <1>1, <1>2, <1>5, <1>6, <1>9, <1>p DEF Live, PlacesGood
  <1>13. ListOk'
    BY <1>1, <1>10, <1>11 DEF ListOk
  <1>14. CoreType' /\ Grow
    BY <1>l, <1>1, <1>6, <1>8 DEF CoreType, Grow, ListGood
  <1> QED
    BY <1>2, <1>5, <1>6, <1>7, <1>9, <1>12, <1>13, <1>14

\* The steps that leave the list alone, one of which allocates a node.
LEMMA QuietStep ==
  ASSUME TypeOK, ListOk, Live, Quiet, Allocate
  PROVE  CoreType' /\ ListOk' /\ Live' /\ Grow
  <1>l. ListGood
    BY ListFacts
  <1>p. PlacesGood
    BY <1>l, PlaceTypes
  <1>1. next' = next /\ linked' = linked
    BY DEF Quiet
  <1>2. /\ timestamp' \in [Nodes -> Nat] /\ allocated' \subseteq Nodes
        /\ allocated \subseteq allocated' /\ \A n \in allocated : timestamp'[n] = timestamp[n]
    BY <1>l, BucketListAssumption DEF ListGood, CoreType, Allocate, Set
  <1>3. Order(linked, timestamp') = Order(linked, timestamp)
    <2>1. Listing(linked) /\ timestamp \in [Nodes -> Nat] /\ \A n \in Linked(linked) : timestamp'[n] = timestamp[n]
      BY <1>l, <1>2 DEF ListGood, CoreType
    <2> QED
      BY <1>2, <2>1, OrderGrows
  <1>4. CoreType' /\ Grow
    BY <1>l, <1>1, <1>2, <1>3 DEF CoreType, ListGood, Grow, Frozen
  <1>5. ListOk'
    BY <1>1, <1>2, <1>3 DEF ListOk
  <1>6. Live'
    BY <1>1 DEF Live
  <1> QED
    BY <1>4, <1>5, <1>6

\* So every step keeps the list in order, and no unmarked node is lost.
LEMMA ListStep ==
  ASSUME TypeOK, ListOk, Live, Owned, SearchKnows, DequeueKnows, NEW t \in Threads, Step(t)
  PROVE  CoreType' /\ ListOk' /\ Live' /\ Grow
  BY StepKinds, QuietStep, CutStep, PointStep, PutStep, DeleteStep

-----------------------------------------------------------------------------
\* The answer of a scan done in one step is a node or the tail.
LEMMA FirstLiveIs == FirstLive = LiveFrom(next)[next[HeadNode].to]
  BY DEF FirstLive, LiveFrom

\* FirstLive has a value: past the marked nodes there is always an end.
LEMMA FirstLiveType == CoreType /\ ListOk => FirstLive \in Tailed
  <1> SUFFICES ASSUME CoreType, ListOk PROVE FirstLive \in Tailed
    OBVIOUS
  <1>1. ListGood /\ PlacesGood
    BY GoodNow
  <1>2. next[HeadNode].to \in Tailed
    BY <1>1 DEF ListGood, PlacesGood, CoreType, Heap, Refs
  <1> DEFINE O == Order(linked, timestamp)
             P == Places(linked)
  <1>3. next \in Heap /\ Ordered(O, P) /\ Follows(next, O, P) /\ MarkedIn(next, P)
    BY <1>1 DEF ListGood, CoreType
  <1> HIDE DEF O, P
  <1> QED
    BY <1>2, <1>3, LiveType, FirstLiveIs

\* The same in the next state.
LEMMA FirstLiveTypeNext == (CoreType /\ ListOk => FirstLive \in Tailed)'
  BY FirstLiveType, PTL

\* A chain that ends at a marked node can be counted on.
LEMMA CountBound ==
  ASSUME TypeOK, ListOk, NEW t \in Threads, ChainHere(t), right[t] \in Nodes, next[right[t]].marked
  PROVE  /\ count[t] + 1 \in 0 .. Cardinality(Nodes)
         /\ MarkedPath(next, left_next[t], count[t] + 1, next[right[t]].to)
  <1> DEFINE O == Order(linked, timestamp)
             P == Places(linked)
             k == count[t] + 1
  <1>1. ListGood
    BY ListFacts
  <1>2. next \in Heap /\ Ordered(O, P) /\ Follows(next, O, P) /\ MarkedIn(next, P)
    BY <1>1 DEF ListGood, CoreType
  <1>3. left_next[t] \in P
    BY OrderMeans DEF ChainHere
  <1>4. count[t] \in Nat /\ k \in Nat
    BY NodesCount DEF TypeOK
  <1>5. MarkedPath(next, left_next[t], count[t], right[t])
    BY DEF ChainHere
  <1>6. MarkedPath(next, left_next[t], k, next[right[t]].to)
    BY <1>2, <1>4, <1>5, PathExtend
  <1> HIDE DEF O, P, k
  <1>7. k <= Cardinality(Nodes)
    BY <1>2, <1>3, <1>4, <1>6, PathBound
  <1> QED
    BY <1>4, <1>6, <1>7, NodesCount DEF k

\* The start and the count of a chain that is cut.
LEMMA CutType ==
  ASSUME TypeOK, ListOk, NEW t \in Threads, ChainHere(t), left_next[t] # right[t]
  PROVE  left_next[t] \in Nodes /\ count[t] \in 1 .. Cardinality(Nodes)
  <1>1. count[t] \in 0 .. Cardinality(Nodes) /\ count[t] \in Nat
    BY NodesCount DEF TypeOK
  <1>2. count[t] > 0 /\ left_next[t] \in Nodes
    BY <1>1, PathStart DEF ChainHere
  <1> QED
    BY <1>1, <1>2

\* The types of what a step changes besides the list.
LocalType ==
  /\ payload \in [Nodes -> {"event", "to_free"}]
  /\ pc \in [Threads -> Labels]
  /\ node \in [Threads -> Nodes \cup {TailNode}]
  /\ left \in [Threads -> Nodes \cup {HeadNode}]
  /\ left_next \in [Threads -> Nodes \cup {TailNode}]
  /\ right \in [Threads -> Nodes \cup {HeadNode, TailNode}]
  /\ right_next \in [Threads -> Refs]
  /\ count \in [Threads -> 0 .. Cardinality(Nodes)]
  /\ to_free \in [Threads -> SUBSET [start : Nodes, count : 1 .. Cardinality(Nodes)]]

\* A step keeps the types of the locals and of the to-free lists.
LEMMA LocalStep ==
  ASSUME TypeOK, ListOk, Owned, SearchKnows, DequeueKnows, NEW t \in Threads, Step(t)
  PROVE  LocalType'
  <1>l. ListGood /\ PlacesGood
    BY ListFacts, PlaceTypes
  <1>0. LocalType
    BY DEF TypeOK, LocalType
  <1>n. 0 \in 0 .. Cardinality(Nodes)
    BY NodesCount
  <1>h. next[HeadNode] \in Refs /\ \A n \in Tailed : next[n] \in Refs
    BY <1>l DEF ListGood, PlacesGood, CoreType, Heap
  <1>r. \A ref \in Refs : ref.to \in Nodes \cup {TailNode}
    BY DEF Refs
  <1> USE DEF Set, Goto
  <1>1. ASSUME NEW n \in Nodes, NEW ts \in Timestamps, InsertCall(t, n, ts) PROVE LocalType'
    BY <1>0, <1>1 DEF InsertCall, LocalType, Labels, regs
  <1>2. ASSUME SearchHead(t) PROVE LocalType'
    BY <1>0, <1>2, <1>n, <1>h DEF SearchHead, LocalType, Labels, list
  <1>3. ASSUME SearchWalk(t) PROVE LocalType'
    <2> DEFINE n == right_next[t].to
    <2>1. n \in Nodes \cup {TailNode} /\ next[n] \in Refs
      BY <1>0, <1>h, <1>r, <1>l DEF LocalType, PlacesGood
    <2>2. right[t] \in Nodes \cup {HeadNode}
      BY <1>3, <1>l DEF SearchWalk, SearchKnows, SearchAt, PlacesGood
    <2>3. right_next[t].marked => count[t] + 1 \in 0 .. Cardinality(Nodes)
      <3> SUFFICES ASSUME right_next[t].marked PROVE count[t] + 1 \in 0 .. Cardinality(Nodes)
        OBVIOUS
      <3>1. next[right[t]] = right_next[t]
        BY <1>3 DEF SearchWalk, SearchKnows, SearchAt
      <3>2. right[t] # HeadNode
        BY <3>1, <1>l DEF ListGood
      <3>3. ChainHere(t)
        BY <1>3, <3>2 DEF SearchWalk, SearchKnows, SearchAt
      <3> QED
        BY <2>2, <3>1, <3>2, <3>3, CountBound
    <2> HIDE DEF n
    <2>4. /\ pc' \in [Threads -> Labels]
          /\ left' \in [Threads -> Nodes \cup {HeadNode}]
          /\ left_next' \in [Threads -> Nodes \cup {TailNode}]
          /\ right' \in [Threads -> Nodes \cup {HeadNode, TailNode}]
          /\ right_next' \in [Threads -> Refs]
          /\ count' \in [Threads -> 0 .. Cardinality(Nodes)]
      BY <1>0, <1>3, <1>n, <2>1, <2>2, <2>3 DEF SearchWalk, LocalType, Labels, n
    <2>5. UNCHANGED <<payload, node, to_free>>
      BY <1>3 DEF SearchWalk, list
    <2> QED
      BY <1>0, <2>4, <2>5 DEF LocalType
  <1>4. ASSUME SearchUnlink(t) PROVE LocalType'
    <2>1. left_next[t] \in Nodes /\ count[t] \in 1 .. Cardinality(Nodes)
      BY <1>4, CutType DEF SearchUnlink, SearchKnows, SearchAt
    <2> QED
      BY <1>0, <1>4, <2>1 DEF SearchUnlink, UnlinkChain, ConnectToBeFreed, LocalType, Labels, regs
  <1>5. ASSUME SearchCheck(t) PROVE LocalType'
    BY <1>0, <1>5 DEF SearchCheck, LocalType, Labels, regs
  <1>6. ASSUME Link(t) PROVE LocalType'
    <2>1. node' \in [Threads -> Nodes \cup {TailNode}] /\ pc' \in [Threads -> Labels]
      BY <1>0, <1>6 DEF Link, LocalType, Labels
    <2>2. /\ left' \in [Threads -> Nodes \cup {HeadNode}]
          /\ left_next' \in [Threads -> Nodes \cup {TailNode}]
          /\ right' \in [Threads -> Nodes \cup {HeadNode, TailNode}]
          /\ right_next' \in [Threads -> Refs]
          /\ count' \in [Threads -> 0 .. Cardinality(Nodes)]
      BY <1>0, <1>6, <1>n DEF Link, ClearRegs, LocalType, Ref, Refs
    <2> QED
      BY <1>0, <1>6, <2>1, <2>2 DEF Link, LocalType
  <1>7. ASSUME DequeueCall(t) PROVE LocalType'
    BY <1>0, <1>7 DEF DequeueCall, LocalType, Labels, regs, list
  <1>8. ASSUME DeqHead(t) PROVE LocalType'
    BY <1>0, <1>8, <1>h, <1>r DEF DeqHead, LocalType, Labels, list
  <1>9. ASSUME DeqWalk(t) PROVE LocalType'
    <2>1. right[t] \in Nodes \cup {TailNode} /\ next[right[t]] \in Refs
      BY <1>9, <1>l, <1>h DEF DeqWalk, DequeueKnows, DequeueAt, PlacesGood
    <2>2. next[right[t]].marked => count[t] + 1 \in 0 .. Cardinality(Nodes)
      <3>1. next[right[t]].marked => right[t] \in Nodes
        BY <2>1, <1>l DEF ListGood, Ref
      <3>2. ChainHere(t)
        BY <1>9 DEF DeqWalk, DequeueKnows, DequeueAt
      <3> QED
        BY <3>1, <3>2, CountBound
    <2>3. next[right[t]].to \in Nodes \cup {TailNode}
      BY <2>1, <1>r
    <2>4. /\ pc' \in [Threads -> Labels]
          /\ right' \in [Threads -> Nodes \cup {HeadNode, TailNode}]
          /\ right_next' \in [Threads -> Refs]
          /\ count' \in [Threads -> 0 .. Cardinality(Nodes)]
      BY <1>0, <1>9, <2>1, <2>2, <2>3 DEF DeqWalk, Chosen, LocalType, Labels
    <2> QED
      BY <1>0, <1>9, <2>4 DEF DeqWalk, LocalType, list
  <1>10. ASSUME DeqUnlink(t) PROVE LocalType'
    <2>1. left_next[t] \in Nodes /\ count[t] \in 1 .. Cardinality(Nodes)
      BY <1>10, CutType DEF DeqUnlink, DequeueKnows, DequeueAt
    <2>2. LocalType' \/ pc'[t] = "idle"
      BY <1>0, <1>10, <2>1 DEF DeqUnlink, UnlinkChain, Chosen, ConnectToBeFreed, LocalType, Labels, regs
    <2>3. CASE pc'[t] = "idle"
      <3>1. payload' \in [Nodes -> {"event", "to_free"}] /\ pc' \in [Threads -> Labels]
            /\ to_free' \in [Threads -> SUBSET [start : Nodes, count : 1 .. Cardinality(Nodes)]]
        BY <1>0, <1>10, <2>1 DEF DeqUnlink, UnlinkChain, Chosen, ConnectToBeFreed, LocalType, Labels
      <3>2. ClearRegs(t) /\ node' = node
        BY <1>10, <2>3 DEF DeqUnlink
      <3>3. Ref(TailNode) \in Refs
        BY DEF Ref, Refs
      <3> QED
        BY <1>0, <3>1, <3>2, <3>3, <1>n DEF ClearRegs, LocalType
    <2> QED
      BY <2>2, <2>3
  <1>11. ASSUME DeqMark(t) PROVE LocalType'
    <2>1. right[t] \in Nodes
      BY <1>11, <1>l DEF DeqMark, DequeueKnows, DequeueAt, PlacesGood
    <2>2. Ref(TailNode) \in Refs
      BY DEF Ref, Refs
    <2> QED
      BY <1>0, <1>11, <2>1, <2>2, <1>n DEF DeqMark, ClearRegs, LocalType, Labels, regs
  <1>12. ASSUME DequeueReturn(t) PROVE LocalType'
    BY <1>0, <1>12, <1>n DEF DequeueReturn, ClearRegs, LocalType, Labels, list, Ref, Refs
  <1> QED
    BY <1>1, <1>2, <1>3, <1>4, <1>5, <1>6, <1>7, <1>8, <1>9, <1>10, <1>11, <1>12
       DEF Step, Insert, Dequeue

\* Every action records what a scan would have found.
LEMMA StepRecords ==
  ASSUME NEW t \in Threads, Step(t)
  PROVE  Record
  BY DEF Step, Insert, Dequeue, InsertCall, SearchHead, SearchWalk, SearchUnlink, SearchCheck, Link,
         DequeueCall, DeqHead, DeqWalk, DeqUnlink, DeqMark, DequeueReturn

\* A step keeps TypeOK.
LEMMA TypeStep ==
  ASSUME TypeOK, ListOk, Live, Owned, SearchKnows, DequeueKnows, NEW t \in Threads, Step(t)
  PROVE  TypeOK'
  <1>1. CoreType' /\ ListOk'
    BY ListStep
  <1>2. LocalType'
    BY LocalStep
  <1>3. FirstLive' \in Nodes \cup {TailNode}
    BY <1>1, FirstLiveTypeNext DEF Tailed
  <1>4. legal' \in [Threads -> SUBSET (Nodes \cup {TailNode})]
    <2>1. legal \in [Threads -> SUBSET (Nodes \cup {TailNode})]
      BY DEF TypeOK
    <2> QED
      BY <1>3, <2>1, StepRecords DEF Record
  <1> QED
    BY <1>1, <1>2, <1>4 DEF TypeOK, CoreType, LocalType, Heap, Cells

-----------------------------------------------------------------------------
\* A step changes next at linked nodes, the head and the thread's new node only.
LEMMA NextElsewhere ==
  ASSUME TypeOK, ListOk, Live, Owned, SearchKnows, DequeueKnows, NEW t \in Threads, Step(t),
         NEW n \in Cells, n \notin Linked(linked) \cup {HeadNode}, pc[t] = "check" => n # node[t]
  PROVE  next'[n] = next[n]
  <1>1. CASE Quiet
    BY <1>1 DEF Quiet
  <1>2. CASE Cut(t)
    BY <1>2, CutKnows DEF CutGood
  <1>3. CASE Point(t)
    BY <1>3 DEF Point, Set, TypeOK, Cells
  <1>4. CASE Put(t)
    <2>1. left[t] # n
      BY <1>4 DEF Put, SearchKnows, SearchAt, LeftHere
    <2> QED
      BY <1>4, <2>1 DEF Put, Set, TypeOK, Cells
  <1>5. CASE Delete(t)
    BY <1>5, DeleteStep
  <1> QED
    BY <1>1, <1>2, <1>3, <1>4, <1>5, StepKinds

\* Only insert() links a node, its own, and then it no longer holds it.
LEMMA LinkedBy ==
  ASSUME TypeOK, ListOk, Live, Owned, SearchKnows, NEW t \in Threads, Step(t)
  PROVE  \/ Linked(linked') = Linked(linked)
         \/ /\ pc[t] = "link" /\ pc'[t] = "idle"
            /\ Linked(linked') = Linked(linked) \cup {node[t]}
  <1>1. CASE Put(t)
    <2>1. pc[t] = "link" /\ next[left[t]] = Ref(right[t])
      BY <1>1 DEF Put
    <2>2. Link(t)
      BY <2>1 DEF Step, Insert, Dequeue, InsertCall, SearchHead, SearchWalk, SearchUnlink, SearchCheck,
                  DequeueCall, DeqHead, DeqWalk, DeqUnlink, DeqMark, DequeueReturn
    <2>3. pc'[t] = "idle"
      BY <2>1, <2>2 DEF Link, Goto, TypeOK
    <2> QED
      BY <1>1, <2>1, <2>3, PutStep
  <1>2. CASE ~ Put(t)
    <2>1. linked' = linked
      BY <1>2, StepKinds DEF Quiet, Cut, Point, Delete
    <2> QED
      BY <2>1
  <1> QED
    BY <1>1, <1>2

\* A thread gets a node by allocating it, and keeps it until it is linked.
LEMMA HoldingBy ==
  ASSUME TypeOK, NEW t \in Threads, Step(t), pc'[t] \in Holding
  PROVE  \/ pc[t] \in Holding /\ node'[t] = node[t]
         \/ node'[t] \in allocated' \ allocated /\ linked' = linked
  <1> USE DEF TypeOK, Goto, Set, Holding
  <1>1. ASSUME NEW n \in Nodes, NEW ts \in Timestamps, InsertCall(t, n, ts)
        PROVE  node'[t] \in allocated' \ allocated /\ linked' = linked
    BY <1>1 DEF InsertCall
  <1>2. ASSUME SearchHead(t) \/ SearchWalk(t) \/ SearchUnlink(t) \/ SearchCheck(t)
        PROVE  pc[t] \in Holding /\ node'[t] = node[t]
    BY <1>2 DEF SearchHead, SearchWalk, SearchUnlink, SearchCheck
  <1>3. ASSUME Link(t) PROVE pc[t] \in Holding /\ node'[t] = node[t]
    BY <1>3 DEF Link
  <1>4. ~ (DequeueCall(t) \/ DeqHead(t) \/ DeqWalk(t) \/ DeqUnlink(t) \/ DeqMark(t) \/ DequeueReturn(t))
    BY DEF DequeueCall, DeqHead, DeqWalk, DeqUnlink, UnlinkChain, DeqMark, DequeueReturn, Chosen
  <1> QED
    BY <1>1, <1>2, <1>3, <1>4 DEF Step, Insert, Dequeue

\* The node that is about to be linked points where it should.
LEMMA PointsBy ==
  ASSUME TypeOK, Owned, ListOk, NEW t \in Threads, Step(t), pc'[t] = "link"
  PROVE  next'[node'[t]] = Ref(right'[t]) /\ node'[t] = node[t] /\ pc[t] = "check"
  <1>1. SearchCheck(t)
    BY DEF TypeOK, Goto, Step, Insert, Dequeue, InsertCall, SearchHead, SearchWalk, SearchUnlink, Link,
           UnlinkChain, Chosen, DequeueCall, DeqHead, DeqWalk, DeqUnlink, DeqMark, DequeueReturn
  <1>2. node[t] \in Nodes
    BY <1>1 DEF SearchCheck, Owned, Holding, TypeOK
  <1>3. pc[t] = "check" /\ Set(next, node[t], Ref(right[t])) /\ UNCHANGED <<node, right>>
    BY <1>1 DEF SearchCheck, Goto, TypeOK, regs
  <1> QED
    BY <1>2, <1>3 DEF Set, TypeOK

\* A step keeps each new node with its thread.
LEMMA OwnedStep ==
  ASSUME TypeOK, ListOk, Live, Owned, SearchKnows, DequeueKnows, NEW t \in Threads, Step(t)
  PROVE  Owned'
  <1>l. ListGood /\ PlacesGood
    BY ListFacts, PlaceTypes
  <1>o. Others(t) /\ Grow
    BY StepOthers, ListStep
  <1>1. ASSUME NEW u \in Threads, pc'[u] \in Holding
        PROVE  \/ pc[u] \in Holding /\ node'[u] = node[u]
               \/ u = t /\ node'[u] \in allocated' \ allocated /\ linked' = linked
    BY <1>1, <1>o, HoldingBy DEF Others
  <1>2. ASSUME NEW u \in Threads, pc'[u] \in Holding
        PROVE  node'[u] \in allocated' \ Linked(linked')
    <2>1. CASE pc[u] \in Holding /\ node'[u] = node[u]
      <3>1. node[u] \in allocated \ Linked(linked)
        BY <2>1 DEF Owned
      <3>2. node[u] \in allocated'
        BY <3>1, <1>o DEF Grow
      <3>3. pc[t] = "link" /\ pc'[t] = "idle" => u # t /\ node[u] # node[t]
        BY <1>2, <2>1 DEF Owned, Holding
      <3> QED
        BY <2>1, <3>1, <3>2, <3>3, LinkedBy
    <2>2. CASE u = t /\ node'[u] \in allocated' \ allocated /\ linked' = linked
      BY <2>2, <1>l DEF ListGood
    <2> QED
      BY <1>1, <1>2, <2>1, <2>2
  <1>3. ASSUME NEW u \in Threads, NEW v \in Threads, pc'[u] \in Holding, pc'[v] \in Holding,
               node'[u] = node'[v]
        PROVE  u = v
    <2>1. pc[u] \in Holding /\ node'[u] = node[u] => node'[u] \in allocated
      BY DEF Owned
    <2>2. pc[v] \in Holding /\ node'[v] = node[v] => node'[v] \in allocated
      BY DEF Owned
    <2>3. CASE pc[u] \in Holding /\ node'[u] = node[u] /\ pc[v] \in Holding /\ node'[v] = node[v]
      BY <1>3, <2>3 DEF Owned
    <2> QED
      BY <1>1, <1>3, <2>1, <2>2, <2>3
  <1>4. ASSUME NEW u \in Threads, pc'[u] = "link" PROVE next'[node'[u]] = Ref(right'[u])
    <2>1. CASE u = t
      BY <2>1, <1>4, PointsBy
    <2>2. CASE u # t
      <3>1. pc[u] = "link" /\ node'[u] = node[u] /\ right'[u] = right[u]
        BY <2>2, <1>4, <1>o DEF Others
      <3>2. next[node[u]] = Ref(right[u]) /\ node[u] \in allocated \ Linked(linked)
        BY <3>1 DEF Owned, Holding
      <3>3. node[u] \in Cells /\ node[u] # HeadNode
        BY <3>2, <1>l DEF ListGood, CoreType, PlacesGood
      <3>4. pc[t] = "check" => node[u] # node[t]
        BY <2>2, <3>1 DEF Owned, Holding
      <3> QED
        BY <3>1, <3>2, <3>3, <3>4, NextElsewhere
    <2> QED
      BY <2>1, <2>2
  <1> QED
    BY <1>2, <1>3, <1>4 DEF Owned

-----------------------------------------------------------------------------
\* What a thread knows stays true while the others go on.
LEMMA OthersKnow ==
  ASSUME TypeOK, ListOk, Live, Owned, SearchKnows, DequeueKnows, NEW t \in Threads, Step(t),
         NEW u \in Threads, u # t
  PROVE  SearchAt(u)' /\ DequeueAt(u)'
  <1>l. ListGood /\ PlacesGood
    BY ListFacts, PlaceTypes
  <1>o. Others(t) /\ Grow /\ CoreType'
    BY StepOthers, ListStep
  <1>u. /\ pc'[u] = pc[u] /\ node'[u] = node[u] /\ left'[u] = left[u] /\ left_next'[u] = left_next[u]
        /\ right'[u] = right[u] /\ right_next'[u] = right_next[u] /\ count'[u] = count[u]
    BY <1>o DEF Others
  <1>k. SearchAt(u) /\ DequeueAt(u)
    BY DEF SearchKnows, DequeueKnows
  <1>n. \A n \in Linked(linked) : n \in Linked(linked') /\ timestamp'[n] = timestamp[n]
    BY <1>o, <1>l DEF Grow, ListGood
  <1>t. pc[u] \in Holding => timestamp'[node[u]] = timestamp[node[u]]
    BY <1>o DEF Owned, Grow
  <1>f. /\ \A n \in Cells : next[n].marked => next'[n] = next[n]
        /\ next \in Heap /\ next' \in Heap /\ Frozen(next, next')
    BY <1>o, <1>l DEF Grow, Frozen, CoreType, ListGood
  <1>1. pc[u] \in Holding /\ LeftHere(u) => LeftHere(u)'
    BY <1>n, <1>t, <1>u DEF LeftHere
  <1>2. pc[u] \in Holding /\ RightHere(u) => RightHere(u)'
    BY <1>n, <1>t, <1>u DEF RightHere
  <1>3. ChainHere(u) => ChainHere(u)'
    <2>1. count[u] \in Nat
      BY NodesCount DEF TypeOK
    <2>2. MarkedPath(next, left_next[u], count[u], right[u]) => MarkedPath(next', left_next[u], count[u], right[u])
      BY <1>f, <2>1, PathFrozen
    <2> QED
      BY <1>o, <1>u, <2>2 DEF ChainHere, Grow
  <1>4. SearchAt(u)'
    <2>1. pc[u] = "walk" /\ right_next[u].marked => next'[right[u]] = right_next[u]
      <3>1. pc[u] = "walk" /\ right_next[u].marked => next[right[u]] = right_next[u] /\ right[u] \in Cells
        BY <1>k, <1>l DEF SearchAt, PlacesGood
      <3> QED
        BY <3>1, <1>f
    <2>2. pc[u] = "walk" /\ right[u] # HeadNode => timestamp'[right[u]] = timestamp[right[u]]
      BY <1>k, <1>n DEF SearchAt
    <2>3. pc[u] = "walk" => right[u] \in Linked(linked') \cup {HeadNode}
      BY <1>k, <1>n DEF SearchAt
    <2>4. pc[u] = "walk" => <<right[u], right_next[u].to>> \in Order(linked', timestamp')
      BY <1>k, <1>o DEF SearchAt, Grow
    <2> QED
      BY <1>k, <1>t, <1>u, <1>1, <1>2, <1>3, <2>1, <2>2, <2>3, <2>4 DEF SearchAt, Holding
  <1>5. DequeueAt(u)'
    <2>1. pc[u] = "answered" /\ node[u] # TailNode => next'[node[u]].marked /\ node[u] \in Linked(linked')
      BY <1>k, <1>l, <1>n, <1>f DEF DequeueAt, PlacesGood
    <2> QED
      BY <1>k, <1>n, <1>u, <1>3, <2>1 DEF DequeueAt, Holding
  <1> QED
    BY <1>4, <1>5

\* A path of no nodes.
LEMMA PathNone == \A f, a : MarkedPath(f, a, 0, a)
  <1> SUFFICES ASSUME NEW f, NEW a PROVE \E c \in [1 .. 0 -> Nodes] : Path(f, c, 0, a, a)
    BY DEF MarkedPath
  <1> DEFINE c == [i \in 1 .. 0 |-> CHOOSE n \in Nodes : TRUE]
  <1>1. 1 .. 0 = {}
    OBVIOUS
  <1>2. c \in [1 .. 0 -> Nodes]
    BY <1>1
  <1>3. Path(f, c, 0, a, a)
    BY <1>1, <1>2 DEF Path
  <1> QED
    BY <1>2, <1>3

\* One round of the loop of search().
LEMMA SearchWalkKnows ==
  ASSUME TypeOK, ListOk, Live, Owned, SearchKnows, DequeueKnows, NEW t \in Threads, SearchWalk(t)
  PROVE  SearchAt(t)' /\ DequeueAt(t)'
  <1> DEFINE n == right_next[t].to
  <1>l. ListGood /\ PlacesGood
    BY ListFacts, PlaceTypes
  <1>k. SearchAt(t) /\ pc[t] = "walk"
    BY DEF SearchKnows, SearchWalk
  <1>1. UNCHANGED <<next, timestamp, allocated, linked, node>>
    BY DEF SearchWalk, list
  <1>2. right'[t] = n /\ right_next'[t] = next[n]
    BY DEF SearchWalk, Set, TypeOK
  <1>3. pc'[t] = IF GoesOn(t, n) THEN "walk" ELSE IF left_next'[t] # n THEN "unlink" ELSE "check"
    BY DEF SearchWalk, Goto, TypeOK
  <1>4. n \in Linked(linked) \cup {TailNode}
    <2>1. <<right[t], n>> \in Order(linked, timestamp) /\ right[t] # TailNode
      BY <1>k, <1>l DEF SearchAt, PlacesGood
    <2>2. n \in Places(linked) /\ Before(linked, timestamp, right[t], n)
      BY <2>1, OrderMeans
    <2>3. n # HeadNode
      BY <2>2, <1>l DEF Before, PlacesGood, Linked
    <2> QED
      BY <2>2, <2>3, <1>l DEF PlacesGood
  <1>5. LeftHere(t)' /\ ChainHere(t)'
    <2>1. CASE right_next[t].marked
      <3>1. left'[t] = left[t] /\ left_next'[t] = left_next[t] /\ count'[t] = count[t] + 1
        BY <2>1 DEF SearchWalk, Set, TypeOK
      <3>2. next[right[t]] = right_next[t] /\ right[t] # HeadNode /\ right[t] \in Nodes
        BY <2>1, <1>k, <1>l DEF SearchAt, ListGood, PlacesGood
      <3>3. LeftHere(t) /\ ChainHere(t)
        BY <3>2, <1>k DEF SearchAt
      <3>4. MarkedPath(next, left_next[t], count[t] + 1, n)
        BY <2>1, <3>2, <3>3, CountBound
      <3> QED
        BY <1>1, <1>2, <3>1, <3>3, <3>4 DEF LeftHere, ChainHere
    <2>2. CASE ~ right_next[t].marked
      <3>1. left'[t] = right[t] /\ left_next'[t] = n /\ count'[t] = 0
        BY <2>2 DEF SearchWalk, Set, TypeOK
      <3>2. LeftHere(t)'
        BY <1>1, <1>k, <2>2, <3>1 DEF LeftHere, SearchAt
      <3>3. MarkedPath(next, n, 0, n)
        BY PathNone
      <3>4. ChainHere(t)'
        BY <1>1, <1>2, <1>k, <3>1, <3>3 DEF ChainHere, SearchAt
      <3> QED
        BY <3>2, <3>4
    <2> QED
      BY <2>1, <2>2
  <1>6. SearchAt(t)'
    <2>1. CASE GoesOn(t, n)
      <3>1. n \in Linked(linked) /\ (~ next[n].marked => timestamp[n] <= timestamp[node[t]])
        BY <2>1, <1>4 DEF GoesOn
      <3>2. <<n, next[n].to>> \in Order(linked, timestamp)
        BY <3>1, <1>l DEF ListGood, Follows, PlacesGood
      <3> QED
        BY <2>1, <3>1, <3>2, <1>1, <1>2, <1>3, <1>5 DEF SearchAt
    <2>2. CASE ~ GoesOn(t, n)
      <3>1. n = TailNode \/ (n \in Linked(linked) /\ timestamp[node[t]] < timestamp[n])
        <4>1. n \in Linked(linked) => timestamp[n] \in Nat /\ timestamp[node[t]] \in Nat
          BY <1>l, <1>k DEF PlacesGood, ListGood, CoreType, Owned, Holding
        <4> QED
          BY <2>2, <1>4, <4>1 DEF GoesOn
      <3>2. RightHere(t)'
        BY <1>1, <1>2, <3>1 DEF RightHere
      <3>3. pc'[t] # "walk" /\ (pc'[t] = "unlink" => left_next'[t] # n)
        BY <2>2, <1>3
      <3> QED
        BY <3>2, <3>3, <1>2, <1>5 DEF SearchAt
    <2> QED
      BY <2>1, <2>2
  <1>7. pc'[t] \in {"walk", "unlink", "check"}
    BY <1>3
  <1>8. DequeueAt(t)'
    BY <1>7 DEF DequeueAt, Holding
  <1> QED
    BY <1>6, <1>8

\* The other actions of insert().
LEMMA InsertKnows ==
  ASSUME TypeOK, ListOk, Live, Owned, SearchKnows, DequeueKnows, NEW t \in Threads, Insert(t)
  PROVE  SearchAt(t)' /\ DequeueAt(t)'
  <1>l. ListGood /\ PlacesGood
    BY ListFacts, PlaceTypes
  <1>k. SearchAt(t) /\ DequeueAt(t)
    BY DEF SearchKnows, DequeueKnows
  <1> USE DEF TypeOK, Goto, Set
  <1>1. ASSUME NEW n \in Nodes, NEW ts \in Timestamps, InsertCall(t, n, ts)
        PROVE  SearchAt(t)' /\ DequeueAt(t)'
    BY <1>1 DEF InsertCall, SearchAt, DequeueAt, Holding
  <1>2. ASSUME SearchHead(t) PROVE SearchAt(t)' /\ DequeueAt(t)'
    <2>1. /\ pc'[t] = "walk" /\ right'[t] = HeadNode /\ right_next'[t] = next[HeadNode]
          /\ linked' = linked /\ timestamp' = timestamp /\ next' = next
      BY <1>2 DEF SearchHead, list
    <2>2. <<HeadNode, next[HeadNode].to>> \in Order(linked, timestamp) /\ ~ next[HeadNode].marked
      BY <1>l DEF ListGood, Follows, PlacesGood
    <2> QED
      BY <2>1, <2>2 DEF SearchAt, DequeueAt, Holding
  <1>3. ASSUME SearchUnlink(t) PROVE SearchAt(t)' /\ DequeueAt(t)'
    <2>1. /\ pc'[t] \in {"check", "search"} /\ UNCHANGED <<timestamp, linked, node, left, right>>
          /\ pc[t] = "unlink"
      BY <1>3 DEF SearchUnlink, UnlinkChain, regs
    <2> QED
      BY <2>1, <1>k DEF SearchAt, DequeueAt, Holding, LeftHere, RightHere
  <1>4. ASSUME SearchCheck(t) PROVE SearchAt(t)' /\ DequeueAt(t)'
    <2>1. /\ pc'[t] \in {"link", "search"} /\ UNCHANGED <<timestamp, linked, node, left, right>>
          /\ pc[t] = "check"
      BY <1>4 DEF SearchCheck, regs
    <2> QED
      BY <2>1, <1>k DEF SearchAt, DequeueAt, Holding, LeftHere, RightHere
  <1>5. ASSUME Link(t) PROVE SearchAt(t)' /\ DequeueAt(t)'
    <2>1. /\ (pc'[t] = "idle" /\ node'[t] = TailNode) \/ pc'[t] = "search"
          /\ left'[t] = HeadNode /\ count'[t] = 0
      BY <1>5 DEF Link, ClearRegs
    <2> QED
      BY <2>1 DEF SearchAt, DequeueAt, Holding
  <1> QED
    BY <1>1, <1>2, <1>3, <1>4, <1>5, SearchWalkKnows DEF Insert

\* The actions of dequeue().
LEMMA DeqKnows ==
  ASSUME TypeOK, ListOk, Live, Owned, SearchKnows, DequeueKnows, NEW t \in Threads, Dequeue(t)
  PROVE  SearchAt(t)' /\ DequeueAt(t)'
  <1>l. ListGood /\ PlacesGood
    BY ListFacts, PlaceTypes
  <1>k. DequeueAt(t)
    BY DEF DequeueKnows
  <1> USE DEF TypeOK, Goto, Set
  <1>1. ASSUME DequeueCall(t) PROVE SearchAt(t)' /\ DequeueAt(t)'
    BY <1>1, <1>k DEF DequeueCall, SearchAt, DequeueAt, Holding, regs
  <1>2. ASSUME DeqHead(t) PROVE SearchAt(t)' /\ DequeueAt(t)'
    <2> DEFINE n == next[HeadNode].to
    <2>1. /\ pc'[t] = "deq_walk" /\ right'[t] = n /\ left_next'[t] = n
          /\ UNCHANGED <<linked, timestamp, next, node, left, count>> /\ pc[t] = "deq_head"
      BY <1>2 DEF DeqHead, list
    <2>2. <<HeadNode, n>> \in Order(linked, timestamp) /\ n \in Places(linked)
      BY <1>l DEF ListGood, Follows, PlacesGood
    <2>3. n # HeadNode
      BY <2>2, <1>l DEF ListGood, Ordered
    <2>4. MarkedPath(next, n, 0, n)
      BY PathNone
    <2> HIDE DEF n
    <2>5. left[t] = HeadNode /\ count[t] = 0 /\ node[t] = TailNode
      BY <2>1, <1>k DEF DequeueAt, Holding
    <2> QED
      BY <2>1, <2>2, <2>3, <2>4, <2>5, <1>l DEF SearchAt, DequeueAt, Holding, ChainHere, PlacesGood
  <1>3. ASSUME DeqWalk(t) PROVE SearchAt(t)' /\ DequeueAt(t)'
    <2>0. /\ pc[t] = "deq_walk" /\ left[t] = HeadNode /\ node[t] = TailNode
          /\ ChainHere(t) /\ right[t] \in Linked(linked) \cup {TailNode}
      BY <1>3, <1>k DEF DeqWalk, DequeueAt, Holding
    <2>n. UNCHANGED <<linked, timestamp, next, node, left, left_next>>
      BY <1>3 DEF DeqWalk, list
    <2>1. CASE next[right[t]].marked
      <3>1. pc'[t] = "deq_walk" /\ right'[t] = next[right[t]].to /\ count'[t] = count[t] + 1
        BY <1>3, <2>0, <2>1 DEF DeqWalk
      <3>2. right[t] \in Linked(linked) /\ right[t] \in Nodes
        BY <2>0, <2>1, <1>l DEF ListGood, Ref, PlacesGood
      <3>3. MarkedPath(next, left_next[t], count[t] + 1, next[right[t]].to)
        BY <2>0, <2>1, <3>2, CountBound
      <3>4. next[right[t]].to \in Linked(linked) \cup {TailNode}
        <4>1. next[right[t]].to \in Places(linked) /\ <<right[t], next[right[t]].to>> \in Order(linked, timestamp)
          BY <3>2, <1>l DEF ListGood, Follows, PlacesGood
        <4>2. next[right[t]].to # HeadNode
          BY <4>1, <3>2, <1>l, OrderMeans DEF Before, PlacesGood, Linked
        <4> QED
          BY <4>1, <4>2, <1>l DEF PlacesGood
      <3> QED
        BY <2>0, <2>n, <3>1, <3>3, <3>4 DEF SearchAt, DequeueAt, Holding, ChainHere
    <2>2. CASE ~ next[right[t]].marked
      <3>1. /\ pc'[t] = IF left_next[t] # right[t] THEN "deq_unlink" ELSE Chosen(t, right[t])
            /\ right_next'[t] = next[right[t]] /\ right' = right /\ count' = count
        BY <1>3, <2>2 DEF DeqWalk
      <3>2. right[t] # TailNode => right[t] \in Linked(linked)
        BY <2>0
      <3> QED
        BY <2>0, <2>2, <2>n, <3>1, <3>2 DEF SearchAt, DequeueAt, Holding, ChainHere, Chosen
    <2> QED
      BY <2>1, <2>2
  <1>4. ASSUME DeqUnlink(t) PROVE SearchAt(t)' /\ DequeueAt(t)'
    <2>1. /\ pc[t] = "deq_unlink" /\ UNCHANGED <<linked, timestamp, node>>
          /\ pc'[t] = Chosen(t, right[t]) \/ pc'[t] = "idle"
          /\ pc'[t] = "idle" => ClearRegs(t)
          /\ pc'[t] # "idle" => right' = right /\ right_next' = right_next
      BY <1>4 DEF DeqUnlink, UnlinkChain, regs
    <2>2. pc'[t] = "idle" => left'[t] = HeadNode /\ count'[t] = 0
      BY <2>1 DEF ClearRegs
    <2>3. node[t] = TailNode /\ right[t] \in Linked(linked) \cup {TailNode} /\ ~ right_next[t].marked
      BY <2>1, <1>k DEF DequeueAt, Holding
    <2> QED
      BY <2>1, <2>2, <2>3 DEF SearchAt, DequeueAt, Holding, Chosen
  <1>5. ASSUME DeqMark(t) PROVE SearchAt(t)' /\ DequeueAt(t)'
    <2>0. /\ pc[t] = "mark" /\ node[t] = TailNode /\ right[t] \in Linked(linked) /\ right[t] \in Nodes
          /\ linked' = linked
      BY <1>5, <1>k, <1>l DEF DeqMark, DequeueAt, Holding, PlacesGood
    <2>1. CASE next[right[t]] = right_next[t]
      <3>1. pc'[t] = "answered" /\ node'[t] = right[t] /\ next'[right[t]] = Marked(right_next[t])
        BY <1>5, <2>0, <2>1 DEF DeqMark
      <3>2. Marked(right_next[t]).marked
        BY DEF Marked, Refs
      <3> QED
        BY <2>0, <3>1, <3>2 DEF SearchAt, DequeueAt, Holding
    <2>2. CASE next[right[t]] # right_next[t]
      <3>1. pc'[t] = "idle" /\ left'[t] = HeadNode /\ count'[t] = 0 /\ node' = node
        BY <1>5, <2>2 DEF DeqMark, ClearRegs
      <3> QED
        BY <2>0, <3>1 DEF SearchAt, DequeueAt, Holding
    <2> QED
      BY <2>1, <2>2
  <1>6. ASSUME DequeueReturn(t) PROVE SearchAt(t)' /\ DequeueAt(t)'
    <2>1. pc'[t] = "idle" /\ left'[t] = HeadNode /\ count'[t] = 0 /\ node'[t] = TailNode
      BY <1>6 DEF DequeueReturn, ClearRegs
    <2> QED
      BY <2>1 DEF SearchAt, DequeueAt, Holding
  <1> QED
    BY <1>1, <1>2, <1>3, <1>4, <1>5, <1>6 DEF Dequeue

\* A step keeps what every thread knows.
LEMMA KnowsStep ==
  ASSUME TypeOK, ListOk, Live, Owned, SearchKnows, DequeueKnows, NEW t \in Threads, Step(t)
  PROVE  SearchKnows' /\ DequeueKnows'
  <1>1. \A u \in Threads : SearchAt(u)' /\ DequeueAt(u)'
    <2> SUFFICES ASSUME NEW u \in Threads PROVE SearchAt(u)' /\ DequeueAt(u)'
      OBVIOUS
    <2>1. CASE u = t
      BY <2>1, InsertKnows, DeqKnows DEF Step
    <2>2. CASE u # t
      BY <2>2, OthersKnow
    <2> QED
      BY <2>1, <2>2
  <1> QED
    BY <1>1 DEF SearchKnows, DequeueKnows

\* Only one thread marks a node, so only one has it as its answer.
LEMMA TakenStep ==
  ASSUME TypeOK, ListOk, Live, Owned, SearchKnows, DequeueKnows, TakenOnce, NEW t \in Threads, Step(t)
  PROVE  TakenOnce'
  <1>o. Others(t)
    BY StepOthers
  <1>1. ASSUME NEW u \in Threads, pc'[u] = "answered", node'[u] # TailNode
        PROVE  \/ pc[u] = "answered" /\ node'[u] = node[u]
               \/ u = t /\ ~ next[node'[u]].marked
    <2>1. CASE u # t
      BY <2>1, <1>1, <1>o DEF Others
    <2>2. CASE u = t
      <3>1. DeqWalk(t) \/ DeqUnlink(t) \/ DeqMark(t)
        BY <2>2, <1>1 DEF TypeOK, Goto, Step, Insert, Dequeue, InsertCall, SearchHead, SearchWalk,
             SearchUnlink, SearchCheck, Link, UnlinkChain, DequeueCall, DeqHead, DequeueReturn
      <3>2. ~ (DeqWalk(t) \/ DeqUnlink(t))
        BY <2>2, <1>1 DEF DeqWalk, DeqUnlink, DequeueKnows, DequeueAt, Holding
      <3>3. DeqMark(t)
        BY <3>1, <3>2
      <3>4. pc[t] = "mark" /\ next[right[t]] = right_next[t] /\ node'[t] = right[t]
        BY <3>3, <2>2, <1>1 DEF DeqMark, Goto, Set, TypeOK
      <3>5. ~ next[right[t]].marked
        BY <3>4 DEF DequeueKnows, DequeueAt
      <3> QED
        BY <2>2, <3>4, <3>5
    <2> QED
      BY <2>1, <2>2
  <1>2. \A u \in Threads : pc[u] = "answered" /\ node[u] # TailNode => next[node[u]].marked
    BY DEF DequeueKnows, DequeueAt
  <1>3. ASSUME NEW u \in Threads, NEW v \in Threads, pc'[u] = "answered", pc'[v] = "answered",
               node'[u] = node'[v], node'[u] # TailNode
        PROVE  u = v
    BY <1>1, <1>2, <1>3 DEF TakenOnce
  <1> QED
    BY <1>3 DEF TakenOnce

-----------------------------------------------------------------------------
\* The chains: paths of marked nodes, which no step changes.
ChainIn(f, r) == ChainSet(f, r.start, r.count)

ChainGood(f, r) == r.count \in Nat /\ r.count > 0 /\ \E b \in Tailed : MarkedPath(f, r.start, r.count, b)

\* The chain that a cut adds.
CutChain(t) == [start |-> left_next[t], count |-> count[t]]

\* A step does not change a chain: its nodes are marked.
LEMMA ChainStays ==
  ASSUME NEW f \in Heap, NEW g \in Heap, Frozen(f, g), NEW r, ChainGood(f, r)
  PROVE  ChainGood(g, r) /\ ChainIn(g, r) = ChainIn(f, r)
  <1>1. PICK b \in Tailed : MarkedPath(f, r.start, r.count, b)
    BY DEF ChainGood
  <1>2. PICK d : Path(f, d, r.count, r.start, b)
    BY <1>1 DEF MarkedPath
  <1>3. r.count \in Nat
    BY DEF ChainGood
  <1>4. Path(g, d, r.count, r.start, b) /\ MarkedPath(g, r.start, r.count, b)
    BY <1>1, <1>2, <1>3, PathFrozen
  <1>5. ChainIn(f, r) = PathSet(d, r.count) /\ ChainIn(g, r) = PathSet(d, r.count)
    BY <1>2, <1>3, <1>4, ChainOfPath DEF ChainIn
  <1> QED
    BY <1>4, <1>5 DEF ChainGood

\* What ChainsMarked says of one chain.
LEMMA ChainsMarkedIs ==
  ASSUME TypeOK, ChainsMarked, NEW u \in Threads, NEW r \in to_free[u]
  PROVE  ChainGood(next, r)
  <1>1. r.count \in 1 .. Cardinality(Nodes) /\ Cardinality(Nodes) \in Nat
    BY NodesCount DEF TypeOK
  <1> QED
    BY <1>1 DEF ChainGood, ChainsMarked

\* How a step changes the to-free lists.
LEMMA ChainsBy ==
  ASSUME TypeOK, ListOk, Live, SearchKnows, DequeueKnows, NEW t \in Threads, Step(t)
  PROVE  \/ to_free' = to_free /\ ~ Cut(t)
         \/ /\ Cut(t) /\ ChainGood(next, CutChain(t))
            /\ to_free' = [to_free EXCEPT ![t] = to_free[t] \cup {CutChain(t)}]
  <1>1. CASE Cut(t)
    <2>l. PlacesGood
      BY ListFacts, PlaceTypes
    <2>1. CutGood(t)
      BY <1>1, CutKnows
    <2>2. /\ MarkedPath(next, left_next[t], count[t], right[t]) /\ left_next[t] # right[t]
          /\ count[t] \in Nat /\ right[t] \in Tailed
      BY <2>1, <2>l DEF CutGood, PlacesGood
    <2>3. count[t] > 0
      BY <2>2, PathStart
    <2>4. ChainGood(next, CutChain(t))
      BY <2>2, <2>3 DEF ChainGood, CutChain
    <2> QED
      BY <1>1, <2>4 DEF Cut, ConnectToBeFreed, CutChain, Set
  <1>2. CASE ~ Cut(t)
    BY <1>2, StepKinds DEF Quiet, Point, Put, Delete
  <1> QED
    BY <1>1, <1>2

\* A step keeps the chains paths of marked nodes.
LEMMA ChainsMarkedStep ==
  ASSUME TypeOK, ListOk, Live, Owned, SearchKnows, DequeueKnows, ChainsMarked, NEW t \in Threads, Step(t)
  PROVE  ChainsMarked'
  <1>1. Frozen(next, next') /\ next \in Heap /\ next' \in Heap
    BY ListStep, ListFacts DEF Grow, CoreType, ListGood
  <1>2. ASSUME NEW u \in Threads, NEW r \in to_free'[u] PROVE ChainGood(next', r)
    <2>1. ChainGood(next, r)
      <3>1. CASE r \in to_free[u]
        BY <3>1, ChainsMarkedIs
      <3>2. CASE r \notin to_free[u]
        <4>1. u = t /\ r = CutChain(t) /\ ChainGood(next, CutChain(t))
          <5>1. CASE to_free' = to_free
            BY <3>2, <5>1
          <5>2. CASE /\ ChainGood(next, CutChain(t))
                     /\ to_free' = [to_free EXCEPT ![t] = to_free[t] \cup {CutChain(t)}]
            <6>1. to_free'[u] = IF u = t THEN to_free[u] \cup {CutChain(t)} ELSE to_free[u]
              BY <5>2 DEF TypeOK
            <6> QED
              BY <3>2, <5>2, <6>1
          <5> QED
            BY <5>1, <5>2, ChainsBy
        <4> QED
          BY <4>1
      <3> QED
        BY <3>1, <3>2
    <2> QED
      BY <1>1, <2>1, ChainStays
  <1> QED
    BY <1>2 DEF ChainsMarked, ChainGood

-----------------------------------------------------------------------------
\* What can be reached, in the terms of the lemmas.
LEMMA WalkIs == Walk = WalkFrom(next)
  BY DEF Walk, WalkFrom

\* Reachable, a walk with a counter, is what can be reached.
LEMMA ReachableIs ==
  ASSUME CoreType, ListOk
  PROVE  Reachable = Reach(next) \ {HeadNode, TailNode}
  <1> DEFINE O == Order(linked, timestamp)
             P == Places(linked)
  <1>1. next \in Heap /\ Ordered(O, P) /\ Follows(next, O, P)
    BY GoodNow DEF ListGood, CoreType
  <1> HIDE DEF O, P
  <1> QED
    BY <1>1, WalkCovers, WalkIs DEF Reachable

\* ChainsExact, in the terms of the lemmas.
Gone == Linked(linked) \ Reach(next)

Exact ==
  /\ \A ch \in Chains : ChainIn(next, ch[2]) \subseteq Gone
  /\ \A n \in Gone : \E ch \in Chains : n \in ChainIn(next, ch[2])
  /\ \A n \in Gone : next[n].marked
  /\ \A ch, dh \in Chains : ch # dh => ChainIn(next, ch[2]) \cap ChainIn(next, dh[2]) = {}

\* ChainNodes is the set of the lemmas.
LEMMA ChainNodesIs ==
  ASSUME NEW r
  PROVE  ChainNodes(r.start, r.count) = ChainIn(next, r)
  BY DEF ChainNodes, ChainIn, ChainSet, ChainFrom

\* The two forms of ChainsExact say the same.
LEMMA ExactIs == CoreType /\ ListOk => (ChainsExact <=> Exact)
  <1> SUFFICES ASSUME CoreType, ListOk PROVE ChainsExact <=> Exact
    OBVIOUS
  <1> DEFINE In(ch) == ChainNodes(ch[2].start, ch[2].count)
             gone == {n \in allocated : \E i \in DOMAIN linked : linked[i] = n} \ Reachable
  <1>1. \A ch : In(ch) = ChainIn(next, ch[2])
    BY ChainNodesIs
  <1>2. gone = Gone
    <2>1. PlacesGood /\ Linked(linked) \subseteq allocated
      BY GoodNow DEF ListGood
    <2> QED
      BY <2>1, ReachableIs DEF PlacesGood, Gone, Linked
  <1>3. ChainsExact <=> /\ UNION {In(ch) : ch \in Chains} = gone
                        /\ \A n \in gone : next[n].marked
                        /\ \A ch, dh \in Chains : ch # dh => In(ch) \cap In(dh) = {}
    BY DEF ChainsExact
  <1> HIDE DEF In, gone
  <1>4. UNION {In(ch) : ch \in Chains} = gone <=>
          /\ \A ch \in Chains : In(ch) \subseteq gone
          /\ \A n \in gone : \E ch \in Chains : n \in In(ch)
    OBVIOUS
  <1> QED
    BY <1>1, <1>2, <1>3, <1>4 DEF Exact

\* The same in the next state.
LEMMA ExactNext == (CoreType /\ ListOk => (ChainsExact <=> Exact))'
  BY ExactIs, PTL

\* Only a cut takes linked nodes out of reach.
LEMMA GoneBy ==
  ASSUME TypeOK, ListOk, Live, Owned, SearchKnows, DequeueKnows, NEW t \in Threads, Step(t), ~ Cut(t)
  PROVE  Linked(linked') \ Reach(next') = Gone
  <1>1. CASE Quiet
    BY <1>1 DEF Quiet, Gone
  <1>2. CASE Point(t)
    BY <1>2, PointStep DEF Point, Gone
  <1>3. CASE Put(t)
    <2>1. /\ Linked(linked') = Linked(linked) \cup {node[t]}
          /\ Reach(next') = Reach(next) \cup {node[t]}
      BY <1>3, PutStep
    <2>2. node[t] \notin Linked(linked)
      BY <1>3 DEF Put, Owned, Holding
    <2> QED
      BY <2>1, <2>2 DEF Gone
  <1>4. CASE Delete(t)
    BY <1>4, DeleteStep DEF Delete, Gone
  <1> QED
    BY <1>1, <1>2, <1>3, <1>4, StepKinds

\* A cut takes out the chain that it puts in the to-free list.
LEMMA GoneByCut ==
  ASSUME TypeOK, ListOk, Live, Owned, SearchKnows, DequeueKnows, NEW t \in Threads, Step(t), Cut(t)
  PROVE  /\ ChainIn(next, CutChain(t)) \subseteq Reach(next)
         /\ Linked(linked') \ Reach(next') = Gone \cup ChainIn(next, CutChain(t))
  <1> DEFINE D == ChainIn(next, CutChain(t))
  <1>1. CutGood(t) /\ ListGood /\ PlacesGood /\ next' \in Heap /\ next \in Heap
    BY CutKnows, ListFacts, PlaceTypes, ListStep DEF CoreType, ListGood
  <1>2. PICK c : Path(next, c, count[t], left_next[t], right[t])
    BY <1>1 DEF CutGood, MarkedPath
  <1>3. D = PathSet(c, count[t])
    BY <1>1, <1>2, ChainOfPath DEF CutGood, ChainIn, CutChain
  <1>4. D \subseteq Reach(next) /\ Reach(next') = Reach(next) \ D
    BY <1>1, <1>2, <1>3, CutReach DEF PathSet
  <1>5. D \subseteq Linked(linked)
    <2>1. D \subseteq Nodes
      BY <1>2, <1>3 DEF Path, PathSet
    <2> QED
      BY <2>1, <1>1, <1>4 DEF ListGood, PlacesGood
  <1> HIDE DEF D
  <1>6. linked' = linked
    BY DEF Cut
  <1>7. Linked(linked') \ Reach(next') = Gone \cup D
    BY <1>4, <1>5, <1>6 DEF Gone
  <1> QED
    BY <1>4, <1>7 DEF D

\* A step keeps ChainsExact: what a cut takes out of reach is the new chain.
LEMMA ExactStep ==
  ASSUME TypeOK, ListOk, Live, Owned, SearchKnows, DequeueKnows, ChainsMarked, ChainsExact,
         NEW t \in Threads, Step(t)
  PROVE  ChainsExact'
  <1>1. CoreType' /\ ListOk' /\ Live' /\ Frozen(next, next') /\ next \in Heap /\ next' \in Heap
    BY ListStep, ListFacts DEF Grow, CoreType, ListGood
  <1>2. Exact
    BY ExactIs, TypeCore
  <1>3. ASSUME NEW ch \in Chains PROVE ChainIn(next', ch[2]) = ChainIn(next, ch[2])
    <2>1. PICK u \in Threads : \E r \in to_free[u] : ch = <<u, r>>
      BY DEF Chains
    <2> QED
      BY <2>1, <1>1, ChainsMarkedIs, ChainStays
  <1>4. \A n \in Gone' : next'[n].marked
    BY <1>1 DEF Gone, Live
  <1>5. CASE ~ Cut(t)
    <2>1. Chains' = Chains
      BY <1>5, ChainsBy DEF Chains
    <2>2. Gone' = Gone
      BY <1>5, GoneBy DEF Gone
    <2>3. Exact'
      BY <1>2, <1>3, <1>4, <2>1, <2>2 DEF Exact
    <2> QED
      BY <1>1, <2>3, ExactNext
  <1>6. CASE Cut(t)
    <2> DEFINE x == <<t, CutChain(t)>>
               D == ChainIn(next, CutChain(t))
    <2>1. Chains' = Chains \cup {x}
      <3>1. to_free' = [to_free EXCEPT ![t] = to_free[t] \cup {CutChain(t)}]
        BY <1>6, ChainsBy
      <3>2. \A u \in Threads : to_free'[u] = IF u = t THEN to_free[u] \cup {CutChain(t)} ELSE to_free[u]
        BY <3>1 DEF TypeOK
      <3>3. \A ch : ch \in Chains' <=> \E u \in Threads : \E r \in to_free'[u] : ch = <<u, r>>
        BY DEF Chains
      <3>4. \A ch : ch \in Chains <=> \E u \in Threads : \E r \in to_free[u] : ch = <<u, r>>
        BY DEF Chains
      <3>5. \A ch : ch \in Chains' => ch \in Chains \cup {x}
        BY <3>2, <3>3, <3>4
      <3>6. x \in Chains'
        BY <3>2, <3>3
      <3>7. \A ch : ch \in Chains => ch \in Chains'
        BY <3>2, <3>3, <3>4
      <3> QED
        BY <3>5, <3>6, <3>7
    <2>2. Gone' = Gone \cup D /\ D \subseteq Reach(next)
      BY <1>6, GoneByCut DEF Gone
    <2>3. ChainIn(next', x[2]) = D
      BY <1>1, <1>6, ChainsBy, ChainStays
    <2>4. D \cap Gone = {}
      BY <2>2 DEF Gone
    <2> HIDE DEF x, D
    <2>5. \A ch \in Chains' : ChainIn(next', ch[2]) \subseteq Gone'
      BY <1>2, <1>3, <2>1, <2>2, <2>3 DEF Exact
    <2>6. \A n \in Gone' : \E ch \in Chains' : n \in ChainIn(next', ch[2])
      <3> SUFFICES ASSUME NEW n \in Gone' PROVE \E ch \in Chains' : n \in ChainIn(next', ch[2])
        OBVIOUS
      <3>1. CASE n \in Gone
        <4>1. PICK ch \in Chains : n \in ChainIn(next, ch[2])
          BY <3>1, <1>2 DEF Exact
        <4> QED
          BY <4>1, <1>3, <2>1
      <3>2. CASE n \in D
        BY <3>2, <2>1, <2>3
      <3> QED
        BY <3>1, <3>2, <2>2
    <2>7. \A ch, dh \in Chains' : ch # dh => ChainIn(next', ch[2]) \cap ChainIn(next', dh[2]) = {}
      <3> SUFFICES ASSUME NEW ch \in Chains', NEW dh \in Chains', ch # dh
                   PROVE  ChainIn(next', ch[2]) \cap ChainIn(next', dh[2]) = {}
        OBVIOUS
      <3>1. CASE ch \in Chains /\ dh \in Chains
        BY <3>1, <1>2, <1>3 DEF Exact
      <3>2. CASE ch \in Chains /\ dh = x
        <4>1. ChainIn(next', ch[2]) \subseteq Gone
          BY <3>2, <1>2, <1>3 DEF Exact
        <4> QED
          BY <4>1, <3>2, <2>3, <2>4
      <3>3. CASE dh \in Chains /\ ch = x
        <4>1. ChainIn(next', dh[2]) \subseteq Gone
          BY <3>3, <1>2, <1>3 DEF Exact
        <4> QED
          BY <4>1, <3>3, <2>3, <2>4
      <3> QED
        BY <2>1, <3>1, <3>2, <3>3
    <2>8. Exact'
      BY <1>4, <2>5, <2>6, <2>7 DEF Exact
    <2> QED
      BY <1>1, <2>8, ExactNext
  <1> QED
    BY <1>5, <1>6

-----------------------------------------------------------------------------
\* The history of a scan grows until the scan has its candidate.
LEMMA LegalKept ==
  ASSUME NEW t \in Threads, Step(t), NEW u \in Threads
  PROVE  /\ pc'[u] \in Scanning => legal'[u] = legal[u] \cup {FirstLive'}
         /\ pc'[u] \in {"mark", "answered"} => legal'[u] = legal[u]
  <1>1. Record
    BY StepRecords
  <1>2. pc'[u] \in {"mark", "answered"} => pc'[u] \notin Scanning
    BY DEF Scanning
  <1> QED
    BY <1>1, <1>2 DEF Record

\* Where the head points is where the scan in one step starts.
LEMMA FirstLiveHere ==
  ASSUME TypeOK, ListOk
  PROVE  /\ next[HeadNode].to \in Tailed
         /\ ~ next[next[HeadNode].to].marked => FirstLive = next[HeadNode].to
  <1>1. ListGood /\ PlacesGood
    BY ListFacts, PlaceTypes
  <1>2. next \in Heap /\ next[HeadNode].to \in Tailed
    BY <1>1 DEF ListGood, PlacesGood, CoreType, Heap, Refs
  <1>3. \A n \in Tailed : LiveFrom(next)[n] = IF Dead(next, n) THEN LiveFrom(next)[next[n].to] ELSE n
    BY <1>2, LiveFromDef
  <1> QED
    BY <1>2, <1>3, FirstLiveIs DEF Dead

\* The CAS that is about to be tried would cut a chain of marked nodes.
LEMMA PendingCuts ==
  ASSUME TypeOK, ListOk, SearchKnows, DequeueKnows, NEW v \in Threads, pc[v] \in {"unlink", "deq_unlink"}
  PROVE  /\ left_next[v] \in Nodes /\ next[left_next[v]].marked
         /\ MarkedPath(next, left_next[v], count[v], right[v]) /\ count[v] \in Nat
  <1>1. ChainHere(v) /\ left_next[v] # right[v]
    BY DEF SearchKnows, SearchAt, DequeueKnows, DequeueAt
  <1>2. count[v] \in Nat
    BY NodesCount DEF TypeOK
  <1> QED
    BY <1>1, <1>2, PathStart DEF ChainHere

\* A CAS becomes pending with an unmarked node as its new value.
LEMMA PendingBy ==
  ASSUME TypeOK, ListOk, SearchKnows, DequeueKnows, NEW t \in Threads, Step(t), Pending(t)'
  PROVE  right'[t] \in Tailed /\ ~ next'[right'[t]].marked
  <1>l. ListGood /\ PlacesGood
    BY ListFacts, PlaceTypes
  <1>1. SearchWalk(t) \/ DeqWalk(t)
    BY DEF Pending, TypeOK, Goto, Step, Insert, Dequeue, InsertCall, SearchHead, SearchUnlink, SearchCheck,
           Link, UnlinkChain, Chosen, DequeueCall, DeqHead, DeqUnlink, DeqMark, DequeueReturn
  <1>2. CASE SearchWalk(t)
    <2>1. /\ pc'[t] # "walk" => ~ GoesOn(t, right_next[t].to)
          /\ right'[t] = right_next[t].to /\ next' = next
      BY <1>2 DEF SearchWalk, Goto, Set, TypeOK, list
    <2>2. right_next[t].to \in Tailed
      BY DEF TypeOK, Refs, Tailed
    <2> QED
      BY <2>1, <2>2, <1>l DEF Pending, GoesOn, ListGood, Ref
  <1>3. CASE DeqWalk(t)
    <2>1. /\ ~ next[right[t]].marked /\ right' = right /\ next' = next
      BY <1>3 DEF DeqWalk, Pending, TypeOK, list
    <2>2. right[t] \in Tailed
      BY <1>3, <1>l DEF DeqWalk, DequeueKnows, DequeueAt, PlacesGood
    <2> QED
      BY <2>1, <2>2
  <1> QED
    BY <1>1, <1>2, <1>3

\* A step that moves the head moves it along a pending CAS, or to a new node.
LEMMA HeadBy ==
  ASSUME TypeOK, ListOk, Live, Owned, SearchKnows, DequeueKnows, NEW t \in Threads, Step(t)
  PROVE  \/ next'[HeadNode].to = next[HeadNode].to
         \/ Pending(t) /\ next[HeadNode].to = left_next[t] /\ next'[HeadNode].to = right[t]
         \/ next'[HeadNode].to \in Nodes /\ ~ next'[next'[HeadNode].to].marked
  <1>l. ListGood /\ PlacesGood
    BY ListFacts, PlaceTypes
  <1>h. HeadNode \in Cells
    BY <1>l DEF PlacesGood
  <1>1. CASE Quiet
    BY <1>1 DEF Quiet
  <1>2. CASE Cut(t)
    <2>1. CutGood(t)
      BY <1>2, CutKnows
    <2>2. CASE left[t] = HeadNode
      <3>1. Pending(t) /\ next[HeadNode].to = left_next[t]
        BY <1>2, <2>1, <2>2 DEF CutGood, Cut, Pending
      <3>2. next'[HeadNode] = Ref(right[t])
        BY <2>1, <2>2 DEF CutGood
      <3> QED
        BY <3>1, <3>2 DEF Ref
    <2>3. CASE left[t] # HeadNode
      BY <2>1, <2>3, <1>h DEF CutGood
    <2> QED
      BY <2>2, <2>3
  <1>3. CASE Point(t)
    <2>1. node[t] # HeadNode
      BY <1>l DEF TypeOK, PlacesGood
    <2> QED
      BY <1>3, <2>1 DEF Point, Set, TypeOK
  <1>4. CASE Put(t)
    <2>1. left[t] # node[t] /\ node[t] \in Nodes
      <3>1. node[t] \in allocated \ Linked(linked) /\ allocated \subseteq Nodes
        BY <1>4 DEF Put, Owned, Holding, TypeOK
      <3>2. left[t] \in Linked(linked) \cup {HeadNode}
        BY <1>4 DEF Put, SearchKnows, SearchAt, LeftHere
      <3> QED
        BY <3>1, <3>2, <1>l DEF PlacesGood
    <2>2. next[node[t]] = Ref(right[t])
      BY <1>4 DEF Put, Owned
    <2>3. CASE left[t] = HeadNode
      <3>1. next'[HeadNode].to = node[t] /\ next'[node[t]] = next[node[t]]
        BY <1>4, <2>1, <2>3 DEF Put, Set, TypeOK, Ref
      <3> QED
        BY <2>1, <2>2, <3>1 DEF Ref
    <2>4. CASE left[t] # HeadNode
      BY <1>4, <2>4 DEF Put, Set, TypeOK
    <2> QED
      BY <2>3, <2>4
  <1>5. CASE Delete(t)
    BY <1>5, <1>h, DeleteStep
  <1> QED
    BY <1>1, <1>2, <1>3, <1>4, <1>5, StepKinds

\* The head never comes back to a marked node that it cannot come back to now.
LEMMA ReturnsStep ==
  ASSUME TypeOK, ListOk, Live, Owned, SearchKnows, DequeueKnows, NEW t \in Threads, Step(t),
         NEW L \in Nodes, next[L].marked, Returns(L)'
  PROVE  Returns(L)
  <1>o. Others(t) /\ Frozen(next, next') /\ CoreType'
    BY StepOthers, ListStep DEF Grow
  <1>l. ListGood /\ PlacesGood
    BY ListFacts, PlaceTypes
  <1> SUFFICES ASSUME NEW S \in SUBSET Tailed, Ahead(S), L \notin S PROVE FALSE
    BY DEF Returns
  <1>w. PICK W : W = S \cup {n \in Tailed : ~ next'[n].marked}
    OBVIOUS
  <1>1. W \in SUBSET Tailed
    BY <1>w
  <1>2. \A n \in Tailed : next[n].marked => next'[n].marked
    BY <1>o, <1>l DEF Frozen, PlacesGood
  <1>3. L \notin W
    BY <1>2, <1>l, <1>w DEF PlacesGood
  <1>4. next'[HeadNode].to \in W
    BY HeadBy, <1>l, <1>w DEF Ahead, PlacesGood
  <1>5. ASSUME NEW v \in Threads, Pending(v)', left_next'[v] \in W PROVE right'[v] \in W
    <2>1. CASE v = t
      BY <2>1, <1>5, <1>w, PendingBy
    <2>2. CASE v # t
      <3>1. Pending(v) /\ left_next'[v] = left_next[v] /\ right'[v] = right[v]
        BY <2>2, <1>5, <1>o DEF Others, Pending
      <3>2. left_next[v] \in Nodes /\ next[left_next[v]].marked
        BY <3>1, PendingCuts DEF Pending
      <3>3. left_next[v] \in S
        BY <1>2, <1>5, <1>w, <3>1, <3>2
      <3> QED
        BY <1>w, <3>1, <3>3 DEF Ahead
    <2> QED
      BY <2>1, <2>2
  <1>6. Ahead(W)'
    BY <1>4, <1>5 DEF Ahead
  <1> QED
    BY <1>1, <1>3, <1>6 DEF Returns

\* If the head may come back, the chain of a scan leads to where the head leads.
LEMMA ReturnsLive ==
  ASSUME TypeOK, ListOk, SearchKnows, DequeueKnows, NEW t \in Threads,
         pc[t] = "deq_unlink", Returns(left_next[t]), ~ next[right[t]].marked
  PROVE  FirstLive = right[t]
  <1> DEFINE h == LiveFrom(next)
             S == {n \in Tailed : h[n] = h[next[HeadNode].to]}
  <1>l. ListGood /\ PlacesGood /\ next \in Heap
    BY ListFacts, PlaceTypes DEF ListGood, CoreType
  <1>h. \A n \in Tailed : h[n] = IF Dead(next, n) THEN h[next[n].to] ELSE n
    BY <1>l, LiveFromDef
  <1>1. ASSUME NEW v \in Threads, pc[v] \in {"unlink", "deq_unlink"}
        PROVE  left_next[v] \in Tailed /\ right[v] \in Tailed /\ h[right[v]] = h[left_next[v]]
    <2>1. /\ left_next[v] \in Tailed
          /\ MarkedPath(next, left_next[v], count[v], right[v]) /\ count[v] \in Nat
      BY <1>1, <1>l, PendingCuts DEF PlacesGood
    <2> QED
      BY <2>1, <1>l, LiveAlong
  <1> HIDE DEF h
  <1>2. next[HeadNode].to \in S
    BY FirstLiveHere
  <1>3. Ahead(S)
    BY <1>1, <1>2 DEF Ahead, Pending
  <1>4. left_next[t] \in S
    <2> HIDE DEF S
    <2>1. S \in SUBSET Tailed
      BY DEF S
    <2> QED
      BY <1>3, <2>1 DEF Returns
  <1>5. right[t] \in Tailed /\ h[right[t]] = h[left_next[t]]
    BY <1>1
  <1>6. h[right[t]] = right[t]
    BY <1>5, <1>h DEF Dead
  <1> QED
    BY <1>4, <1>5, <1>6, FirstLiveIs DEF h

\* The same in the next state.
LEMMA ReturnsLiveNext ==
  ASSUME NEW t \in Threads
  PROVE  (TypeOK /\ ListOk /\ SearchKnows /\ DequeueKnows /\ pc[t] = "deq_unlink" /\ Returns(left_next[t])
            /\ ~ next[right[t]].marked => FirstLive = right[t])'
  <1>1. TypeOK /\ ListOk /\ SearchKnows /\ DequeueKnows /\ pc[t] = "deq_unlink" /\ Returns(left_next[t])
            /\ ~ next[right[t]].marked => FirstLive = right[t]
    BY ReturnsLive
  <1> QED
    BY <1>1, PTL

\* A step that leaves next alone leaves what a scan would find.
LEMMA FirstLiveSame ==
  ASSUME next' = next
  PROVE  FirstLive' = FirstLive
  BY DEF FirstLive

\* A step keeps what scans know. A scan that enters the unlink while the head may
\* come back to where it started has found the first unmarked node; one whose CAS
\* succeeds has the head back; one that has nothing to unlink starts at its answer.
LEMMA ScanStep ==
  ASSUME TypeOK, ListOk, Live, Owned, SearchKnows, DequeueKnows, ScanKnows, ScanLegit,
         NEW t \in Threads, Step(t)
  PROVE  ScanKnows' /\ ScanLegit'
  <1>l. ListGood /\ PlacesGood
    BY ListFacts, PlaceTypes
  <1>o. Others(t) /\ Frozen(next, next')
    BY StepOthers, ListStep DEF Grow
  <1>n. TypeOK' /\ ListOk' /\ SearchKnows' /\ DequeueKnows'
    BY TypeStep, ListStep, KnowsStep
  <1>m. \A n \in Tailed : ~ next'[n].marked => ~ next[n].marked
    BY <1>o, <1>l DEF Frozen, PlacesGood
  <1>1. ASSUME NEW u \in Threads, pc'[u] \in Scanning PROVE FirstLive' \in legal'[u]
    BY <1>1, LegalKept
  <1>2. ASSUME NEW u \in Threads, pc'[u] = "deq_walk", ~ next'[left_next'[u]].marked
        PROVE  left_next'[u] \in legal'[u]
    <2>0. legal[u] \subseteq legal'[u] /\ FirstLive' \in legal'[u]
      BY <1>2, LegalKept DEF Scanning
    <2>1. CASE pc[u] = "deq_walk" /\ left_next'[u] = left_next[u]
      <3>1. left_next[u] \in Tailed
        BY DEF TypeOK, Tailed
      <3> QED
        BY <1>2, <1>m, <2>0, <2>1, <3>1 DEF ScanKnows
    <2>2. CASE u = t /\ DeqHead(t)
      <3>1. left_next'[u] = next[HeadNode].to /\ next' = next
        BY <2>2 DEF DeqHead, Set, TypeOK, list
      <3>2. FirstLive' = FirstLive
        BY <3>1, FirstLiveSame
      <3> QED
        BY <1>2, <2>0, <3>1, <3>2, FirstLiveHere
    <2>3. u = t => DeqHead(t) \/ DeqWalk(t)
      BY <1>2 DEF TypeOK, Goto, Step, Insert, Dequeue, InsertCall, SearchHead, SearchWalk, SearchUnlink,
           SearchCheck, Link, UnlinkChain, Chosen, DequeueCall, DeqUnlink, DeqMark, DequeueReturn
    <2>4. DeqWalk(t) => pc[t] = "deq_walk" /\ left_next'[t] = left_next[t]
      BY DEF DeqWalk
    <2> QED
      BY <1>2, <1>o, <2>1, <2>2, <2>3, <2>4 DEF Others
  <1>3. ASSUME NEW u \in Threads, pc'[u] = "deq_unlink", Returns(left_next[u])', left_next'[u] = left_next[u]
        PROVE  right'[u] \in legal'[u]
    <2>0. legal[u] \subseteq legal'[u] /\ FirstLive' \in legal'[u]
      BY <1>3, LegalKept DEF Scanning
    <2>1. CASE u # t
      <3>1. pc[u] = "deq_unlink" /\ right'[u] = right[u]
        BY <1>3, <2>1, <1>o DEF Others
      <3>2. left_next[u] \in Nodes /\ next[left_next[u]].marked
        BY <3>1, PendingCuts
      <3>3. Returns(left_next[u])
        <4>1. PICK L : L = left_next[u]
          OBVIOUS
        <4>2. L \in Nodes /\ next[L].marked /\ Returns(L)'
          BY <4>1, <3>2, <1>3 DEF Returns
        <4> QED
          BY <4>1, <4>2, ReturnsStep
      <3> QED
        BY <3>1, <3>3, <2>0 DEF ScanKnows
    <2>2. CASE u = t
      <3>1. DeqWalk(t)
        BY <1>3, <2>2 DEF TypeOK, Goto, Step, Insert, Dequeue, InsertCall, SearchHead, SearchWalk, SearchUnlink,
             SearchCheck, Link, UnlinkChain, Chosen, DequeueCall, DeqHead, DeqUnlink, DeqMark, DequeueReturn
      <3>2. ~ next[right[t]].marked /\ right' = right /\ next' = next
        BY <3>1, <1>3, <2>2 DEF DeqWalk, TypeOK, list
      <3>3. FirstLive' = right'[t]
        BY <1>3, <1>n, <2>2, <3>2, ReturnsLiveNext
      <3> QED
        BY <2>0, <2>2, <3>3
    <2> QED
      BY <2>1, <2>2
  <1>4. ASSUME NEW u \in Threads, pc'[u] = "deq_unlink" PROVE left_next'[u] = left_next[u]
    <2>1. CASE u # t
      BY <2>1, <1>o DEF Others
    <2>2. CASE u = t
      <3>1. DeqWalk(t)
        BY <1>4, <2>2 DEF TypeOK, Goto, Step, Insert, Dequeue, InsertCall, SearchHead, SearchWalk, SearchUnlink,
             SearchCheck, Link, UnlinkChain, Chosen, DequeueCall, DeqHead, DeqUnlink, DeqMark, DequeueReturn
      <3> QED
        BY <3>1, <2>2 DEF DeqWalk
    <2> QED
      BY <2>1, <2>2
  <1>5. ASSUME NEW u \in Threads, pc'[u] \in {"mark", "answered"} PROVE right'[u] \in legal'[u]
    <2>0. legal'[u] = legal[u]
      BY <1>5, LegalKept
    <2>1. CASE pc[u] \in {"mark", "answered"} /\ right'[u] = right[u]
      BY <2>0, <2>1 DEF ScanLegit
    <2>2. CASE u = t /\ DeqWalk(t)
      <3>1. /\ pc[t] = "deq_walk" /\ right' = right
            /\ left_next[t] = right[t] /\ ~ next[right[t]].marked
        BY <2>2, <1>5 DEF DeqWalk, Goto, TypeOK
      <3> QED
        BY <2>0, <2>2, <3>1 DEF ScanKnows
    <2>3. CASE u = t /\ DeqUnlink(t)
      <3>1. /\ pc[t] = "deq_unlink" /\ right' = right /\ next[left[t]] = Ref(left_next[t])
        BY <2>3, <1>5 DEF DeqUnlink, UnlinkChain, Goto, TypeOK, regs
      <3>2. next[HeadNode].to = left_next[t]
        BY <3>1 DEF DequeueKnows, DequeueAt, Ref
      <3>3. Returns(left_next[t])
        BY <3>2 DEF Returns, Ahead
      <3> QED
        BY <2>0, <2>3, <3>1, <3>3 DEF ScanKnows
    <2>4. u = t => DeqWalk(t) \/ DeqUnlink(t) \/ DeqMark(t)
      BY <1>5 DEF TypeOK, Goto, Step, Insert, Dequeue, InsertCall, SearchHead, SearchWalk, SearchUnlink,
           SearchCheck, Link, UnlinkChain, DequeueCall, DeqHead, DequeueReturn
    <2>5. u = t /\ DeqMark(t) => pc[u] \in {"mark", "answered"} /\ right'[u] = right[u]
      BY <1>5 DEF DeqMark, Goto, TypeOK, regs
    <2> QED
      BY <1>5, <1>o, <2>1, <2>2, <2>3, <2>4, <2>5 DEF Others
  <1>6. ScanKnows'
    BY <1>1, <1>2, <1>3, <1>4 DEF ScanKnows, Returns
  <1>7. ScanLegit'
    BY <1>5 DEF ScanLegit
  <1> QED
    BY <1>6, <1>7

-----------------------------------------------------------------------------
\* The invariant holds at the start, every step keeps it, and it implies the
\* properties that are not among its parts.
LEMMA InitInv == Init => IndInv
  <1> SUFFICES ASSUME Init PROVE IndInv
    OBVIOUS
  <1>1. TypeOK
    <2>1. Ref(TailNode) \in Refs /\ 0 \in 0 .. Cardinality(Nodes)
      BY NodesCount DEF Ref, Refs
    <2> QED
      BY <2>1 DEF Init, TypeOK, Labels
  <1>2. Linked(linked) = {} /\ Places(linked) = {HeadNode, TailNode}
    BY DEF Init, Linked, Places
  <1>3. \A n \in Cells : next[n] = Ref(TailNode)
    BY DEF Init, Cells
  <1>4. HeadNode \in Cells /\ TailNode \in Cells /\ HeadNode # TailNode
    BY BucketListAssumption DEF Cells
  <1>5. ListOk
    <2>1. linked = <<>>
      BY DEF Init
    <2>2. <<HeadNode, TailNode>> \in Order(linked, timestamp)
      BY <1>2, <1>4, OrderMeans DEF Before
    <2>3. Follows(next, Order(linked, timestamp), Places(linked))
      BY <1>2, <1>3, <1>4, <2>2 DEF Follows, Ref
    <2>4. MarkedIn(next, Places(linked)) /\ ~ next[HeadNode].marked
      BY <1>3, <1>4 DEF MarkedIn, Ref, Cells
    <2> QED
      BY <1>2, <1>3, <1>4, <2>1, <2>3, <2>4 DEF ListOk
  <1>6. Live /\ Owned /\ SearchKnows /\ DequeueKnows /\ TakenOnce
    BY <1>2 DEF Init, Live, Owned, Holding, SearchKnows, SearchAt, DequeueKnows, DequeueAt, TakenOnce
  <1>7. \A t \in Threads : to_free[t] = {}
    BY DEF Init
  <1>8. ChainsMarked
    BY <1>7 DEF ChainsMarked
  <1>9. ChainsExact
    <2>1. Exact
      BY <1>2, <1>7 DEF Exact, Chains, Gone
    <2> QED
      BY <1>1, <1>5, <2>1, ExactIs, TypeCore
  <1>10. \A t \in Threads : pc[t] = "idle"
    BY DEF Init
  <1>11. ScanKnows /\ ScanLegit
    BY <1>10 DEF ScanKnows, ScanLegit, Scanning
  <1> QED
    BY <1>1, <1>5, <1>6, <1>8, <1>9, <1>11 DEF IndInv

\* The invariant speaks of the variables only.
LEMMA StutterInv ==
  ASSUME IndInv, UNCHANGED vars
  PROVE  IndInv'
  <1> USE DEF vars, list, regs
  <1>1. TypeOK' /\ ListOk' /\ Live' /\ Owned'
    BY DEF IndInv, TypeOK, ListOk, Live, Owned
  <1>2. SearchKnows' /\ DequeueKnows' /\ TakenOnce' /\ ChainsMarked'
    BY DEF IndInv, SearchKnows, SearchAt, DequeueKnows, DequeueAt, TakenOnce, ChainsMarked,
           LeftHere, RightHere, ChainHere
  <1>3. CoreType' /\ (CoreType /\ ListOk)
    BY <1>1, TypeCore DEF IndInv, TypeOK, CoreType, Heap, Cells
  <1>4. ChainsExact'
    <2>1. Exact
      BY <1>3, ExactIs DEF IndInv
    <2>2. Chains' = Chains /\ Gone' = Gone
      BY DEF Chains, Gone
    <2>3. Exact'
      BY <2>1, <2>2 DEF Exact
    <2> QED
      BY <1>1, <1>3, <2>3, ExactNext
  <1>5. ScanKnows' /\ ScanLegit'
    <2>1. FirstLive' = FirstLive
      BY FirstLiveSame
    <2> QED
      BY <2>1 DEF IndInv, ScanKnows, ScanLegit, Returns, Ahead, Pending
  <1> QED
    BY <1>1, <1>2, <1>4, <1>5 DEF IndInv

\* The invariant is inductive.
LEMMA StepInv == IndInv /\ [Next]_vars => IndInv'
  <1> SUFFICES ASSUME IndInv, [Next]_vars PROVE IndInv'
    OBVIOUS
  <1>1. CASE Next
    <2>1. PICK t \in Threads : Step(t)
      BY <1>1 DEF Next, Step
    <2>2. TypeOK' /\ ListOk' /\ Live' /\ Owned'
      BY <2>1, TypeStep, ListStep, OwnedStep DEF IndInv
    <2>3. SearchKnows' /\ DequeueKnows' /\ TakenOnce'
      BY <2>1, KnowsStep, TakenStep DEF IndInv
    <2>4. ChainsMarked' /\ ChainsExact'
      BY <2>1, ChainsMarkedStep, ExactStep DEF IndInv
    <2>5. ScanKnows' /\ ScanLegit'
      BY <2>1, ScanStep DEF IndInv
    <2> QED
      BY <2>2, <2>3, <2>4, <2>5 DEF IndInv
  <1>2. CASE UNCHANGED vars
    BY <1>2, StutterInv
  <1> QED
    BY <1>1, <1>2

\* An unmarked node is in the walk from the head.
LEMMA InvReachable == IndInv => LiveReachable
  <1> SUFFICES ASSUME IndInv, NEW i \in DOMAIN linked
               PROVE  next[linked[i]].marked \/ linked[i] \in Reachable
    BY DEF LiveReachable
  <1>1. CoreType /\ ListOk
    BY TypeCore DEF IndInv
  <1>2. Reachable = Reach(next) \ {HeadNode, TailNode}
    BY <1>1, ReachableIs
  <1>3. linked[i] \in Linked(linked) /\ linked[i] # HeadNode /\ linked[i] # TailNode
    BY <1>1, GoodNow DEF Linked, PlacesGood
  <1> QED
    BY <1>2, <1>3 DEF IndInv, Live

\* A walk from the head follows the order.
LEMMA InvSorted == IndInv => SortedFifo
  <1> SUFFICES ASSUME IndInv PROVE SortedFifo
    OBVIOUS
  <1> DEFINE O == Order(linked, timestamp)
             P == Places(linked)
             w == WalkFrom(next)
  <1>1. ListGood /\ PlacesGood /\ ListOk
    BY ListFacts, PlaceTypes DEF IndInv
  <1>2. next \in Heap /\ Ordered(O, P) /\ Follows(next, O, P)
    BY <1>1 DEF ListGood, CoreType
  <1>3. DOMAIN w = Steps
    BY <1>2, WalkDef
  <1>4. ASSUME NEW i \in DOMAIN linked, NEW j \in DOMAIN linked, NEW k \in DOMAIN w, NEW l \in DOMAIN w,
               w[k] = linked[i], w[l] = linked[j], k < l
        PROVE  \/ timestamp[linked[i]] < timestamp[linked[j]]
               \/ timestamp[linked[i]] = timestamp[linked[j]] /\ i < j
    <2> HIDE DEF O, P, w
    <2>1. linked[i] \in Nodes /\ linked[j] \in Nodes /\ linked[j] # TailNode /\ linked[i] # HeadNode
      BY <1>1 DEF PlacesGood, Linked
    <2>2. <<w[k], w[l]>> \in O
      <3>1. k \in Steps /\ l \in Steps /\ w[l] # TailNode
        BY <1>3, <1>4, <2>1
      <3> QED
        BY <3>1, <1>2, <1>4, WalkOrdered DEF w
    <2>3. Before(linked, timestamp, linked[i], linked[j])
      BY <2>2, <1>4, OrderMeans DEF O
    <2>4. PICK m, n \in DOMAIN linked :
            /\ linked[m] = linked[i] /\ linked[n] = linked[j]
            /\ timestamp[linked[i]] < timestamp[linked[j]]
                 \/ (timestamp[linked[i]] = timestamp[linked[j]] /\ m < n)
      BY <2>1, <2>3 DEF Before
    <2>5. m = i /\ n = j
      BY <2>4, <1>1 DEF ListOk
    <2> QED
      BY <2>4, <2>5
  <1>5. Walk = w
    BY WalkIs
  <1> HIDE DEF w
  <1> QED
    BY <1>4, <1>5 DEF SortedFifo

\* Whatever the operations of any number of threads and however they
\* interleave, the invariant holds.
THEOREM BucketInvariant == Spec => []IndInv
  <1>1. Init => IndInv
    BY InitInv
  <1>2. IndInv /\ [Next]_vars => IndInv'
    BY StepInv
  <1> QED
    BY <1>1, <1>2, PTL DEF Spec

\* Every variable of the bucket keeps its type; a counter never exceeds the number
\* of nodes.
THEOREM BucketTypeCorrect == Spec => []TypeOK
  <1>1. IndInv => TypeOK
    BY DEF IndInv
  <1> QED
    BY <1>1, BucketInvariant, PTL

\* A linked node that no dequeue() marked stays reachable, whatever CAS of search(),
\* insert() and dequeue() change its neighbours.
THEOREM NoEventLost == Spec => []LiveReachable
  BY InvReachable, BucketInvariant, PTL

\* The list is sorted by timestamp, first in first out within one.
THEOREM BucketSorted == Spec => []SortedFifo
  BY InvSorted, BucketInvariant, PTL

\* No two dequeue() answer with the same node.
THEOREM NodeTakenOnce == Spec => []TakenOnce
  <1>1. IndInv => TakenOnce
    BY DEF IndInv
  <1> QED
    BY <1>1, BucketInvariant, PTL

\* The to-free chains are disjoint and hold exactly the linked nodes that are out of
\* reach, all of them marked: what prune() frees is nobody's and nothing leaks.
THEOREM ToFreeExact == Spec => []ChainsExact
  <1>1. IndInv => ChainsExact
    BY DEF IndInv
  <1> QED
    BY <1>1, BucketInvariant, PTL

\* The candidate of a scan was the first unmarked node, or the bucket was empty, at
\* some moment of the scan.
THEOREM ScanAsIfAtomic == Spec => []ScanLegit
  <1>1. IndInv => ScanLegit
    BY DEF IndInv
  <1> QED
    BY <1>1, BucketInvariant, PTL

\* The next pointer of a marked node is never written again.
THEOREM MarkedFrozen == Spec => [][Frozen(next, next')]_vars
  <1>1. IndInv /\ [Next]_vars => [Frozen(next, next')]_vars
    <2> SUFFICES ASSUME IndInv, Next PROVE Frozen(next, next')
      OBVIOUS
    <2>1. PICK t \in Threads : Step(t)
      BY DEF Next, Step
    <2> QED
      BY <2>1, ListStep DEF IndInv, Grow
  <1> QED
    BY <1>1, BucketInvariant, PTL DEF Spec
=============================================================================
