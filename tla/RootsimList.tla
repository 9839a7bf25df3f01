---------------------------- MODULE RootsimList ----------------------------
(***************************************************************************)
(* The sorted list baseline (list.c): a doubly linked list, its size and a *)
(* spinlock.  process() uses __list_insert() and list_pop(), which lock;   *)
(* they are several steps here, so that what the lock excludes can happen  *)
(* without it.  The other operations do not lock and are for one thread at *)
(* a time: they are single steps, taken when no other operation is under   *)
(* way.                                                                    *)
(***************************************************************************)
EXTENDS Integers, Sequences, FiniteSets

CONSTANTS ListThreads,  \* the threads that use the list
          Items,        \* the memory for nodes, recycled by the allocator
          Keys,         \* the timestamps of the nodes
          NULL,
          Empty         \* the answer of a pop on an empty list

ASSUME ListAssumption ==
  /\ IsFiniteSet(Items) /\ NULL \notin Items \cup ListThreads
  /\ Keys \subseteq Nat
  /\ Empty \notin Keys

VARIABLES list,      \* struct rootsim_list with its nodes: head, tail, size, next, prev
          key,       \* the key in each node's payload
          owner,     \* what each node is: free, held by a thread, queued, popped
          locked,    \* the thread that has the spinlock, or NULL
          step,      \* where each thread is
          new_n,     \* the node it brings or takes away
          cursor,    \* n, its place in the list
          unlocked,  \* the program uses the operations that do not lock
          stopped    \* a NULL pointer was followed, or abort() called

lvars == <<list, key, owner, locked, step, new_n, cursor, unlocked, stopped>>

-----------------------------------------------------------------------------
\* The list operations, from list to list.

\* The node becomes the only one.
Only(l, x) ==
  [l EXCEPT !.head = x, !.tail = x, !.size = @ + 1, !.next[x] = NULL, !.prev[x] = NULL]

LinkHead(l, x) ==
  IF l.size = 0 THEN Only(l, x)
  ELSE [l EXCEPT !.prev = [@ EXCEPT ![x] = NULL, ![l.head] = x],
                 !.next[x] = l.head, !.head = x, !.size = @ + 1]

LinkTail(l, x) ==
  IF l.size = 0 THEN Only(l, x)
  ELSE [l EXCEPT !.next = [@ EXCEPT ![x] = NULL, ![l.tail] = x],
                 !.prev[x] = l.tail, !.tail = x, !.size = @ + 1]

\* __list_insert(), after the node the walk from the tail has stopped at.
LinkAfter(l, m, x) ==
  IF l.size = 0 \/ m = l.tail THEN LinkTail(l, x)
  ELSE IF m = NULL THEN LinkHead(l, x)
  ELSE [l EXCEPT !.prev = [@ EXCEPT ![x] = m, ![l.next[m]] = x],
                 !.next = [@ EXCEPT ![x] = l.next[m], ![m] = x],
                 !.size = @ + 1]

\* list_pop of a list that is not empty, leaving the new head's prev alone.
PopHeadDangling(l) == [l EXCEPT !.head = l.next[l.head], !.size = @ - 1]

\* list_pop() of a list that is not empty.  tail is left as it is.
PopHead(l) ==
  LET second == l.next[l.head] IN
  [l EXCEPT !.head = second, !.size = @ - 1,
            !.prev = IF second = NULL THEN @ ELSE [@ EXCEPT ![second] = NULL]]

\* Unlink that does not move the tail.
UnlinkNotTail(l, x) ==
  LET before == l.prev[x]
      after == l.next[x]
  IN  [l EXCEPT !.head = IF @ = x THEN after ELSE @,
                !.prev = IF after = NULL THEN @ ELSE [@ EXCEPT ![after] = before],
                !.next = IF before = NULL THEN @ ELSE [@ EXCEPT ![before] = after],
                !.size = @ - 1]

\* The unlinking of __list_extract() and __list_extract_by_content().
Unlink(l, x) ==
  LET before == l.prev[x]
      after == l.next[x]
  IN  [l EXCEPT !.head = IF @ = x THEN after ELSE @,
                !.tail = IF @ = x THEN before ELSE @,
                !.prev = IF after = NULL THEN @ ELSE [@ EXCEPT ![after] = before],
                !.next = IF before = NULL THEN @ ELSE [@ EXCEPT ![before] = after],
                !.size = @ - 1]

\* The nodes from head on, as many as size says.
Chain(l) ==
  LET f[i \in 1..l.size] ==
        IF i = 1 THEN l.head ELSE IF f[i - 1] = NULL THEN NULL ELSE l.next[f[i - 1]]
  IN  f

\* The first node with the key, as find() and extract() walk to it.
Matches(k) == {i \in 1..list.size : key[Chain(list)[i]] = k}
FirstMatch(k) == Chain(list)[CHOOSE i \in Matches(k) : \A m \in Matches(k) : i <= m]

-----------------------------------------------------------------------------
ListInit ==
  /\ list = [head |-> NULL, tail |-> NULL, size |-> 0,
             next |-> [x \in Items |-> NULL], prev |-> [x \in Items |-> NULL]]
  /\ key = [x \in Items |-> 0]
  /\ owner = [x \in Items |-> "free"]
  /\ locked = NULL
  /\ step = [t \in ListThreads |-> "idle"]
  /\ new_n = [t \in ListThreads |-> NULL]
  /\ cursor = [t \in ListThreads |-> NULL]
  /\ unlocked \in BOOLEAN
  /\ stopped = FALSE

At(t, where) == step[t] = where /\ ~unlocked /\ ~stopped
Move(t, where) == step' = [step EXCEPT ![t] = where]

\* __list_insert() allocates the node, before it locks.  Its links keep what
\* the memory held.
InsertCall(t, x, k) ==
  /\ At(t, "idle")
  /\ owner[x] = "free"
  /\ owner' = [owner EXCEPT ![x] = "held"]
  /\ key' = [key EXCEPT ![x] = k]
  /\ new_n' = [new_n EXCEPT ![t] = x]
  /\ Move(t, "insert")
  /\ UNCHANGED <<list, locked, cursor, unlocked, stopped>>

\* LockInsert without the lock.
LockInsertFree(t) ==
  /\ At(t, "insert")
  /\ cursor' = [cursor EXCEPT ![t] = IF list.size = 0 THEN NULL ELSE list.tail]
  /\ Move(t, "walk")
  /\ UNCHANGED <<list, key, owner, locked, new_n, unlocked, stopped>>

\* The spinlock, and the read of the tail.
LockInsert(t) ==
  /\ At(t, "insert")
  /\ locked = NULL
  /\ locked' = t
  /\ cursor' = [cursor EXCEPT ![t] = IF list.size = 0 THEN NULL ELSE list.tail]
  /\ Move(t, "walk")
  /\ UNCHANGED <<list, key, owner, new_n, unlocked, stopped>>

\* Larger, past equal keys too.
LargerOrEqual(t) == cursor[t] # NULL /\ key[new_n[t]] <= key[cursor[t]]

\* The walk goes on to the left of larger keys.
Larger(t) == cursor[t] # NULL /\ key[new_n[t]] < key[cursor[t]]

Walk(t) ==
  /\ At(t, "walk")
  /\ Larger(t)
  /\ cursor' = [cursor EXCEPT ![t] = list.prev[cursor[t]]]
  /\ UNCHANGED <<list, key, owner, locked, step, new_n, unlocked, stopped>>

\* The node is linked, size counts it, and the lock is released.
Link(t) ==
  /\ At(t, "walk")
  /\ ~Larger(t)
  /\ list' = LinkAfter(list, cursor[t], new_n[t])
  /\ owner' = [owner EXCEPT ![new_n[t]] = "queued"]
  /\ new_n' = [new_n EXCEPT ![t] = NULL]
  /\ cursor' = [cursor EXCEPT ![t] = NULL]
  /\ locked' = NULL
  /\ Move(t, "done")
  /\ UNCHANGED <<key, unlocked, stopped>>

PopCall(t) ==
  /\ At(t, "idle")
  /\ Move(t, "pop")
  /\ UNCHANGED <<list, key, owner, locked, new_n, cursor, unlocked, stopped>>

\* list_pop() takes the lock and reads the head.
LockPop(t) ==
  /\ At(t, "pop")
  /\ locked = NULL
  /\ locked' = t
  /\ cursor' = [cursor EXCEPT ![t] = list.head]
  /\ Move(t, "popping")
  /\ UNCHANGED <<list, key, owner, new_n, unlocked, stopped>>

\* It unlinks the head, if there is one, and releases the lock.
PopLink(t) ==
  /\ At(t, "popping")
  /\ IF cursor[t] = NULL
     THEN UNCHANGED <<list, owner>>
     ELSE /\ list' = PopHead(list)
          /\ owner' = [owner EXCEPT ![cursor[t]] = "popped"]
  /\ new_n' = [new_n EXCEPT ![t] = cursor[t]]
  /\ cursor' = [cursor EXCEPT ![t] = NULL]
  /\ locked' = NULL
  /\ Move(t, "done")
  /\ UNCHANGED <<key, unlocked, stopped>>

\* process() frees the node it popped.
CallReturn(t) ==
  /\ At(t, "done")
  /\ owner' = [x \in Items |-> IF x = new_n[t] THEN "free" ELSE owner[x]]
  /\ new_n' = [new_n EXCEPT ![t] = NULL]
  /\ Move(t, "idle")
  /\ UNCHANGED <<list, key, locked, cursor, unlocked, stopped>>

-----------------------------------------------------------------------------
\* The operations that do not lock, and the two that do, called alone.

Alone == unlocked /\ ~stopped
ApiVars == <<locked, step, new_n, cursor, unlocked>>

\* list_insert_head(), list_insert_tail(), list_insert() of a new node.
ApiInsert(x, k) ==
  /\ Alone
  /\ owner[x] = "free"
  /\ \/ list' = LinkHead(list, x)
     \/ list' = LinkTail(list, x)
     \/ LET larger == {i \in 1..list.size : \A m \in i..list.size : k < key[Chain(list)[m]]}
            m == list.size - Cardinality(larger)
        IN  list' = LinkAfter(list, IF m = 0 THEN NULL ELSE Chain(list)[m], x)
  /\ owner' = [owner EXCEPT ![x] = "queued"]
  /\ key' = [key EXCEPT ![x] = k]
  /\ UNCHANGED <<ApiVars, stopped>>

\* list_extract() of a key that is there: the node is freed.  Of a list of one
\* node it makes head NULL, then writes through it.
ApiExtract(k) ==
  /\ Alone
  /\ Matches(k) # {}
  /\ LET x == FirstMatch(k) IN
       IF list.head = x /\ list.next[x] = NULL
       THEN /\ stopped' = TRUE
            /\ UNCHANGED <<list, owner>>
       ELSE /\ list' = Unlink(list, x)
            /\ owner' = [owner EXCEPT ![x] = "free"]
            /\ UNCHANGED stopped
  /\ UNCHANGED <<key, ApiVars>>

\* list_extract_by_content() and list_delete_by_content() of a queued node.
ApiExtractByContent(x) ==
  /\ Alone
  /\ owner[x] = "queued"
  /\ list' = Unlink(list, x)
  /\ owner' = [owner EXCEPT ![x] = "free"]
  /\ UNCHANGED <<key, ApiVars, stopped>>

\* list_pop(), and the caller's free.
ApiPop ==
  /\ Alone
  /\ list.size > 0
  /\ list' = PopHead(list)
  /\ owner' = [owner EXCEPT ![list.head] = "free"]
  /\ UNCHANGED <<key, ApiVars, stopped>>

\* list_trunc_before(): frees the first nodes, up to one whose key is not
\* below k.  tail is left as it is.
ApiTruncBefore(k) ==
  /\ Alone
  /\ list.size > 0
  /\ LET c == Chain(list)
         kept == {i \in 1..list.size : \E m \in 1..i : key[c[m]] >= k}
         first == IF kept = {} THEN NULL ELSE c[list.size - Cardinality(kept) + 1]
     IN  /\ list' = [list EXCEPT !.head = first, !.size = Cardinality(kept),
                                 !.prev = IF first = NULL THEN @ ELSE [@ EXCEPT ![first] = NULL]]
         /\ owner' = [x \in Items |->
                        IF \E i \in 1..list.size : c[i] = x /\ i \notin kept
                        THEN "free" ELSE owner[x]]
  /\ UNCHANGED <<key, ApiVars, stopped>>

\* list_trunc_after() of a list that is not empty: abort().
ApiTruncAfter ==
  /\ Alone
  /\ list.size > 0
  /\ stopped' = TRUE
  /\ UNCHANGED <<list, key, owner, ApiVars>>

Stopped == stopped /\ UNCHANGED lvars

ListNext ==
  \/ \E t \in ListThreads :
       \/ \E x \in Items, k \in Keys : InsertCall(t, x, k)
       \/ LockInsert(t) \/ Walk(t) \/ Link(t)
       \/ PopCall(t) \/ LockPop(t) \/ PopLink(t) \/ CallReturn(t)
  \/ \E x \in Items, k \in Keys : ApiInsert(x, k)
  \/ \E k \in Keys : ApiExtract(k) \/ ApiTruncBefore(k)
  \/ \E x \in Items : ApiExtractByContent(x)
  \/ ApiPop \/ ApiTruncAfter \/ Stopped

ListSpec == ListInit /\ [][ListNext]_lvars

-----------------------------------------------------------------------------
ListTypeOK ==
  /\ list.size \in Nat
  /\ {list.head, list.tail} \subseteq Items \cup {NULL}
  /\ owner \in [Items -> {"free", "held", "queued", "popped"}]
  /\ locked \in ListThreads \cup {NULL}
  /\ \A t \in ListThreads :
       /\ step[t] \in {"idle", "insert", "walk", "pop", "popping", "done"}
       /\ step[t] \in {"walk", "popping"} => locked = t

\* Read from head, size nodes, the list holds exactly the queued nodes; read
\* from tail it holds the same ones backwards.  (The tail of an empty list
\* dangles: no operation may follow it.)
ListShape ==
  LET c == Chain(list)
      len == list.size
  IN  /\ {c[i] : i \in 1..len} = {x \in Items : owner[x] = "queued"}
      /\ \A i, m \in 1..len : c[i] = c[m] => i = m
      /\ len = 0 => list.head = NULL
      /\ len > 0 =>
           /\ list.tail = c[len] /\ list.next[c[len]] = NULL
           /\ list.prev[c[1]] = NULL
           /\ \A i \in 2..len : list.prev[c[i]] = c[i - 1]

\* Where process() uses the list, a step keeps the order of the nodes that
\* stay, and a new node comes behind every key that is not larger: equal
\* timestamps leave first in, first out.
ListStable ==
  [][~unlocked =>
       /\ \A i, m \in 1..list.size, a, b \in 1..list'.size :
            /\ i < m
            /\ Chain(list)[i] = Chain(list')[a]
            /\ Chain(list)[m] = Chain(list')[b]
            => a < b
       /\ \A a, b \in 1..list'.size :
            a < b /\ owner[Chain(list')[a]] = "held" => key'[Chain(list')[b]] > key'[Chain(list')[a]]
       /\ \A a, b \in 1..list'.size :
            a < b => key'[Chain(list')[a]] <= key'[Chain(list')[b]]
    ]_lvars

\* Where process() uses it, the list is a pool: list_pop() returns a smallest
\* timestamp, or NULL from an empty list.
ListPool == INSTANCE AtomicPool WITH
  Threads <- ListThreads,
  Timestamps <- Keys,
  Nothing <- Empty,
  pool <- [k \in Keys |-> IF unlocked THEN 0
                          ELSE Cardinality({x \in Items : owner[x] = "queued" /\ key[x] = k})],
  op <- [t \in ListThreads |->
           CASE step[t] \in {"insert", "walk"} -> "put"
             [] step[t] \in {"pop", "popping"} -> "get"
             [] OTHER -> step[t]],
  value <- [t \in ListThreads |-> IF new_n[t] = NULL THEN Empty ELSE key[new_n[t]]]

ListImplementsPool == ListPool!Spec
=============================================================================
