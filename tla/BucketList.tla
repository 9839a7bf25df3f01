----------------------------- MODULE BucketList -----------------------------
(***************************************************************************)
(* One bucket of the non-blocking queue: a sorted linked list with logical *)
(* deletion.  insert() finds its place with search(), dequeue() takes the  *)
(* first unmarked node; both unlink the marked nodes they meet and keep    *)
(* them in a thread-private list for prune().                              *)
(*                                                                         *)
(* Every action is one access to a next pointer and what the thread then   *)
(* computes from it.  Modules Calendar and NBQueue use the bucket as if    *)
(* its operations were atomic; the invariants here are what that rests on. *)
(***************************************************************************)
EXTENDS Integers, Sequences, FiniteSets

CONSTANTS Threads,      \* the threads that use the bucket
          Nodes,        \* the nodes that can be allocated, one per insert()
          Timestamps,   \* the keys that fall in this bucket
          HeadNode,         \* the head node, in the hashtable
          TailNode          \* the tail node, shared by all lists

ASSUME BucketListAssumption ==
  /\ Timestamps \subseteq Nat
  /\ IsFiniteSet(Nodes)
  /\ HeadNode \notin Nodes
  /\ TailNode \notin Nodes \cup {HeadNode}

VARIABLES
  next,        \* node->next, a reference with its mark
  timestamp,   \* node->timestamp
  payload,     \* node->payload: the event, or the rest of a to-free list
  allocated,   \* the nodes that node_malloc() has returned
  pc,          \* where each thread is in its operation
  node,        \* new_node of insert(); answer of dequeue(), TailNode if none
  left,        \* left of search(), min of dequeue()
  left_next,   \* left_next of search(), min_next of dequeue()
  right,       \* tmp and right of search(), right_node of dequeue()
  right_next,  \* tmp_next of search(), right_node_next of dequeue()
  count,       \* counter of search(), to_remove_counter of dequeue()
  to_free,     \* to_free_pointers: the chains of nodes a thread unlinked
  linked,      \* history: the nodes in the order they were linked
  legal        \* history: answers a scan may give, by what it overlapped

list == <<next, timestamp, payload, allocated>>
regs == <<left, left_next, right, right_next, count>>
vars == <<list, pc, node, regs, to_free, linked, legal>>

-----------------------------------------------------------------------------
Ref(n) == [to |-> n, marked |-> FALSE]

Marked(ref) == [ref EXCEPT !.marked = TRUE]

Refs == [to : Nodes \cup {TailNode}, marked : BOOLEAN]

Goto(t, label) == pc' = [pc EXCEPT ![t] = label]

Set(f, t, v) == f' = [f EXCEPT ![t] = v]

\* The nodes met from the head on: Walk[i] is the i-th, the tail for ever after.
Walk ==
  LET w[i \in 0 .. Cardinality(Nodes) + 1] ==
        IF i = 0 THEN HeadNode ELSE IF w[i - 1] = TailNode THEN TailNode ELSE next[w[i - 1]].to
  IN w

Reachable == LET w == Walk IN {w[i] : i \in DOMAIN w} \ {HeadNode, TailNode}

\* What a scan done in one step would find: the first unmarked node, or the tail.
FirstLive ==
  LET f[n \in Nodes \cup {TailNode}] ==
        IF n # TailNode /\ next[n].marked THEN f[next[n].to] ELSE n
  IN f[next[HeadNode].to]

\* The nodes of the chain that starts at n and has k nodes.
ChainNodes(n, k) ==
  LET c[i \in 1 .. k] == IF i = 1 THEN n ELSE next[c[i - 1]].to IN {c[i] : i \in 1 .. k}

\* The history of a scan: what it would have found had it been one step, at
\* each moment from its call until it has picked its candidate.
Scanning == {"deq_head", "deq_walk", "deq_unlink"}

Record ==
  legal' = [t \in Threads |->
    CASE pc'[t] \in Scanning -> legal[t] \cup {FirstLive'}
      [] pc'[t] \in {"mark", "answered"} -> legal[t]
      [] OTHER -> {}]

-----------------------------------------------------------------------------
Init ==
  /\ next = [n \in Nodes \cup {HeadNode, TailNode} |-> Ref(TailNode)]
  /\ timestamp = [n \in Nodes |-> 0]
  /\ payload = [n \in Nodes |-> "event"]
  /\ allocated = {}
  /\ pc = [t \in Threads |-> "idle"]
  /\ node = [t \in Threads |-> TailNode]
  /\ left = [t \in Threads |-> HeadNode]
  /\ left_next = [t \in Threads |-> TailNode]
  /\ right = [t \in Threads |-> TailNode]
  /\ right_next = [t \in Threads |-> Ref(TailNode)]
  /\ count = [t \in Threads |-> 0]
  /\ to_free = [t \in Threads |-> {}]
  /\ linked = <<>>
  /\ legal = [t \in Threads |-> {}]

\* Locals that an operation no longer reads take their initial value.
ClearRegs(t) ==
  /\ Set(left, t, HeadNode)
  /\ Set(left_next, t, TailNode)
  /\ Set(right, t, TailNode)
  /\ Set(right_next, t, Ref(TailNode))
  /\ Set(count, t, 0)

\* connect_to_be_freed_list(queue, start, k)
ConnectToBeFreed(t, start, k) ==
  /\ Set(payload, start, "to_free")
  /\ Set(to_free, t, to_free[t] \cup {[start |-> start, count |-> k]})

\* UnlinkChain, comparing nothing.
UnlinkChainStore(t, ok, failed) ==
  /\ Set(next, left[t], Ref(right[t]))
  /\ ConnectToBeFreed(t, left_next[t], count[t])
  /\ Goto(t, ok)

\* The CAS that makes left and right adjacent; the marked nodes between them
\* are this thread's to free.
UnlinkChain(t, ok, failed) ==
  IF next[left[t]] = Ref(left_next[t])
    THEN /\ Set(next, left[t], Ref(right[t]))
         /\ ConnectToBeFreed(t, left_next[t], count[t])
         /\ Goto(t, ok)
    ELSE /\ Goto(t, failed)
         /\ UNCHANGED <<next, payload, to_free>>

-----------------------------------------------------------------------------
InsertCall(t, n, ts) ==
  /\ pc[t] = "idle"
  /\ n \notin allocated
  /\ allocated' = allocated \cup {n}
  /\ Set(timestamp, n, ts)
  /\ Set(node, t, n)
  /\ Goto(t, "search")
  /\ UNCHANGED <<next, payload, regs, to_free, linked>>
  /\ Record

SearchHead(t) ==
  /\ pc[t] = "search"
  /\ Set(right, t, HeadNode)
  /\ Set(right_next, t, next[HeadNode])
  /\ Set(count, t, 0)
  /\ Goto(t, "walk")
  /\ UNCHANGED <<list, node, left, left_next, to_free, linked>>
  /\ Record

\* GoesOn, stopping before the nodes of the same timestamp.
GoesOnStrict(t, n) == n # TailNode /\ (next[n].marked \/ timestamp[n] < timestamp[node[t]])

\* The loop of search() goes on past marked nodes and nodes up to timestamp.
GoesOn(t, n) == n # TailNode /\ (next[n].marked \/ timestamp[n] <= timestamp[node[t]])

\* One round: the node in tmp becomes left unless it is marked, and the next
\* node is read.
SearchWalk(t) ==
  /\ pc[t] = "walk"
  /\ LET n == right_next[t].to IN
       /\ IF right_next[t].marked
            THEN /\ Set(count, t, count[t] + 1)
                 /\ UNCHANGED <<left, left_next>>
            ELSE /\ Set(count, t, 0)
                 /\ Set(left, t, right[t])
                 /\ Set(left_next, t, n)
       /\ Set(right, t, n)
       /\ Set(right_next, t, next[n])
       /\ Goto(t, IF GoesOn(t, n) THEN "walk"
                  ELSE IF left_next'[t] # n THEN "unlink" ELSE "check")
  /\ UNCHANGED <<list, node, to_free, linked>>
  /\ Record

SearchUnlink(t) ==
  /\ pc[t] = "unlink"
  /\ UnlinkChain(t, "check", "search")
  /\ UNCHANGED <<timestamp, allocated, node, regs, linked>>
  /\ Record

\* search() returns if right is not marked; insert() points the new node at it.
SearchCheck(t) ==
  /\ pc[t] = "check"
  /\ IF right[t] # TailNode /\ next[right[t]].marked
       THEN Goto(t, "search") /\ UNCHANGED next
       ELSE Goto(t, "link") /\ Set(next, node[t], Ref(right[t]))
  /\ UNCHANGED <<timestamp, payload, allocated, node, regs, to_free, linked>>
  /\ Record

\* The CAS of insert(): search again if left is no more what it was.
Link(t) ==
  /\ pc[t] = "link"
  /\ IF next[left[t]] = Ref(right[t])
       THEN /\ Set(next, left[t], Ref(node[t]))
            /\ linked' = Append(linked, node[t])
            /\ Set(node, t, TailNode)
            /\ Goto(t, "idle")
       ELSE /\ Goto(t, "search")
            /\ UNCHANGED <<next, linked, node>>
  /\ ClearRegs(t)
  /\ UNCHANGED <<timestamp, payload, allocated, to_free>>
  /\ Record

-----------------------------------------------------------------------------
DequeueCall(t) ==
  /\ pc[t] = "idle"
  /\ Goto(t, "deq_head")
  /\ UNCHANGED <<list, node, regs, to_free, linked>>
  /\ Record

DeqHead(t) ==
  /\ pc[t] = "deq_head"
  /\ Set(left_next, t, next[HeadNode].to)
  /\ Set(right, t, next[HeadNode].to)
  /\ Goto(t, "deq_walk")
  /\ UNCHANGED <<list, node, left, right_next, count, to_free, linked>>
  /\ Record

\* The candidate is at hand: a node to mark, or the tail.
Chosen(t, n) == IF n = TailNode THEN "answered" ELSE "mark"

\* DeqWalk, taking the first node whether or not it is marked.
DeqWalkAnyMark(t) ==
  /\ pc[t] = "deq_walk"
  /\ Set(right_next, t, next[right[t]])
  /\ Goto(t, Chosen(t, right[t]))
  /\ UNCHANGED <<list, node, left, left_next, right, count, to_free, linked>>
  /\ Record

\* DeqWalk, not counting the nodes it passes.
DeqWalkUncounted(t) ==
  /\ pc[t] = "deq_walk"
  /\ LET ref == next[right[t]] IN
       IF ref.marked
         THEN /\ Set(right, t, ref.to)
              /\ UNCHANGED <<pc, right_next>>
         ELSE /\ Set(right_next, t, ref)
              /\ Goto(t, IF left_next[t] # right[t] THEN "deq_unlink" ELSE Chosen(t, right[t]))
              /\ UNCHANGED right
  /\ UNCHANGED <<list, node, left, left_next, count, to_free, linked>>
  /\ Record

DeqWalk(t) ==
  /\ pc[t] = "deq_walk"
  /\ LET ref == next[right[t]] IN
       IF ref.marked
         THEN /\ Set(count, t, count[t] + 1)
              /\ Set(right, t, ref.to)
              /\ UNCHANGED <<pc, right_next>>
         ELSE /\ Set(right_next, t, ref)
              /\ Goto(t, IF left_next[t] # right[t] THEN "deq_unlink" ELSE Chosen(t, right[t]))
              /\ UNCHANGED <<right, count>>
  /\ UNCHANGED <<list, node, left, left_next, to_free, linked>>
  /\ Record

\* If the CAS fails dequeue() starts over, maybe in another bucket.
DeqUnlink(t) ==
  /\ pc[t] = "deq_unlink"
  /\ UnlinkChain(t, Chosen(t, right[t]), "idle")
  /\ IF pc'[t] = "idle" THEN ClearRegs(t) ELSE UNCHANGED regs
  /\ UNCHANGED <<timestamp, allocated, node, linked>>
  /\ Record

\* DeqMark, comparing the mark of the candidate but not its successor.
DeqMarkLoose(t) ==
  /\ pc[t] = "mark"
  /\ IF ~next[right[t]].marked
       THEN /\ Set(next, right[t], Marked(right_next[t]))
            /\ Set(node, t, right[t])
            /\ Goto(t, "answered")
            /\ UNCHANGED regs
       ELSE /\ Goto(t, "idle")
            /\ ClearRegs(t)
            /\ UNCHANGED <<next, node>>
  /\ UNCHANGED <<timestamp, payload, allocated, to_free, linked>>
  /\ Record

\* DeqMark, comparing the successor but not the mark of the candidate.
DeqMarkTwice(t) ==
  /\ pc[t] = "mark"
  /\ IF next[right[t]].to = right_next[t].to
       THEN /\ Set(next, right[t], Marked(right_next[t]))
            /\ Set(node, t, right[t])
            /\ Goto(t, "answered")
            /\ UNCHANGED regs
       ELSE /\ Goto(t, "idle")
            /\ ClearRegs(t)
            /\ UNCHANGED <<next, node>>
  /\ UNCHANGED <<timestamp, payload, allocated, to_free, linked>>
  /\ Record

DeqMark(t) ==
  /\ pc[t] = "mark"
  /\ IF next[right[t]] = right_next[t]
       THEN /\ Set(next, right[t], Marked(right_next[t]))
            /\ Set(node, t, right[t])
            /\ Goto(t, "answered")
            /\ UNCHANGED regs
       ELSE /\ Goto(t, "idle")
            /\ ClearRegs(t)
            /\ UNCHANGED <<next, node>>
  /\ UNCHANGED <<timestamp, payload, allocated, to_free, linked>>
  /\ Record

DequeueReturn(t) ==
  /\ pc[t] = "answered"
  /\ Set(node, t, TailNode)
  /\ Goto(t, "idle")
  /\ ClearRegs(t)
  /\ UNCHANGED <<list, to_free, linked>>
  /\ Record



-----------------------------------------------------------------------------
Insert(t) ==
  \/ \E n \in Nodes, ts \in Timestamps : InsertCall(t, n, ts)
  \/ SearchHead(t)
  \/ SearchWalk(t)
  \/ SearchUnlink(t)
  \/ SearchCheck(t)
  \/ Link(t)

Dequeue(t) ==
  \/ DequeueCall(t)
  \/ DeqHead(t)
  \/ DeqWalk(t)
  \/ DeqUnlink(t)
  \/ DeqMark(t)
  \/ DequeueReturn(t)

Next == \E t \in Threads : Insert(t) \/ Dequeue(t)

Spec == Init /\ [][Next]_vars

-----------------------------------------------------------------------------
Labels == {"idle", "search", "walk", "unlink", "check", "link", "deq_head", "deq_walk",
           "deq_unlink", "mark", "answered"}

\* Every variable keeps its type.
TypeOK ==
  /\ next \in [Nodes \cup {HeadNode, TailNode} -> Refs]
  /\ timestamp \in [Nodes -> Nat]
  /\ payload \in [Nodes -> {"event", "to_free"}]
  /\ allocated \subseteq Nodes
  /\ pc \in [Threads -> Labels]
  /\ node \in [Threads -> Nodes \cup {TailNode}]
  /\ left \in [Threads -> Nodes \cup {HeadNode}]
  /\ left_next \in [Threads -> Nodes \cup {TailNode}]
  /\ right \in [Threads -> Nodes \cup {HeadNode, TailNode}]
  /\ right_next \in [Threads -> Refs]
  /\ count \in [Threads -> 0 .. Cardinality(Nodes)]
  /\ to_free \in [Threads -> SUBSET [start : Nodes, count : 1 .. Cardinality(Nodes)]]
  /\ linked \in Seq(Nodes)
  /\ legal \in [Threads -> SUBSET (Nodes \cup {TailNode})]

\* No event is lost by two operations that change neighbouring nodes: a node
\* that was linked and never marked can be reached from the head.
LiveReachable ==
  LET kept == Reachable IN
  \A i \in DOMAIN linked : next[linked[i]].marked \/ linked[i] \in kept

\* The list stays sorted, and nodes of one timestamp stay in the order in
\* which they were linked (the FIFO policy the header promises).
SortedFifo ==
  LET w == Walk IN
  \A i, j \in DOMAIN linked : \A k, l \in DOMAIN w :
    (w[k] = linked[i] /\ w[l] = linked[j] /\ k < l) =>
      \/ timestamp[linked[i]] < timestamp[linked[j]]
      \/ timestamp[linked[i]] = timestamp[linked[j]] /\ i < j

\* A scan is as good as an atomic one: its candidate was the first unmarked
\* node, or the bucket was empty, at some moment of the scan.
ScanLegit == \A t \in Threads : pc[t] \in {"mark", "answered"} => right[t] \in legal[t]

\* A node is taken by one dequeue() only.
TakenOnce == \A t, u \in Threads :
  pc[t] = "answered" /\ pc[u] = "answered" /\ node[t] = node[u] /\ node[t] # TailNode => t = u

Chains == UNION {{<<t, c>> : c \in to_free[t]} : t \in Threads}

\* What prune() assumes of the to-free lists when it frees them: a chain's
\* count names marked nodes that nobody reaches from the head, no node is in
\* two chains, and every node that was unlinked is in one.
ChainsExact ==
  LET In(ch) == ChainNodes(ch[2].start, ch[2].count)
      gone == {n \in allocated : \E i \in DOMAIN linked : linked[i] = n} \ Reachable
  IN /\ UNION {In(ch) : ch \in Chains} = gone
     /\ \A n \in gone : next[n].marked
     /\ \A ch, dh \in Chains : ch # dh => In(ch) \cap In(dh) = {}

\* A dequeue() returns a node whose payload the caller can still follow to
\* the event: the node that held it has not been recycled as a list link.
DequeuedValueKept ==
  \A t \in Threads : pc[t] = "answered" /\ node[t] # TailNode => payload[node[t]] = "event"
=============================================================================
