---------------------------- MODULE PriorityPool ----------------------------
(***************************************************************************)
(* What enqueue() and dequeue() of the non-blocking queue promise to their *)
(* callers, with no table, cursor or list in sight.                        *)
(*                                                                         *)
(* The promise is weaker than a linearizable priority queue, because       *)
(* dequeue() settles on a bucket before it looks for an event in it.  An   *)
(* event is SETTLED once the enqueue() that brought it has returned; a     *)
(* dequeue is answerable for the events that were settled and still queued *)
(* when it was called (before[t]): it may not return an event larger than  *)
(* one of those still queued, nor report an empty queue while one is.      *)
(***************************************************************************)
EXTENDS Integers

CONSTANTS Threads,      \* the threads that call the queue
          Nodes,        \* the nodes that can be allocated, one per enqueue
          Timestamps,   \* the timestamps an event can have
          NoNode        \* "no node": the answer of a dequeue on an empty queue

VARIABLES place,        \* where each node is
          timestamp,    \* the key of each node
          op,           \* what each thread is doing
          node,         \* the node an enqueue brings or a dequeue returns
          settled,      \* the nodes whose enqueue has returned
          before        \* the events a running dequeue is answerable for

vars == <<place, timestamp, op, node, settled, before>>

Queued(n) == place[n] = "queued"

TypeOK ==
  /\ place \in [Nodes -> {"unused", "held", "queued", "taken"}]
  /\ timestamp \in [Nodes -> Nat]
  /\ op \in [Threads -> {"idle", "enqueue", "inserted", "dequeue", "answered"}]
  /\ node \in [Threads -> Nodes \cup {NoNode}]
  /\ settled \subseteq Nodes
  /\ before \in [Threads -> SUBSET Nodes]

Init ==
  /\ place = [n \in Nodes |-> "unused"]
  /\ timestamp = [n \in Nodes |-> 0]
  /\ op = [t \in Threads |-> "idle"]
  /\ node = [t \in Threads |-> NoNode]
  /\ settled = {}
  /\ before = [t \in Threads |-> {}]

EnqueueCall(t, n, ts) ==
  /\ op[t] = "idle"
  /\ place[n] = "unused"
  /\ op' = [op EXCEPT ![t] = "enqueue"]
  /\ node' = [node EXCEPT ![t] = n]
  /\ place' = [place EXCEPT ![n] = "held"]
  /\ timestamp' = [timestamp EXCEPT ![n] = ts]
  /\ UNCHANGED <<settled, before>>

\* The event becomes visible to dequeues.
Insert(t) ==
  /\ op[t] = "enqueue"
  /\ op' = [op EXCEPT ![t] = "inserted"]
  /\ place' = [place EXCEPT ![node[t]] = "queued"]
  /\ UNCHANGED <<timestamp, node, settled, before>>

EnqueueReturn(t) ==
  /\ op[t] = "inserted"
  /\ op' = [op EXCEPT ![t] = "idle"]
  /\ settled' = settled \cup {node[t]}
  /\ node' = [node EXCEPT ![t] = NoNode]
  /\ UNCHANGED <<place, timestamp, before>>

DequeueCall(t) ==
  /\ op[t] = "idle"
  /\ op' = [op EXCEPT ![t] = "dequeue"]
  /\ before' = [before EXCEPT ![t] = {n \in settled : Queued(n)}]
  /\ UNCHANGED <<place, timestamp, node, settled>>

Take(t, n) ==
  /\ op[t] = "dequeue"
  /\ Queued(n)
  /\ \A y \in before[t] : Queued(y) => timestamp[n] <= timestamp[y]
  /\ op' = [op EXCEPT ![t] = "answered"]
  /\ node' = [node EXCEPT ![t] = n]
  /\ place' = [place EXCEPT ![n] = "taken"]
  /\ UNCHANGED <<timestamp, settled, before>>

Empty(t) ==
  /\ op[t] = "dequeue"
  /\ \A y \in before[t] : ~Queued(y)
  /\ op' = [op EXCEPT ![t] = "answered"]
  /\ UNCHANGED <<place, timestamp, node, settled, before>>

DequeueReturn(t) ==
  /\ op[t] = "answered"
  /\ op' = [op EXCEPT ![t] = "idle"]
  /\ node' = [node EXCEPT ![t] = NoNode]
  /\ before' = [before EXCEPT ![t] = {}]
  /\ UNCHANGED <<place, timestamp, settled>>

Next ==
  \E t \in Threads :
    \/ \E n \in Nodes, ts \in Timestamps : EnqueueCall(t, n, ts)
    \/ Insert(t)
    \/ EnqueueReturn(t)
    \/ DequeueCall(t)
    \/ \E n \in Nodes : Take(t, n)
    \/ Empty(t)
    \/ DequeueReturn(t)

Spec == Init /\ [][Next]_vars
=============================================================================
