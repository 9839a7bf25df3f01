----------------------------- MODULE AtomicPool -----------------------------
(***************************************************************************)
(* What the two locked baselines, the sorted list and the calendar queue,  *)
(* promise to process(): every call takes effect at one moment between its *)
(* start and its return, a put adds one event, and a get removes a         *)
(* smallest one or finds the pool empty.                                   *)
(***************************************************************************)
EXTENDS Integers

CONSTANTS Threads,      \* the threads that call the pool
          Timestamps,   \* the timestamps an event can have
          Nothing       \* what a get on an empty pool answers

VARIABLES pool,         \* how many events of each timestamp are in the pool
          op,           \* what each thread is doing
          value         \* the timestamp it brings or takes away

vars == <<pool, op, value>>

Init ==
  /\ pool = [ts \in Timestamps |-> 0]
  /\ op = [t \in Threads |-> "idle"]
  /\ value = [t \in Threads |-> Nothing]

Smallest(ts) == pool[ts] > 0 /\ \A other \in Timestamps : pool[other] > 0 => ts <= other

Become(t, what, v) ==
  /\ op' = [op EXCEPT ![t] = what]
  /\ value' = [value EXCEPT ![t] = v]

CallPut(t, ts) == op[t] = "idle" /\ Become(t, "put", ts) /\ UNCHANGED pool

Put(t) ==
  /\ op[t] = "put"
  /\ pool' = [pool EXCEPT ![value[t]] = @ + 1]
  /\ Become(t, "done", Nothing)

CallGet(t) == op[t] = "idle" /\ Become(t, "get", Nothing) /\ UNCHANGED pool

Get(t) ==
  /\ op[t] = "get"
  /\ \/ \E ts \in Timestamps :
          /\ Smallest(ts)
          /\ pool' = [pool EXCEPT ![ts] = @ - 1]
          /\ Become(t, "done", ts)
     \/ /\ \A ts \in Timestamps : pool[ts] = 0
        /\ UNCHANGED pool
        /\ Become(t, "done", Nothing)

Return(t) == op[t] = "done" /\ Become(t, "idle", Nothing) /\ UNCHANGED pool

Next ==
  \E t \in Threads :
    \/ \E ts \in Timestamps : CallPut(t, ts)
    \/ Put(t) \/ CallGet(t) \/ Get(t) \/ Return(t)

Spec == Init /\ [][Next]_vars
=============================================================================
