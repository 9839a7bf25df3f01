------------------------------ MODULE CalQueue ------------------------------
(***************************************************************************)
(* The calendar queue baseline: one year of buckets of a width that is     *)
(* sampled from the events whenever the number of buckets changes, all     *)
(* behind one spinlock.  Events are anonymous: a bucket is the sequence of *)
(* its timestamps.  The width is the fraction num/den; num = 0 stands for  *)
(* the widths 0 and NaN, under which every conversion to an integer gives  *)
(* the smallest one, every bucket index is 0 and no event is below         *)
(* buckettop.                                                              *)
(***************************************************************************)
EXTENDS Integers, Sequences, SequencesExt, FiniteSets, Functions

CONSTANTS CalThreads,     \* the threads that call calqueue_put and calqueue_get
          CalTimestamps,  \* the timestamps they put
          MAXNBUCKETS,    \* the largest number of buckets
          MaxEvents,      \* bound: events in the queue
          Nothing         \* the NULL answer of calqueue_get

ASSUME CalAssumption ==
  /\ CalTimestamps \subseteq Nat
  /\ MAXNBUCKETS \in Nat /\ \E k \in 1..MAXNBUCKETS : MAXNBUCKETS = 2^k
  /\ MaxEvents \in Nat
  /\ Nothing \notin Nat

VARIABLES cal,     \* calendar, nbuckets, width, qsize, lastprio, lastbucket, and
                   \* buckettop, as a number of half widths
          call,    \* what each thread is doing
          event    \* the timestamp it brings or takes away

calvars == <<cal, call, event>>

-----------------------------------------------------------------------------
\* The functions of the calendar, from calendar to calendar.

bot_threshold(c) == (c.nbuckets \div 2) - 2
top_threshold(c) == 2 * c.nbuckets

\* Numbers of the virtual buckets: the one enq() rounds to, and the one
\* localinit() truncates to.
Rounded(c, ts) ==
  IF c.num = 0 THEN 0 ELSE (2 * ts * c.den + c.num) \div (2 * c.num)
Truncated(c, ts) == IF c.num = 0 THEN 0 ELSE (ts * c.den) \div c.num

\* buckettop for virtual bucket n.
TopOf(c, n) == IF c.num = 0 THEN 0 ELSE 2 * n + 3

\* localinit that stores the virtual bucket as the last one.
localinit_virtual(nbuckets, num, den, startprio) ==
  LET empty == [calendar |-> [i \in 0..(nbuckets - 1) |-> <<>>], nbuckets |-> nbuckets,
                num |-> num, den |-> den, qsize |-> 0,
                lastprio |-> startprio, lastbucket |-> 0, buckettop |-> 0]
      n == Truncated(empty, startprio)
  IN  [empty EXCEPT !.lastbucket = n, !.buckettop = TopOf(empty, n)]

\* localinit(): an empty calendar whose dequeues begin at startprio.
localinit(nbuckets, num, den, startprio) ==
  LET empty == [calendar |-> [i \in 0..(nbuckets - 1) |-> <<>>], nbuckets |-> nbuckets,
                num |-> num, den |-> den, qsize |-> 0,
                lastprio |-> startprio, lastbucket |-> 0, buckettop |-> 0]
      n == Truncated(empty, startprio)
  IN  [empty EXCEPT !.lastbucket = n % nbuckets, !.buckettop = TopOf(empty, n)]

\* How many events of a bucket the walk of calqueue_enq() passes.
Passed(chain, ts) ==
  CHOOSE k \in 0..Len(chain) :
    (\A j \in 1..k : chain[j] <= ts) /\ (k < Len(chain) => chain[k + 1] > ts)

\* Link an event in bucket i.
LinkEvent(c, i, ts) ==
  [c EXCEPT !.calendar[i] = InsertAt(@, Passed(@, ts) + 1, ts), !.qsize = @ + 1]

\* enq, leaving the cursor where it is.
enq_behind(c, ts) == LinkEvent(c, Rounded(c, ts) % c.nbuckets, ts)

\* calqueue_enq() without the resize: behind its equals in the bucket's list;
\* an event before lastprio takes the cursor back.
enq(c, ts) ==
  LET n == Rounded(c, ts)
      linked == LinkEvent(c, n % c.nbuckets, ts)
  IN  IF ts >= c.lastprio THEN linked
      ELSE [linked EXCEPT !.lastprio = ts, !.lastbucket = n % c.nbuckets, !.buckettop = TopOf(c, n)]

\* enq for each event of a sequence.
Pour(c, s) ==
  LET poured[k \in 0..Len(s)] == IF k = 0 THEN c ELSE enq(poured[k - 1], s[k])
  IN  poured[Len(s)]

\* The head of bucket i is below top.
Due(c, i, top) ==
  c.calendar[i] # <<>> /\ 2 * c.den * Head(c.calendar[i]) < top * c.num

\* buckettop after k more buckets.
TopAfter(c, k) == IF c.num = 0 THEN c.buckettop ELSE c.buckettop + 2 * k

\* Take the head of bucket i, with buckettop at top.
TakeHead(c, i, top) ==
  [c EXCEPT !.calendar[i] = Tail(@), !.qsize = @ - 1, !.buckettop = top,
            !.lastbucket = i, !.lastprio = Head(c.calendar[i])]

\* calqueue_deq() of a calendar that is not empty, without the resize: the
\* first bucket of the year from the cursor on whose head is due, else the
\* smallest head of all.  The event taken is lastprio.
deq(c) ==
  LET bucket(k) == (c.lastbucket + k) % c.nbuckets
      due == {k \in 0..(c.nbuckets - 1) : Due(c, bucket(k), TopAfter(c, k))}
      full == {i \in 0..(c.nbuckets - 1) : c.calendar[i] # <<>>}
      lowest(i) == \A other \in full :
                     \/ Head(c.calendar[i]) < Head(c.calendar[other])
                     \/ Head(c.calendar[i]) = Head(c.calendar[other]) /\ i <= other
  IN  IF due # {}
      THEN LET k == CHOOSE m \in due : \A other \in due : m <= other
           IN  TakeHead(c, bucket(k), TopAfter(c, k))
      ELSE TakeHead(c, CHOOSE i \in full : lowest(i), TopAfter(c, c.nbuckets))

\* How many events new_width() samples.
nsamples(c) ==
  LET n == IF c.qsize <= 5 THEN c.qsize ELSE 5 + c.qsize \div 10
  IN  IF n > 25 THEN 25 ELSE n

\* new_width()'s average over the gaps below twice the average gap, times 3.
SampledWidth(sample) ==
  LET n == Len(sample)
      gap(i) == sample[i + 1] - sample[i]
      kept == {i \in 1..(n - 1) : gap(i) * (n - 1) < 2 * (sample[n] - sample[1])}
  IN  IF kept = {} THEN [num |-> 0, den |-> 1]
      ELSE [num |-> 3 * FoldFunction(LAMBDA x, y : x + y, 0, [i \in kept |-> gap(i)]),
            den |-> Cardinality(kept)]

\* new_width(): dequeue a sample, put it back, restore the cursor.
new_width(c) ==
  LET n == nsamples(c)
      left[k \in 0..n] == IF k = 0 THEN c ELSE deq(left[k - 1])
      sample == [k \in 1..n |-> left[k].lastprio]
  IN  IF c.qsize < 2 THEN [width |-> [num |-> 1, den |-> 1], calendar |-> c]
      ELSE [width |-> SampledWidth(sample),
            calendar |-> [Pour(left[n], sample) EXCEPT !.lastbucket = c.lastbucket,
                            !.lastprio = c.lastprio, !.buckettop = c.buckettop]]

\* resize(): the events move to a new calendar, bucket by bucket from the
\* last.  No further resize is due while they do.
resize(c, newsize) ==
  LET sampled == new_width(c)
      old == sampled.calendar
      fresh == localinit(newsize, sampled.width.num, sampled.width.den, old.lastprio)
      copied[i \in 0..old.nbuckets] ==
        IF i = 0 THEN fresh ELSE Pour(copied[i - 1], old.calendar[old.nbuckets - i])
  IN  copied[old.nbuckets]

\* calqueue_enq() and calqueue_deq() as calqueue_put() and calqueue_get()
\* call them.
calqueue_enq(c, ts) ==
  LET d == enq(c, ts)
  IN  IF d.qsize > top_threshold(d) /\ d.nbuckets < MAXNBUCKETS
      THEN resize(d, 2 * d.nbuckets) ELSE d

calqueue_deq(c) ==
  LET d == deq(c)
  IN  IF d.qsize < bot_threshold(d) THEN resize(d, d.nbuckets \div 2) ELSE d

-----------------------------------------------------------------------------
CalInit ==
  /\ cal = localinit(2, 1, 1, 0)
  /\ call = [t \in CalThreads |-> "idle"]
  /\ event = [t \in CalThreads |-> Nothing]

CalBecome(t, what, ts) ==
  /\ call' = [call EXCEPT ![t] = what]
  /\ event' = [event EXCEPT ![t] = ts]

CalPutCall(t, ts) ==
  /\ call[t] = "idle"
  /\ cal.qsize + Cardinality({u \in CalThreads : call[u] = "put"}) < MaxEvents
  /\ CalBecome(t, "put", ts)
  /\ UNCHANGED cal

\* The body of calqueue_put(), under cal_spinlock.
CalPut(t) ==
  /\ call[t] = "put"
  /\ cal' = calqueue_enq(cal, event[t])
  /\ CalBecome(t, "done", Nothing)

CalGetCall(t) == call[t] = "idle" /\ CalBecome(t, "get", Nothing) /\ UNCHANGED cal

\* The body of calqueue_get(), under cal_spinlock.
CalGet(t) ==
  /\ call[t] = "get"
  /\ IF cal.qsize = 0
     THEN UNCHANGED cal /\ CalBecome(t, "done", Nothing)
     ELSE cal' = calqueue_deq(cal) /\ CalBecome(t, "done", deq(cal).lastprio)

CalReturn(t) == call[t] = "done" /\ CalBecome(t, "idle", Nothing) /\ UNCHANGED cal

CalNext ==
  \E t \in CalThreads :
    \/ \E ts \in CalTimestamps : CalPutCall(t, ts)
    \/ CalPut(t) \/ CalGetCall(t) \/ CalGet(t) \/ CalReturn(t)

CalSpec == CalInit /\ [][CalNext]_calvars

-----------------------------------------------------------------------------
\* The places of the queued events, bucket and position, and what is there.
Slots(c) == UNION {{i} \X DOMAIN c.calendar[i] : i \in 0..(c.nbuckets - 1)}
EventAt(c, p) == c.calendar[p[1]][p[2]]

\* How many events have a timestamp in X.
CountIn(c, X) == Cardinality({p \in Slots(c) : EventAt(c, p) \in X})

CalTypeOK ==
  /\ cal.nbuckets \in 1..MAXNBUCKETS
  /\ DOMAIN cal.calendar = 0..(cal.nbuckets - 1)
  /\ cal.lastbucket \in DOMAIN cal.calendar
  /\ {cal.num, cal.lastprio, cal.qsize, cal.buckettop} \subseteq Nat
  /\ cal.den \in Nat \ {0}
  /\ call \in [CalThreads -> {"idle", "put", "get", "done"}]
  /\ event \in [CalThreads -> CalTimestamps \cup {Nothing}]

\* Through insertions, removals, samplings and copies, an event is in the
\* bucket the current width gives it, lists are sorted, qsize is exact, nothing
\* is queued before lastprio, and the number of buckets fits the events.
CalShape ==
  /\ \A i \in DOMAIN cal.calendar :
       /\ \A k \in DOMAIN cal.calendar[i] : Rounded(cal, cal.calendar[i][k]) % cal.nbuckets = i
       /\ \A k \in 1..(Len(cal.calendar[i]) - 1) : cal.calendar[i][k] <= cal.calendar[i][k + 1]
  /\ cal.qsize = Cardinality(Slots(cal))
  /\ \A p \in Slots(cal) : EventAt(cal, p) >= cal.lastprio
  /\ cal.nbuckets < MAXNBUCKETS => cal.qsize <= top_threshold(cal)
  /\ cal.qsize >= bot_threshold(cal)

\* The calendar queue is a pool: calqueue_get() returns a smallest event,
\* whatever the width, the cursor and the resizes did.
CalPool == INSTANCE AtomicPool WITH
  Threads <- CalThreads,
  Timestamps <- CalTimestamps,
  pool <- [ts \in CalTimestamps |-> CountIn(cal, {ts})],
  op <- call,
  value <- event

CalImplementsPool == CalPool!Spec
=============================================================================
