----------------------------- MODULE HashIndex -----------------------------
(***************************************************************************)
(* The two-level hashtable of the non-blocking queue: which bucket a       *)
(* timestamp falls in, and where that bucket is.  Segment 0 of hashtable[] *)
(* holds the first init_size buckets, segment k the k-th doubling.         *)
(***************************************************************************)
EXTENDS Integers

CONSTANT WordBits   \* bits of an unsigned int

ASSUME WordAssumption == WordBits \in Nat \ {0}

\* The position of the highest bit of value; 0 for 0, where bsrl leaves the
\* register undefined and the code masks it.
ibsr_x86(value) ==
  IF value = 0 THEN 0
  ELSE CHOOSE b \in 0..(WordBits - 1) : 2^b <= value /\ value < 2^(b + 1)

\* firstIndex(index, init_size): the segment of a linear index.
firstIndex(index, init_size) ==
  IF index >= init_size THEN ibsr_x86(index) - ibsr_x86(init_size) + 1 ELSE 0

\* access_hashtable, keeping the top bit of the index inside the segment.
access_hashtable_uncut(index, init_size) ==
  <<firstIndex(index, init_size), index>>

\* access_hashtable(hashtable, index, init_size, item_size): segment and
\* position in the segment of a linear index.
access_hashtable(index, init_size) ==
  IF index >= init_size
  THEN <<firstIndex(index, init_size), index - 2^ibsr_x86(index)>>
  ELSE <<0, index>>

\* hash(timestamp, bucket_width): the quotient, cut to an unsigned int.
hash(timestamp, bucket_width) == (timestamp \div bucket_width) % 2^WordBits

\* The segments of a table of size buckets, with their lengths: queue_init()
\* allocates the first, expand_array(old_size) one of old_size buckets.
Segments(size, init_size) ==
  {<<0, init_size>>} \cup
    {<<firstIndex(old, init_size), old>> :
       old \in {init_size * 2^k : k \in 0..WordBits} \cap 0..(size - 1)}

\* The first size linear indices have buckets of their own, inside allocated
\* segments: what "the bucket corresponding to the given linear index" needs.
LayoutExact(size, init_size) ==
  LET cell(i) == access_hashtable(i, init_size)
  IN  /\ \A i \in 0..(size - 1) : \E seg \in Segments(size, init_size) :
           cell(i)[1] = seg[1] /\ cell(i)[2] < seg[2]
      /\ \A i, j \in 0..(size - 1) : cell(i) = cell(j) => i = j
============================================================================
