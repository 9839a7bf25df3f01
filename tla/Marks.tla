------------------------------- MODULE Marks --------------------------------
(***************************************************************************)
(* generate_mark(): the number a thread stores in the low half of          *)
(* queue->current so that two writes of the same bucket index differ.  It  *)
(* pairs the thread's id with a per-thread counter (Cantor's pairing       *)
(* function) and keeps the low 32 bits.                                    *)
(***************************************************************************)
EXTENDS Integers

CONSTANT MarkRange      \* 2^32 in the code: the marks kept by the final mask

\* The mark queue_init() stores, which no call of generate_mark() produced.
InitMark == 0

Triangle(w) == (w * (w + 1)) \div 2

Cantor(k1, k2) == Triangle(k1 + k2) + k2

\* The k-th mark (from 0) of the thread whose lid is t.
GenerateMark(t, k) == Cantor(t, k) % MarkRange
=============================================================================
