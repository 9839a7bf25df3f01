SPECIFICATION Spec
CONSTANTS
  Threads = {t1, t2}
  Nodes = {n1, n2, n3}
  Timestamps = {0, 1}
  HeadNode = HeadNode
  TailNode = TailNode
SYMMETRY Symmetry
INVARIANT DequeuedValueKept
