SPECIFICATION NBSpec
CONSTANTS
  Threads = {1, 2}
  Nodes = {n1, n2}
  Timestamps = {0, 1, 2}
  BucketWidth = 1
  InitSize = 1
  MarkRange = 1000
  MaxMarks = 12
  NoNode = NoNode
  Producers = {1, 2}
  Consumers = {1, 2}
  Collaborative = FALSE
  Doublings = 2
INVARIANTS HonestEmpty
