SPECIFICATION NBSpec
CONSTANTS
  Threads = {0, 1}
  Nodes = {n1, n2}
  Timestamps = {0, 1, 2}
  BucketWidth = 1
  InitSize = 1
  MarkRange = 1000
  MaxMarks = 12
  NoNode = NoNode
  Producers = {0, 1}
  Consumers = {0, 1}
  Collaborative = FALSE
  Doublings = 2
INVARIANTS OnlyLateStranded
