SPECIFICATION NBFairSpec
CONSTANTS
  Threads = {1, 2}
  Nodes = {n1, n2}
  Timestamps = {0, 1}
  BucketWidth = 1
  InitSize = 1
  MarkRange = 1000
  MaxMarks = 12
  NoNode = NoNode
  Producers = {1, 2}
  Consumers = {1, 2}
  Collaborative = TRUE
  Doublings = 1
PROPERTIES NBCallsReturn
