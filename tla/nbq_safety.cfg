SPECIFICATION NBSpec
CONSTANTS
  Threads = {1, 2}
  Nodes = {n1, n2}
  Timestamps = {0, 2}
  BucketWidth = 1
  InitSize = 1
  MarkRange = 1000
  MaxMarks = 12
  NoNode = NoNode
  Producers = {1}
  Consumers = {1, 2}
  Collaborative = TRUE
  Doublings = 2
SYMMETRY NodeSymmetry
INVARIANTS NBTypeOK NodesConserved SegmentsExist OnlyLateStranded NBIndInv
PROPERTIES ClosedListsShrink
