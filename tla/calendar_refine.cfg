SPECIFICATION FairSpec
CONSTANTS
  Threads = {0, 1}
  Nodes = {n1, n2}
  Timestamps = {0, 1, 2}
  BucketWidth = 2
  InitSize = 2
  MarkRange = 1000
  MaxMarks = 12
  NoNode = NoNode
INVARIANTS TypeOK IndInv CursorCovers TakenInOrder HonestEmpty
PROPERTIES ImplementsPool CallsReturn
