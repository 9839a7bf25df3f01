SPECIFICATION Spec
CONSTANTS
  WordBits = 3
  MarkRange = 65536
  Threads = {0, 1}
  Timestamps = {0, 10}
  INFTY = 30
  BucketWidth = 9
  InitSize = 2
  TotalOps = 6
  PrunePeriod = 2
  ThresholdNum = 9
  ThresholdDen = 10
  LogShare = 3
  Collaborative = FALSE
  SafetyCheck = FALSE
  EmptyQueue = FALSE
INVARIANTS PruneAlone
