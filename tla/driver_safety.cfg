SPECIFICATION Spec
CONSTANTS
  WordBits = 3
  MarkRange = 65536
  Threads = {0, 1}
  Timestamps = {0, 10, 20}
  INFTY = 30
  BucketWidth = 9
  InitSize = 2
  TotalOps = 3
  PrunePeriod = 2
  ThresholdNum = 9
  ThresholdDen = 10
  LogShare = 1
  Collaborative = TRUE
  SafetyCheck = TRUE
  EmptyQueue = TRUE
INVARIANTS DriverTypeOK NeverStopped PruneAloneInLoop CheckZero OpsBounded SomeoneMoves DriverIndInv BucketsApart
PROPERTIES GVTAdvances
