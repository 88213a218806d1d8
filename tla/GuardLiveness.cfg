SPECIFICATION FairSpec
CONSTANTS
  f1 = f1
  f2 = f2
  f3 = f3
  Files = {f1, f2, f3}
  DeletionThreshold = 1
  FloorNum = 1
  FloorDen = 4
  Faults = {"staleScan", "incompleteScan", "transferFails", "stop"}
  Uses = {"pause", "once"}
  Overlap = FALSE
PROPERTIES
  FalseAlarmClears
  SyncResumes
