SPECIFICATION Spec
CONSTANTS
  f1 = f1
  f2 = f2
  f3 = f3
  Files = {f1, f2, f3}
  DeletionThreshold = 1
  FloorNum = 0
  FloorDen = 2
  Faults = {"staleScan", "incompleteScan", "transferFails", "stop"}
  Uses = {"confirm", "upload", "cancel", "pause"}
  Overlap = FALSE
SYMMETRY Symmetry
INVARIANTS
  QuestionIsKept
  PausedForAReason
PROPERTIES
  OpenQuestionsProtect
  AsksFirst
