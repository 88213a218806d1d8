SPECIFICATION Spec
CONSTANTS
  Files = {f1, f2}
  Contents = {c1, c2}
  Hashes = {c1, c2}
  HeadOf <- Identity
  Sizes = {c1, c2}
  SizeOf <- Identity
  Etags = {1, 2, 3}
  Absent = Absent
  NoHash = NoHash
  NoEtag = NoEtag
  DeletionThreshold = 1
  FloorNum = 0
  FloorDen = 4
  Strategy = "skip"
  SyncDeletes = TRUE
  EditsDuringCycle = FALSE
  Faults = {"incompleteScan", "trashFails", "removeFails", "shutdown", "downloadFails", "cachedScan", "uploadRefused", "uploadLost", "uploadUnlisted"}
SYMMETRY Symmetry
INVARIANT BoundedSilentLoss
INVARIANT ScansStillProve
PROPERTY StaleCycleRemovesNothing
