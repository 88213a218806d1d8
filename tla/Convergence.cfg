SPECIFICATION ConvSpec
CONSTANTS
  Files = {f1}
  Contents = {c1, c2, c3}
  Hashes = {c1, c2, c3}
  HeadOf <- Identity
  Sizes = {c1, c2, c3}
  SizeOf <- Identity
  Etags = {1, 2, 3}
  Absent = Absent
  NoHash = NoHash
  NoEtag = NoEtag
  DeletionThreshold = 3
  FloorNum = 9
  FloorDen = 10
  Strategy = "prefer-remote"
  SyncDeletes = TRUE
  EditsDuringCycle = FALSE
  Faults = {"cachedScan", "incompleteScan", "uploadUnlisted"}
  Choices = {"adopt", "prefer-remote", "prefer-local"}
  Wizard = "none"
 
PROPERTY Converges
 
 
CHECK_DEADLOCK FALSE
