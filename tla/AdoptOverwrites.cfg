SPECIFICATION FirstSpec
CONSTANTS
  Files = {f1, f2}
  Contents = {c1, c2}
  Hashes = {c1, c2}
  HeadOf <- Identity
  Sizes = {c1, c2}
  SizeOf <- Identity
  Etags = {1, 2, 3}
  Absent = Absent
  NoHash = NoHash
  NoEtag = NoEtag
  DeletionThreshold = 1
  FloorNum = 0
  FloorDen = 4
  Strategy = "last-writer-wins"
  SyncDeletes = TRUE
  EditsDuringCycle = FALSE
  Faults = {"incompleteScan"}
  Choices = {"adopt", "prefer-remote", "prefer-local"}
  Wizard = "none"
PROPERTY AdoptLeavesToUser
CHECK_DEADLOCK FALSE
