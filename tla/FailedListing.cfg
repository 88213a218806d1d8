SPECIFICATION Spec
CONSTANTS
  Files = {f1, f2}
  Contents = {c1}
  Hashes = {c1}
  HeadOf <- Identity
  Sizes = {c1}
  SizeOf <- Identity
  Etags = {1, 2, 3}
  Absent = Absent
  NoHash = NoHash
  NoEtag = NoEtag
  DeletionThreshold = 1
  FloorNum = 1
  FloorDen = 4
  Strategy = "last-writer-wins"
  SyncDeletes = TRUE
  EditsDuringCycle = FALSE
  Faults = {"cachedScan"}
SYMMETRY Symmetry
INVARIANT FailedListingIsNotEmpty
