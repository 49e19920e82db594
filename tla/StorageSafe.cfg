SPECIFICATION StorageSpec
CONSTANTS
  Sends = {s1}
  Projections = {p1}
  Parts = {a}
  Passes = {x}
  Leases = {l1, l2}
  NoLease = NoLease
  MaxTries = 2
  SlowWriters = FALSE
  Rules = {1, 2, 3}  Members = {l1, l2}  Mails = {1, 2}
  Labels = {"l"}  Folders = {"f", "g"}  NoFolder = NoLease
  Definitions <- MCDefinitions
  MaxEnabled = 3  MaxAttempts = 2  MaxVersions = 2  MaxRevision = 4  MaxOrder = 4
  N = 3  Files = {1}  Batches = {1, 2}
  Tokens <- AllTokens  MaxJobTries = 2  MaxEdits = 2  MaxFaults = 1
SYMMETRY Symmetry
INVARIANTS OwnershipInv OwnedIsStored NothingIsForgotten IndexIsTrue RulesAreKept
CHECK_DEADLOCK FALSE
