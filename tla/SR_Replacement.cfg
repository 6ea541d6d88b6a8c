SPECIFICATION SnapshotSpec
CONSTANTS
  None = None
  MaxSaves = 2
  Requests = {1}
  Texts = {"short"}
  MaxPlans = 2
  MaxEpoch = 2
INVARIANT ReplacementIsAtomic
