SPECIFICATION SnapshotSpec
CONSTANTS
  None = None
  MaxSaves = 2
  Requests = {1}
  Texts = {"short", "long"}
  MaxPlans = 2
  MaxEpoch = 2
INVARIANTS LoadIsNeverStale LateStaysRefused
PROPERTIES StoreHoldsOneMoment RestartKeepsPlans ShortTextsRestored
