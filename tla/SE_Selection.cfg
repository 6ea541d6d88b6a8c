CONSTANTS
  Unknown = Unknown
  MaxInt = 7
  ClampDropped = TRUE
  Problems <- Selections
  Start = 4
  MaxNow = 6
SPECIFICATION Spec
INVARIANTS
  TypeOK
  WinnerExists
  WinnerIsUnique
  WinnerIsUndominated
  HardConstraintsKept
  DurationFits
PROPERTIES
  LatenessIsPermanent
CHECK_DEADLOCK FALSE
