SPECIFICATION Spec
CONSTANTS
  Keys <- MCKeys
  Values <- FixedSizes
  Absent = Absent
  Size = 11
  Blank = 9
  SIZE_MODULUS = 1000
  CommitFaults = TRUE
INVARIANTS
  TypeOK
  LogIsSound
PROPERTIES
  ImplementsMap
  AcknowledgedIsDurable
