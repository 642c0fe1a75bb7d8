CONSTANTS
  LBA28 = 2
  LBA24 = 2
  SECTORS = 3
  Values <- MCValues
  Configurations <- MCConfigurations
  Slots = {0, 1}
  COUNT_LIMIT = 2
  CALL_LIMIT = 3
  None = None
SPECIFICATION Spec
INVARIANTS
  ReadsReturnSectors
  WritesLast
PROPERTY
  CallsReturn
