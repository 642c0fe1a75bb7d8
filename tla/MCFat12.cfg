CONSTANTS
  bytes_per_sector = 6
  total_sectors = 10
  root_entry_count = 2
  ENTRY_SIZE = 3
  CLUSTER_CAP = 4085
  a = a
  b = b
  v = v
  w = w
  Names <- MCNames
  Contents <- MCContents
  Sizes <- MCSizes
  CLUSTER_COUNTS = 4
  None = None
SPECIFICATION Spec
INVARIANTS
  WrittenReadsBack
  ChainsSound
  NoClusterLost
