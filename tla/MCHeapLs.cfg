CONSTANTS
  HDR = 2
  ALIGN_SIZE = 2
  MIN_ALLOC_SIZE = 2
  MAX_REQUEST = 4
  SAFETY = 3
  PAGE_SIZE = 4
  LOW_MEM = 4
  MIN_ENTRY = 4
  NEEDED_MEM = 16
  MAX_ADDR = 24
  MemMaps <- MCMemMaps
  Requests <- MCRequests
  StaticBlock = 18
  StaticWords <- MCStaticWords
SPECIFICATION SpecLs
INVARIANT FreeBlocksAreHeap
