CONSTANTS
  TOTAL = 5
  DATA_START = 3
  ELIXIR_MAX_FILES = 2
  ELIXIR_MAX_FILENAME = 3
  Paths <- MCPaths
  Garbage <- MCGarbage
  CALL_LIMIT = 4
  Sizes <- MCSizes
  ELIXIR_BLOCK_SIZE = 2
  None = None
SPECIFICATION Spec
INVARIANTS
  FilesHoldData
  BooksBalance
PROPERTY
  OneEntryChanges
