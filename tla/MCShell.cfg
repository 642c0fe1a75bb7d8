CONSTANTS
  MAX_INPUT_LENGTH = 3
  MAX_HISTORY_ENTRIES = 2
  CMD_LIMIT = 3
SPECIFICATION Spec
INVARIANTS
  StringsEnd
  HistoryKeepsLines
PROPERTIES
  RecallFindsLine
  ImplementsEditor
CHECK_DEADLOCK FALSE
