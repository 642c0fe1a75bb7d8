CONSTANTS
  INT_BITS = 6
  LONG_BITS = 9
  Formats <- MCFormats
  Sizes = {1, 3, 5, 12}
  Arguments <- MCArguments
SPECIFICATION Spec
INVARIANTS
  PrintsWhatIsAsked
  StaysInBuffer
