SPECIFICATION Spec
CONSTANTS
  Fields = {a}
  MaxAttempts = 3
  MaxSkips = 2
CHECK_DEADLOCK FALSE
INVARIANT JournalReadable
