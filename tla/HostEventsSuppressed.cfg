SPECIFICATION EventsSpec
CONSTANTS
  Platforms = {FALSE}
  MaxChanges = 4
  Tokens = {}
INVARIANT SeesHostState
CHECK_DEADLOCK FALSE
