SPECIFICATION CollectionSpec
CONSTANTS
  Records = 4
  Drafts = {}
  PageItems = 1
  MaxItems = 2
  MaxPages = 2
  Strays = FALSE
  MaxGenerations = 7
INVARIANT EveryPageAccepted
CHECK_DEADLOCK FALSE
