SPECIFICATION PageSpec
CONSTANTS
  Roots = {"s"}
  Parts = {"a", "b"}
  Looks <- PageLooks
  HostRoot = HostRoot
  NoNode = NoNode
  MaxPageRenders = 2
INVARIANT PageShowsTree
CHECK_DEADLOCK FALSE
