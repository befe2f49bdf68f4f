SPECIFICATION HostSpec
CONSTANTS
  Loops = {l1, l2}
  NoRequest = NoRequest
  Kinds = {"rpc", "plugin", "timer"}
  Deadline = 1
  InFlight = 2
  MaxRequests = 3
  MaxBurst = 2
  MaxTime = 2
  LedgerIds = {r1, r2, r3}
  Traces = {t1, t2}
  Deadlines = {1}
  Capacity = 2
  MaxBegins = 2
  MaxClock = 2
  Platforms = {TRUE, FALSE}
  MaxChanges = 2
  Tokens = {t1, t2}
  TimerIds = {x, y}
  TimerLimit = 2
  MaxArrivals = 3
  NoTimer = NoTimer
  Tracks = {a, b}
  NoTrack = NoTrack
  MediaLoops = {l1, l2}
  MaxCommands = 4
  Previews = {p1, p2, p3}
  Asset = Asset
  Absent = Absent
  Images = 2
  MaxSelections = 2
  MaxRenders = 3
  MotionChannels <- MovingChannels
  Motions <- MovingWays
  Still = Still
  FrameTime = 2
  MaxMotionRenders = 2
  Roots = {"s", "u"}
  Parts = {"a", "b", "c"}
  Looks <- PageLooks
  HostRoot = HostRoot
  NoNode = NoNode
  MaxPageRenders = 3
  Supply = 6
  LoadSize = 2
  Retained = 4
  SmallList = 3
  Overscan = 1
  Estimate = 1
  ItemHeights = {1, 2}
  FirstHeights <- ListHeights
  ViewHeight = 2
  Counted = TRUE
  MaxListMoves = 3
  MaxUnrest = 24
INVARIANTS
  HostTypeOK
  RequestsHold
  EventsAccounted
  MediaSettles
  PreviewsHold
  MotionHolds
  PageHolds
  ListsHold
  ComesToRest
PROPERTIES
  HostResponds
  FramesLeadToTheEnd
CHECK_DEADLOCK FALSE
