SPECIFICATION SdkSpec
CONSTANTS
  Features = {alpha, beta}
  Requests = {1, 2}
  MaxAnswers = 3
  MaxCalls = 2
  Records = 4
  Drafts = {9}
  PageItems = 2
  MaxItems = 3
  MaxPages = 3
  Strays = TRUE
  MaxGenerations = 3
  Places = {home, docs, page}
  Home = home
  NoPlace = NoPlace
  MaxDepth = 3
  MaxEntries = 5
  MaxMoves = 5
SYMMETRY FeatureSymmetry
INVARIANTS
  SdkTypeOK
  ReadsAreCoherent
  AnswersArrive
  CollectionHolds
  HistoryAgrees
PROPERTIES
  OptimisticSettles
  LateAnswersChangeNothing
CHECK_DEADLOCK FALSE
