CONSTANTS
  Paths <- MCPaths
  RootPath <- MCRoot
  Matches <- MCMatches
  QueuePattern <- MCQueuePattern
  QueuePath <- MCQueuePath
  QueueHandler = QueueHandler
  NoHandler = NoHandler
  NoRoute = NoRoute
  NoName = NoName
  Pages = {"page_queue"}
  MaxResolutions = 2
  MaxHistory = 2
  MaxInFlight = 2
  MaxClicks = 1
SPECIFICATION Spec
INVARIANT TypeOK
PROPERTY SpinnerSettles StatusRecovers
