CONSTANTS
  Paths <- MCPaths
  RootPath <- MCRoot
  Patterns <- MCPatterns
  Matches <- MCMatches
  Handlers = {h1}
  HookSets <- SyncHooks
  Names = {}
  Links = {l1}
  Href <- MCHref
  NoHandler = NoHandler
  NoRoute = NoRoute
  NoName = NoName
  MaxResolutions = 3
  MaxHistory = 2
  MaxRoutes = 2
  MaxCalls = 3
SPECIFICATION Spec
INVARIANT TypeOK
INVARIANT OnionOrder
PROPERTY OneNavigationPerStep
INVARIANT LeaveAtMostOnce
