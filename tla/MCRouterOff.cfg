CONSTANTS
  Paths <- MCPaths
  RootPath <- MCRoot
  Patterns <- MCPatterns
  Matches <- MCMatches
  Handlers = {h1}
  HookSets <- SyncHooks
  Names = {}
  Links = {}
  Href <- MCHref
  NoHandler = NoHandler
  NoRoute = NoRoute
  NoName = NoName
  MaxResolutions = 3
  MaxHistory = 2
  MaxRoutes = 2
  MaxCalls = 3
SPECIFICATION Spec
PROPERTY OffUnregisters
