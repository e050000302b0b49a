CONSTANTS
  Paths <- MCPaths
  RootPath <- MCRoot
  Patterns <- MCPatterns
  Matches <- MCMatches
  Handlers = {h1}
  HookSets <- AsyncHooks
  Names = {}
  Links = {}
  Href <- MCHref
  NoHandler = NoHandler
  NoRoute = NoRoute
  NoName = NoName
  MaxResolutions = 2
  MaxHistory = 2
  MaxRoutes = 2
  MaxCalls = 3
SPECIFICATION Spec
INVARIANT HandlerRequiresProceed
PROPERTY PauseScenario
