CONSTANTS
  None = None
  Absent = Absent
  MaxParts = 4
  Segments <- MCSegments
  Name <- MCName
  Parts <- MCParts
  Before <- MCBefore
  Verbatim <- MCVerbatim
  NormalizePath <- MCNormalizePath
  Fits <- MCFits
  Request <- MCRequest
  Config <- MCConfig
  TraefikDynamicConfig <- MCTraefikDynamicConfig
SPECIFICATION TranslateSpec
INVARIANT TypeOK
INVARIANT RefsResolve
INVARIANT Guarded
INVARIANT RoutedToOwnBackend
INVARIANT PortsExclusive
INVARIANT RuleExact
INVARIANT EveryRouterKept
INVARIANT ForwardedAsMeant
