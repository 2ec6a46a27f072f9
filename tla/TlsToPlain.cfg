CONSTANTS
  None = None
  Absent = Absent
  MaxParts = 4
  Segments <- MCSegments
  Name <- MCName
  Parts <- MCParts
  Before <- MCBefore
  Verbatim <- MCVerbatim
  NormalizePath <- MCNormalizePath
  Fits <- MCFits
  Request <- MCRequest
  Config <- ServiceMode
  TraefikDynamicConfig <- TwoSchemes
SPECIFICATION TranslateSpec
INVARIANT TlsOnlyToHttps
