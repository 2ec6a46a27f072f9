CONSTANTS
  None = None
  Absent = Absent
  MaxParts = 4
  Segments <- MCSegments
  Name <- MCName
  Parts <- MCParts
  Before <- MCBefore
  Verbatim <- MCVerbatim
  NormalizePath <- MCNormalizePath
  Fits <- MCFits
  Request <- MCRequest
  Config <- BaseOnly
  TraefikDynamicConfig <- PangolinPair
SPECIFICATION TranslateSpec
INVARIANT NoRivals
