CONSTANTS
  s1 = s1
  s2 = s2
  s3 = s3
  s4 = s4
  k1 = k1
  k2 = k2
  k3 = k3
  None = None
  Tab = {"left", "right"}
  Session <- MCSession
  Token <- MCToken
  Page <- MCPage
  Public <- MCPublic
  Prefix <- MCPrefix
  Faults = {"outage", "malformed", "abandon", "revoke", "expire"}
SPECIFICATION ShimSpec
INVARIANT TypeOK
INVARIANT ServedWasAuthorized
INVARIANT PageKept
PROPERTY LoginCompletes
PROPERTY TabsGoOn
