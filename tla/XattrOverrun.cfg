CONSTANTS
  Bodies <- MCOverrun
  Prefixes <- MCPrefixes
  Garbage <- MCGarbage
  Lookups <- MCLookups
  MapEnd = 32
  U = 5
  Builds = {"debug"}
SPECIFICATION Spec
INVARIANT
  NeverPanics
