CONSTANTS
  Bodies <- MCBodies
  Prefixes <- MCPrefixes
  Garbage <- MCGarbage
  Lookups <- MCLookups
  MapEnd = 32
  U = 5
  Builds = {"debug", "release"}
SPECIFICATION Spec
INVARIANTS
  NeverPanics
  ListCorrect
  GetCorrect
