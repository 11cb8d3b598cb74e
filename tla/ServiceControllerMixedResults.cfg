CONSTANTS
  c1 = c1
  c2 = c2
  c3 = c3
  Callers <- MCCallers
  Events = {"Start", "Stop"}
  NoCaller = NoCaller
SPECIFICATION Spec
INVARIANT
  OwnResult
CHECK_DEADLOCK FALSE
