CONSTANTS
  c1 = c1
  c2 = c2
  c3 = c3
  Callers <- MCCallers
  Events = {"Start", "Stop"}
  NoCaller = NoCaller
SPECIFICATION Spec
INVARIANT
  ResultsBalance
PROPERTY
  CallsReturn
CHECK_DEADLOCK FALSE
