CONSTANTS
  Disk <- MCDisk
  Dirs <- MCDirs
  LookupNames = {2, 3, 4, 5, 6, 7, 8, 9}
  Offsets = {0, 1, 3, 5}
  Indices = {0, 1, 2, 3}
  Garbage <- MCGarbage
  DOT = 2
  DOTDOT = 3
  U = 6
  B = 2
  CW = 8
  Builds = {"debug", "release"}
SPECIFICATION Spec
INVARIANTS
  TypeOK
  NeverPanics
  LookupCorrect
  WalkFromOffset
  IndexCorrect
  CountCorrect
PROPERTY
  CallsReturn
