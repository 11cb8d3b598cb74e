CONSTANTS
  Disk <- MCDisk
  Dirs <- MCDirsOne
  LookupNames = {1}
  Offsets = {0, 1, 3, 5}
  Indices = {0, 1, 2, 3}
  Garbage <- MCGarbage
  DOT = 2
  DOTDOT = 3
  U = 6
  B = 2
  CW = 8
  Builds = {"release"}
SPECIFICATION Spec
INVARIANT
  LookupCorrect
