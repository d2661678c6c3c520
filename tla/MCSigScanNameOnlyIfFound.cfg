\* One call, every database of one line.
SPECIFICATION Spec
CONSTANTS
  Byte = {0, 1, 2}
  SigSize = 2
  MaxFile = 2
  Files <- MCFiles
  Databases <- Single
  Char = {1, 2}
  NameCap = 2
  MaxCalls = 1
INVARIANT NameOnlyIfFound
CHECK_DEADLOCK FALSE
