\* Two calls in a row on one database stream and one virus_name buffer.
SPECIFICATION Spec
CONSTANTS
  Byte = {0, 1, 2}
  SigSize = 2
  MaxFile = 4
  Files <- MCFiles
  Databases <- MCDatabases
  Char = {1, 2}
  NameCap = 2
  MaxCalls = 2
INVARIANTS FoundIffMatches ZeroFreeExact VerdictInName FirstLineNamed LoopInv
PROPERTY ImplementsDetector
CHECK_DEADLOCK FALSE
