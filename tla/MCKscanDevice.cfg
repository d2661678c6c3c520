SPECIFICATION FairSpec
CONSTANTS
  t1 = t1
  t2 = t2
  file = file
  device = device
  text = text
  empty = empty
  NoOne = NoOne
  Tasks <- MCTasks
  Paths <- MCPaths
  Texts <- MCTexts
  Device = device
  Empty = empty
  Length <- MCLength
  EarlyOpens = FALSE
INVARIANTS
  DeviceExclusive
  WriteReadBack
  NothingLeftBehind
PROPERTIES
  OpensReturn
  LockoutEnds
