\* Two scanners of any user on a directory where one file, clean and whitelisted, has
\* the name that the quarantine gives to the other.
SPECIFICATION Spec
CONSTANTS
  s1 = s1
  s2 = s2
  virus = virus
  clean = clean
  listed = listed
  sub = sub
  copy = copy
  fifo = fifo
  Scanners = {s1, s2}
  Files = {virus, copy}
  Bases = {virus}
  First <- MCFirst
  Infected = {virus}
  Listed = {copy}
  Short = {}
  Endless = {}
  Spaced = {}
  Dirs = {}
  Directory = Directory
  Gone = Gone
  MaxSuffixes = 2
  MaxFds = 10
  MaxFaults = 1
SYMMETRY ScannerSymmetry
INVARIANTS
  CleanUntouched
  ListedUntouched
  RenamedIsStripped
  QuarantineComplete
CHECK_DEADLOCK FALSE
