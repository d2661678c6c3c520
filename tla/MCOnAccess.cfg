\* Two tasks open the names of a directory with an infected file and a FIFO that
\* has the quarantined name of it.
SPECIFICATION AccessSpec
CONSTANTS
  t1 = t1
  t2 = t2
  virus = virus
  fifo = fifo
  Scanners = {t1, t2}
  Files = {virus, fifo}
  Bases = {virus}
  First <- MCFirst
  Infected = {virus}
  Listed = {}
  Short = {fifo}
  Endless = {fifo}
  Spaced = {}
  Dirs = {}
  Directory = Directory
  Gone = Gone
  MaxSuffixes = 1
  MaxFds = 20
  MaxFaults = 1
  Elsewhere <- MCElsewhere
PROPERTIES
  CheckedOpenIsSafe
  OpensServed
