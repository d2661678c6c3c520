\* One scanner on a directory with a subdirectory.
SPECIFICATION FairSpec
CONSTANTS
  s1 = s1
  s2 = s2
  virus = virus
  clean = clean
  listed = listed
  sub = sub
  copy = copy
  fifo = fifo
  Scanners = {s1}
  Files = {clean, sub}
  Bases = {clean, sub}
  First <- MCFirst
  Infected = {}
  Listed = {}
  Short = {}
  Endless = {}
  Spaced = {}
  Dirs = {sub}
  Directory = Directory
  Gone = Gone
  MaxSuffixes = 1
  MaxFds = 30
  MaxFaults = 1
PROPERTY HashIssueCode
CHECK_DEADLOCK FALSE
