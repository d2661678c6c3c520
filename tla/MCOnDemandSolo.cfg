\* One scanner on a directory with one file of each kind; the path of the listed
\* one has a blank.
SPECIFICATION FairSpec
CONSTANTS
  s1 = s1
  s2 = s2
  virus = virus
  clean = clean
  listed = listed
  sub = sub
  copy = copy
  fifo = fifo
  Scanners = {s1}
  Files = {virus, listed, copy, fifo, sub}
  Bases = {virus, listed, fifo, sub}
  First <- MCFirst
  Infected = {virus, listed}
  Listed = {listed}
  Short = {fifo}
  Endless = {fifo}
  Spaced = {listed}
  Dirs = {sub}
  Directory = Directory
  Gone = Gone
  MaxSuffixes = 2
  MaxFds = 18
  MaxFaults = 1
INVARIANTS
  QuarantinedOnce
  FoundIsReported
  DescriptorsSuffice
PROPERTY Terminates
CHECK_DEADLOCK FALSE
