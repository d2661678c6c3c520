\* on_access.c and two modules that pass opens on, and two tasks.
SPECIFICATION FairSpec
CONSTANTS
  antv = antv
  hijack = hijack
  hack = hack
  t1 = t1
  t2 = t2
  Kernel = Kernel
  NoOne = NoOne
  Modules <- MCModules
  Scanning <- MCScanning
  Tasks <- MCTasks
INVARIANTS
  NoDangling
  OlderKept
  NoFaultBeforeUnload
PROPERTY
  OpensReturn
