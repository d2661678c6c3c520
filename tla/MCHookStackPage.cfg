SPECIFICATION Spec
CONSTANTS
  antv = antv
  hijack = hijack
  hack = hack
  t1 = t1
  t2 = t2
  Kernel = Kernel
  NoOne = NoOne
  Modules <- MCModules
  Scanning <- MCScanning
  Tasks <- MCTasks
INVARIANT
  PageStaysWritable
