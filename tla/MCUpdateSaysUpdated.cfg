\* One updater alone.
SPECIFICATION Spec
CONSTANTS
  u1 = u1
  u2 = u2
  r1 = r1
  Updaters <- MCOne
  Readers <- MCReaders
  Size <- MCSize
  MaxRuns = 1
INVARIANT
  UpdatedMeansNew
