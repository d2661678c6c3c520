\* Two updaters, each started up to twice, beside one reader.
SPECIFICATION Spec
CONSTANTS
  u1 = u1
  u2 = u2
  r1 = r1
  Updaters <- MCTwo
  Readers <- MCReaders
  Size <- MCSize
  MaxRuns = 2
INVARIANTS
  UInv
  WholeUnlessBad
  NoMix
  QuietPassIsWhole
