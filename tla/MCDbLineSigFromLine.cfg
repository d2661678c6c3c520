\* Any sequence of entries and stray lines read into one buffer.
SPECIFICATION Spec
CONSTANTS
  SigSize = 4
  BufLen = 24
  Names <- MCNames
  Sigs <- MCSigs
  Stray <- MCStray
  Blocks = {4}
  Behind <- MCBehind
INVARIANT SigFromLine
