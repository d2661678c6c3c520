\* Two users, two antv slots, one load that may be unloaded.
SPECIFICATION Spec
CONSTANTS
  Users = {u1, u2}
  Helpers = {h1, h2}
  HelperOpens = 1
  MaxLoads = 1
  NoOne = NoOne
SYMMETRY TaskSymmetry
INVARIANT OpenRestored
CHECK_DEADLOCK FALSE
