\* Two users and two antv slots, the module loaded, unloaded and loaded again.
SPECIFICATION FairSpec
CONSTANTS
  Users = {u1, u2}
  Helpers = {h1, h2}
  HelperOpens = 1
  MaxLoads = 2
  NoOne = NoOne
INVARIANTS
  IInv
  HookArmed
  HelperBypassesHook
  LockOwnership
  NoFaultBeforeUnload
PROPERTIES
  OpensReturn
  ImplementsGate
CHECK_DEADLOCK FALSE
