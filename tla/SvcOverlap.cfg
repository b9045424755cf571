SPECIFICATION LiveSpec
CONSTANTS
  api = api  pub = pub
  None = None
  Services = {api, pub}
  Tasks = {pub}
  Heavy = {api, pub}
  Ported = {api}
  Leftovers = {}
  Watched = {}
  DepsOf <- ApiNeedsPub
  Followers <- Nothing
  Refs = {"main"}
  Limit = 1
  Procs = {"p1", "p2", "p3"}
  Threads = {"t1", "t2"}
  MaxCalls = 3
  MaxChanges = 0
  MaxDepth = 4
  Methods = {"start", "stop", "restart", "remove", "edit"}
CHECK_DEADLOCK FALSE
INVARIANTS OneProcess SlotsInUse SlotsCounted
PROPERTIES GateSpec CallsReturn
