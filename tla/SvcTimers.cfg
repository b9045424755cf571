SPECIFICATION LiveSpec
CONSTANTS
  api = api  pub = pub
  None = None
  Services = {api}
  Tasks = {}
  Heavy = {api}
  Ported = {api}
  Leftovers = {api}
  Watched = {api}
  DepsOf <- Nothing
  Followers <- Nothing
  Refs = {"main", "feature"}
  Limit = 1
  Procs = {"p1", "p2"}
  Threads = {"t1"}
  MaxCalls = 3
  MaxChanges = 2
  MaxDepth = 4
  Methods = {"start", "stop", "restart", "rebind", "adopt", "throws"}
CHECK_DEADLOCK FALSE
PROPERTIES ChangeSeen AdoptedSettles
INVARIANTS RunsWhereBound
