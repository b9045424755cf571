SPECIFICATION Spec
CONSTANTS
  api = api  pub = pub
  None = None
  Services = {api, pub}
  Tasks = {}
  Heavy = {api}
  Ported = {api, pub}
  Leftovers = {api}
  Watched = {pub}
  DepsOf <- PubNeedsApi
  Followers <- PubFollows
  Refs = {"main", "feature"}
  Limit = 1
  Procs = {"p1", "p2", "p3"}
  Threads = {"t1"}
  MaxCalls = 2
  MaxChanges = 1
  MaxDepth = 4
  Methods = {"start", "stop", "restart", "rebind", "remove", "edit", "adopt"}
CHECK_DEADLOCK FALSE
INVARIANTS TypeOK RunningShows StartingIsPursued
