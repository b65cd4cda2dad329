SPECIFICATION Spec
CONSTANTS
  p = p
  q = q
  o1 = o1
  o2 = o2
  o3 = o3
  Procs = {p, q}
  Objs = {o1, o2, o3}
  Home <- Places
  Sems = {s1, s2}
  Given = {n}
  Values = {0, 1}
  MaxRand = 1
  MaxValue = 1
  MaxOpens = 2
  None = None
  QObjs = {o1, o2, o3}
  QHome <- Places
  Paths = {"", "path"}
  Types = {1}
  Wants = {2}
  Choosers = {o3}
  MaxQueues = 2
  Capacity = 1
  Both = FALSE
INVARIANTS
  OneSemaphore
  OpenerUses
  QueueStays
SYMMETRY Symmetry
CHECK_DEADLOCK FALSE
