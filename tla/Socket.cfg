SPECIFICATION Spec
CONSTANTS
  Objs = {o1, o2, o3, o4}
  Ctrs = {c1, c2, c3}
  Fds = {f1, f2, f3}
  Null = Null
  Free = Free
  Other = Other
INVARIANTS
  CountIsReferences
  NoLeak
  OwnDescriptor
PROPERTIES
  ImplementsSharedHandle
