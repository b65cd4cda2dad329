SPECIFICATION ClassSpec
CONSTANTS
  k1 = k1
  k2 = k2
  k3 = k3
  Tables = {t1, t2}
  Keys = {k1, k2, k3}
  Values = {v1, v2}
  Hash <- ThreeHashes
  TableSize = 1
  LoadNum = 1
  LoadDen = 3
  NoTable = NoTable
  Files = {"f", "g"}
  SettingKeys = {"k", "l"}
  SettingValues = {"", "v"}
  MaxLines = 3
  BothClasses = FALSE
INVARIANTS
  LoadBounded
PROPERTIES
  ImplementsDictionary
  OperationsReturn
  EndsAsRead
  CallsEnd
CHECK_DEADLOCK FALSE
