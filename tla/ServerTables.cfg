SPECIFICATION ServerSpec
CONSTANTS
  t1 = t1
  t2 = t2
  t3 = t3
  ta = ta
  tb = tb
  None = None
  Threads = {t1, t2}
  Tables = {ta, tb}
  MaxViews = 1
  MaxId = 2
  Faulty = {}
  NumGroups <- MCGroups
  Requests <- OwnTables
INVARIANTS ServerTypeOK DistinctHandles OwnProperties KeyErrorOnlyIfClosed OpenOrLost RowsAsConnected
PROPERTIES UsesThePool
CHECK_DEADLOCK FALSE
