SPECIFICATION PoolSpec
CONSTANTS
  t1 = t1
  t2 = t2
  t3 = t3
  ta = ta
  tb = tb
  Threads = {t1, t2}
  Tables = {ta}
  MaxViews = 2
  RowGroups = 2
  Faulty = {}
  NumGroups <- MCGroups
  Requests <- OneGroupEach
INVARIANTS ReadsItsGroups
