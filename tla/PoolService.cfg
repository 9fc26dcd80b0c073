SPECIFICATION PoolFairSpec
CONSTANTS
  t1 = t1
  t2 = t2
  t3 = t3
  ta = ta
  tb = tb
  Threads = {t1, t2, t3}
  Tables = {ta, tb}
  MaxViews = 1
  RowGroups = 2
  Faulty = {t2}
  NumGroups <- MCGroups
  Requests <- TwoShareOneAlone
PROPERTIES ServesAloneFair EverySlotComesBack
