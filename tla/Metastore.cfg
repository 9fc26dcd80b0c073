SPECIFICATION MetaFairSpec
CONSTANTS
  p1 = p1
  p2 = p2
  s1 = s1
  NumTables = 2
  Tools = {p1, p2}
  Sessions = {s1}
  MaxStarts = 2
  MaxInserts = 1
  WithPath = {2}
  Programs <- MCPrograms
  Loaded <- MCLoaded
  NewFile <- MCNew
INVARIANTS MetaTypeOK DoneIsMoved SplitBalances LoadedStatistics
PROPERTIES StatisticsStay EveryRunEnds
