SPECIFICATION ScanFairSpec
CONSTANTS
  MaxGroups = 2
  MaxRows = 1
  MaxAttempts = 2
  MaxPolls = 2
INVARIANTS ScanTypeOK EveryGroupOnce NoPhantomGroups OneConnection
PROPERTIES EveryJobEnds
CHECK_DEADLOCK FALSE
