SPECIFICATION ConnFairSpec
CONSTANTS
  c1 = c1
  c2 = c2
  c3 = c3
  Callers = {c1, c2, c3}
INVARIANTS ConnTypeOK OwnReply ToldBeforeClosed
PROPERTIES ServesCalls EveryCallReturns
