SPECIFICATION RowsSpec
CONSTANTS
  p1 = p1
  p2 = p2
  p3 = p3
  t1 = t1
  t2 = t2
  NoPhone = NoPhone
  Phone <- MCPhone
  Thread <- MCTwoThreads
  MaxTime = 1
  IntSpan = 1
  MaxRequests = 3
INVARIANTS
  TypeOK
  OnePayer
  AcceptedCallHasStart
  UsageStored
SYMMETRY ServerSymmetry
CHECK_DEADLOCK FALSE
