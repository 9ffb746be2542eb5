SPECIFICATION NextCallSpec
CONSTANTS
  p1 = p1
  p2 = p2
  p3 = p3
  t1 = t1
  t2 = t2
  NoPhone = NoPhone
  Phone <- MCPhone
  Thread <- MCOneThread
  MaxTime = 2
  IntSpan = 4
  MaxRequests = 5
INVARIANT OnlyAcceptedBilled
SYMMETRY ServerSymmetry
CHECK_DEADLOCK FALSE
