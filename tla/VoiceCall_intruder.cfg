SPECIFICATION Spec
CONSTANTS
  p1 = p1
  p2 = p2
  p3 = p3
  t1 = t1
  t2 = t2
  NoPhone = NoPhone
  NoConf = NoConf
  Phone <- MCThreePhones
  MaxDials <- MCIntruder
  Thread <- MCOneThread
  MaxTime = 0
  Lossy = FALSE
  IntSpan = 4
INVARIANT DropReachesPartner
CHECK_DEADLOCK FALSE
