SPECIFICATION CallUpSpec
CONSTANTS
  p1 = p1
  p2 = p2
  p3 = p3
  t1 = t1
  t2 = t2
  NoPhone = NoPhone
  NoConf = NoConf
  Phone <- MCTwoPhones
  MaxDials <- MCOneDial
  Thread <- MCTwoThreads
  MaxTime = 1
  Lossy = FALSE
  IntSpan = 4
PROPERTY HangupFreesBoth
CHECK_DEADLOCK FALSE
