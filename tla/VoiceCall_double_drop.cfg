SPECIFICATION OneHangsUpSpec
CONSTANTS
  p1 = p1
  p2 = p2
  p3 = p3
  t1 = t1
  t2 = t2
  NoPhone = NoPhone
  NoConf = NoConf
  Phone <- MCTwoPhones
  MaxDials <- MCOneDial
  Thread <- MCTwoThreads
  MaxTime = 1
  Lossy = FALSE
  IntSpan = 4
INVARIANT BilledAtMostElapsed
CHECK_DEADLOCK FALSE
