SPECIFICATION FairSpec
CONSTANTS
  p1 = p1
  a1 = a1
  a2 = a2
  c1 = c1
  NoConf = NoConf
  Phone <- MCPhone
  Addr <- MCOneAddr
  Conf <- MCConf
  RingerModes <- MCRingerModes
  ScreenLag = TRUE
  MaxInputs = 4
INVARIANTS
  TypeOK
  AlertOnlyWhileRinging
  AudioExactlyInCall
  ConferenceKnown
  RingbackExactlyWhileCalling
  RingingHasScreen
PROPERTY SessionSettles
CHECK_DEADLOCK FALSE
