SPECIFICATION Spec
CONSTANTS
  Phone <- MCPhone
  NoContext = NoContext
  NewContext = 0
  NoCode = "nothing"
  gsm_encode <- MCEncode
  gsm_decode <- MCDecode
  SNModulus = 65535
  FirstSNs <- MCFirstSNs
  SampleRate = 8
  JitterDelay = 180
  Period = 160
  Payload <- MCPayload
  Epoch = 1000
  Step = 105
  MaxTime = 1210
  MaxFrames = 6
  Speech <- MCSpeech
  MaxStarts <- MCStarts
INVARIANT OnlyLateDiscarded
CHECK_DEADLOCK FALSE
