SPECIFICATION Spec
CONSTANTS
  Phone <- MCPhone
  NoContext = NoContext
  NewContext <- Context
  NoCode <- MCNoCode
  gsm_encode <- MCEncode
  gsm_decode <- MCDecode
  SNModulus = 6
  FirstSNs <- MCFirstSNs
  SampleRate = 8
  JitterDelay = 180
  Period = 160
  Payload <- MCPayload
  Epoch = 1000
  Step = 90
  MaxTime = 1270
  MaxFrames = 5
  Speech <- MCSpeech
  MaxStarts <- MCStarts
INVARIANTS
  TypeOK
  PlayedInOrder
  HeardAtFirst
  DecoderFollowsEncoder
PROPERTY PackingLossless
CHECK_DEADLOCK FALSE
