SPECIFICATION FairSpec
CONSTANTS
  w1 = w1
  w2 = w2
  r1 = r1
  r2 = r2
  r3 = r3
  NoPeer = NoPeer
  Addr <- MCAddr
  Local = 2
  Worker <- MCWorker
  Peer <- MCPeer
  MaxInputs = 3
INVARIANTS
  TypeOK
  MicrophoneOnlyInCall
  NothingOutlivesCall
  RecorderGoesOn
  OwnSocket
PROPERTY HangupEndsAudio
CHECK_DEADLOCK FALSE
