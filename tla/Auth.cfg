\* The period is 16, so the clock and the start times straddle a wrap; the
\* window is 2 early, 3 late.
SPECIFICATION Spec
CONSTANTS
  PERIOD = 16
  MAX_ACCEPT_EARLY = 2
  MAX_ACCEPT_LATE = 3
  NoIp = NoIp
  Keys <- MCKeys
  Tokens <- MCTokens
  Addresses <- MCAddresses
  LocalIps <- MCLocalIps
  GoodUuids = {"u"}
  BadIp = BadIp
  Bodies <- MCBodies
  StartTimes <- MCStartTimes
  PauseBound = 2
INVARIANTS TypeOK AcceptedIsGenuine GenuineIsAccepted NoEarlyStart
  IpAnswerIsRight IpRefusalIsDeserved NatTypeIsRight
