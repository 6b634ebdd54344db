SPECIFICATION FairPathSpec
CONSTANTS
  Enabled <- MCEnabled
  MaxFailures <- MCMaxFailures
  ChannelSize <- MCChannelSize
  MaxReceived <- MCMaxReceived
INVARIANTS
  OneStream
  FlagExact
  FramesCounted
PROPERTIES
  StopEnds
CHECK_DEADLOCK FALSE
