SPECIFICATION FairPathSpec
CONSTANTS
  Enabled <- MCEnabled
  MaxFailures <- MCMaxFailures
  ChannelSize <- MCChannelSize
  MaxReceived <- MCMaxReceived
PROPERTY OpenIsTried
CHECK_DEADLOCK FALSE
