SPECIFICATION FairSpec
CONSTANTS
  w1 = w1
  w2 = w2
  c1 = c1
  c2 = c2
  c3 = c3
  Callers <- MCCallers
  Clients <- MCClients
  NoClient = NoClient
  MaxFrames <- MCMaxFrames
  MaxSequence <- MCMaxSequence
INVARIANTS
  OneClient
  KeysDistinct
  OneCopy
PROPERTIES
  ProcessEnds
CHECK_DEADLOCK FALSE
