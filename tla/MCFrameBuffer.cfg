SPECIFICATION FairSpec
CONSTANTS
  Capacity <- MCCapacity
  MaxFrames <- MCMaxFrames
INVARIANTS
  PushNeverBlocks
  FramesConserved
  ReleasesAreCounted
  StatsConsistent
PROPERTIES
  ImplementsLossyQueue
  FramesLeave
