SPECIFICATION PipelineFairSpec
CONSTANTS
  w1 = w1
  Capacity <- MCCapacity
  MaxJobs <- MCMaxJobs
  Workers <- MCWorkers
  BufferSize <- MCBufferSize
  NoJob <- MCNoJob
INVARIANTS
  ReleasedOnceAndUnused
  NoFrameForgotten
PROPERTIES
  ImplementsPool
  MemoryComesBack
  ShutdownEnds
CHECK_DEADLOCK FALSE
