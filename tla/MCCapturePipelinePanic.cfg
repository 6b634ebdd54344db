SPECIFICATION PipelineSpec
CONSTANTS
  w1 = w1
  Capacity <- MCCapacity
  MaxJobs <- MCMaxJobs
  Workers <- MCWorkers
  BufferSize <- MCBufferSize
  NoJob <- MCNoJob
INVARIANT SubmitAfterCloseIsRefused
CHECK_DEADLOCK FALSE
