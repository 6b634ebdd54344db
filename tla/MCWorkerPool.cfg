SPECIFICATION FairSpec
CONSTANTS
  w1 = w1
  w2 = w2
  Workers <- MCWorkers
  BufferSize <- MCBufferSize
  MaxJobs <- MCMaxJobs
  NoJob <- MCNoJob
INVARIANTS
  JobsInOnePlace
  ProcessingExact
PROPERTIES
  WorkersExit
  AcceptedJobsRun
CHECK_DEADLOCK FALSE
