SPECIFICATION FairSpec
CONSTANTS
  cam = cam
  Camera = cam
  Cameras <- MCCameras
  Threshold = 2
  MissLimit = 2
  BufferSize = 1
  MaxReaders = 2
INVARIANT OneProcess
PROPERTIES
  OutageReported
  ComesBack
CHECK_DEADLOCK FALSE
