SPECIFICATION ClassicFairSpec
CONSTANTS
  cam = cam
  other = other
  Callers <- MCCallers
  Camera <- MCCamera
  MaxFailures <- MCMaxFailures
  HalfOpenSuccesses <- MCHalfOpenSuccesses
  ResetTimeout <- MCResetTimeout
  MinBackoff <- MCMinBackoff
  MaxBackoff <- MCMaxBackoff
  MaxOpens <- MCMaxOpens
  MaxUsage = 4
  WarningAt = 1
  GCTriggerAt = 2
  CriticalAt = 3
  EmergencyAt = 4
  GCInterval = 1
INVARIANTS
  BackoffFollowsOpenings
  OneLateCapture
  OneCollection
PROPERTIES
  OpensOnFailuresInARow
  ClosesAfterTrial
  Recovers
