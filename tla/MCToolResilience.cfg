SPECIFICATION FairSpec
CONSTANTS
  c1 = c1
  c2 = c2
  c3 = c3
  Calls <- ThreeCalls
  MaxAttempts = 2
  InitialDelay = 1
  Multiplier = 2
  FailureThreshold = 3
  RecoverySeconds = 2
CHECK_DEADLOCK FALSE
INVARIANTS
  TypeOK
  OpenMeansFailing
  BreakerInv
  EndIsJustified
PROPERTIES
  RefusedForAReason
  EveryCallEnds
