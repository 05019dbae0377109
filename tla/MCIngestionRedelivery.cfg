SPECIFICATION Spec
CONSTANTS
  u1 = u1
  u2 = u2
  w1 = w1
  w2 = w2
  Uploads <- OneUpload
  Workers <- TwoWorkers
  MaxRetries = 1
  Fingerprint <- Distinct
  Requests <- Valid
  UploadFaults <- Nothing
  UploadAckLoss <- Nothing
  Textual <- OneUpload
  Illustrated <- OnlyFirst
  StepFaults <- AllSteps
  StepAckLoss <- Nothing
  MaxCrashes = 0
  MaxRedeliveries = 1
SYMMETRY WorkerSymmetry
CHECK_DEADLOCK FALSE
INVARIANTS
  RunningIsJustified
  CompletedIsSearchable
