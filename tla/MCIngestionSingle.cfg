SPECIFICATION Spec
CONSTANTS
  u1 = u1
  u2 = u2
  w1 = w1
  w2 = w2
  Uploads <- OneUpload
  Workers <- TwoWorkers
  MaxRetries = 3
  Fingerprint <- Distinct
  Requests <- Valid
  UploadFaults <- AllUploadSteps
  UploadAckLoss <- AllUploadSteps
  Textual <- OneUpload
  Illustrated <- OnlyFirst
  StepFaults <- AllSteps
  StepAckLoss <- EffectsButJob
  MaxCrashes = 2
  MaxRedeliveries = 0
SYMMETRY WorkerSymmetry
CHECK_DEADLOCK FALSE
INVARIANTS
  TypeOK
  OneToken
  CompletedIsIndexed
  NoStalePoint
  ErrorIffFailed
  IInv
PROPERTIES
  ImplementsLifecycle
  CompletedIsFinal
