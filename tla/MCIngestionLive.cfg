SPECIFICATION FairSpec
CONSTANTS
  u1 = u1
  u2 = u2
  w1 = w1
  w2 = w2
  Uploads <- OneUpload
  Workers <- TwoWorkers
  MaxRetries = 2
  Fingerprint <- Distinct
  Requests <- Valid
  UploadFaults <- Nothing
  UploadAckLoss <- Nothing
  Textual <- OneUpload
  Illustrated <- OnlyFirst
  StepFaults <- AllButHandler
  StepAckLoss <- Effects
  MaxCrashes = 0
  MaxRedeliveries = 0
CHECK_DEADLOCK FALSE
PROPERTIES
  AcceptedSettles
  CompletedStaysIndexed
