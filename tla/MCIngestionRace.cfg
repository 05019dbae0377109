SPECIFICATION FairSpec
CONSTANTS
  u1 = u1
  u2 = u2
  w1 = w1
  w2 = w2
  Uploads <- TwoUploads
  Workers <- TwoWorkers
  MaxRetries = 1
  Fingerprint <- Distinct
  Requests <- Valid
  UploadFaults <- Nothing
  UploadAckLoss <- Nothing
  Textual <- TwoUploads
  Illustrated <- OnlyFirst
  StepFaults <- Nothing
  StepAckLoss <- Nothing
  MaxCrashes = 0
  MaxRedeliveries = 0
CHECK_DEADLOCK FALSE
PROPERTIES
  AcceptedCompletes
