SPECIFICATION UploadSpec
CONSTANTS
  u1 = u1
  u2 = u2
  u3 = u3
  Uploads <- ThreeUploads
  MaxRetries = 3
  Fingerprint <- SameBytes
  Requests <- SampleRequests
  UploadFaults <- AnyStep
  UploadAckLoss <- AnyStep
CHECK_DEADLOCK FALSE
INVARIANTS
  PublishedIsStored
  NoDanglingReference
  OneDocumentPerFingerprint
  ResponseTellsOutcome
