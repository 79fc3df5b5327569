\* One purchase, the webhook and its redelivery, one invocation at a time.
SPECIFICATION AuditSpec
CONSTANTS
  s1 = s1
  Payments = {p1}
  Scans <- MCScans
  ScanOf <- MCScanOf
  Preview = {}
  Messages = {m1, m2}
  Consumers = {c1}
  Workers = {c1}
  NoJob = NoJob
  NoMessage = NoMessage
  MaxAttempts = 1
  MaxRetries = 0
  DlqMaxRetries = 0
  MaxSends = 2
  MaxChunks = 4
  MaxReplays = 0
  MaxPageLimit = 2
  DefaultPageLimit = 1
  MaxChunkSize = 1
  Site = 2
  PageLimit = 2
  ChunkSize = 1
  NoPending = NoPending
  NoCoverage = NoCoverage
  NoReport = NoReport
  Requests = {r1}
  NoSession = NoSession
  MaxDeliveries = 2
  MaxReconciles = 0
  MaxFailures = 1
INVARIANTS
  AcknowledgedIsNotLost
  CoverageIsHonest
  ContinuationSkipsNothing
PROPERTIES
  WorkStays
  PurchaseSettles
CHECK_DEADLOCK FALSE
