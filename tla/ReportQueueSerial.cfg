\* One invocation at a time, a payment and a preview of one scan, the
\* platform's own limits (wrangler.jsonc): safety and liveness.
SPECIFICATION Spec
CONSTANTS
  s1 = s1
  Payments = {p1, p2}
  Scans <- MCScans
  ScanOf <- MCScanOf
  Preview = {p2}
  Messages = {m1, m2}
  Consumers = {c1}
  NoJob = NoJob
  NoMessage = NoMessage
  MaxAttempts = 3
  MaxRetries = 3
  DlqMaxRetries = 1
  MaxSends = 1
  MaxChunks = 1
  MaxReplays = 1
INVARIANTS
  DeliveredMeansMailed
  OneReportPerScan
PROPERTIES
  JobSettles
CHECK_DEADLOCK FALSE
