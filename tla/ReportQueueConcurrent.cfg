\* Two invocations at a time of one payment's job; the producers send twice.
SPECIFICATION Safety
CONSTANTS
  s1 = s1
  Payments = {p1}
  Scans <- MCScans
  ScanOf <- MCScanOf
  Preview = {}
  Messages = {m1, m2, m3}
  Consumers = {c1, c2}
  NoJob = NoJob
  NoMessage = NoMessage
  MaxAttempts = 2
  MaxRetries = 2
  DlqMaxRetries = 1
  MaxSends = 2
  MaxChunks = 1
  MaxReplays = 2
SYMMETRY Symmetric
INVARIANTS
  TypeOK
  NoSilentLoss
  GiveUpOnlyAfterReplay
  DeliveredMeansMailed
  DeliveredIsComplete
  DuplicatesWereInFlight
CHECK_DEADLOCK FALSE
