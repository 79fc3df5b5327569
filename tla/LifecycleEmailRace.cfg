\* Two event requests at the same time; nothing fails.
SPECIFICATION EmailSpec
CONSTANTS
  Emails = {1}
  Ticks = {t1}
  Requests = {r1, r2}
  MaxAttempts = 2
  Lease = 1
  TickTime = 1
  BatchLimit = 1
  MaxFaults = 0
PROPERTY BounceEvidenceStays
CHECK_DEADLOCK FALSE
