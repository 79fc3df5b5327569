\* Two sweeps and one event request over one email; one call may fail.
SPECIFICATION EmailSpec
CONSTANTS
  Emails = {1}
  Ticks = {t1, t2}
  Requests = {r1}
  MaxAttempts = 2
  Lease = 1
  TickTime = 1
  BatchLimit = 1
  MaxFaults = 1
INVARIANTS
  EmailTypeOK
  ClaimsAreLeased
  GivenUpAfterAllAttempts
  SuppressedIsNotMailed
  BounceSuppresses
PROPERTIES
  EmailSettles
CHECK_DEADLOCK FALSE
