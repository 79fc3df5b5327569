\* Two deliveries of one event at the same time; nothing fails.
SPECIFICATION WebhookSafety
CONSTANTS
  Sessions = {p1}
  Requests = {r1, r2}
  NewConfig = NewConfig
  EmptyConfig = EmptyConfig
  NoSession = NoSession
  MaxDeliveries = 2
  MaxReconciles = 1
  MaxFailures = 0
INVARIANT RunKeepsPageLimit
CHECK_DEADLOCK FALSE
