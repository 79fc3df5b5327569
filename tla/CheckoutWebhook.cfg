\* Two purchases of one audit; the attempts outnumber the failures.
SPECIFICATION WebhookSpec
CONSTANTS
  Sessions = {p1, p2}
  Requests = {r1, r2}
  NewConfig = NewConfig
  EmptyConfig = EmptyConfig
  NoSession = NoSession
  MaxDeliveries = 2
  MaxReconciles = 1
  MaxFailures = 1
INVARIANTS
  WebhookTypeOK
  AcknowledgedIsHandled
PROPERTIES
  PaidIsAcknowledged
CHECK_DEADLOCK FALSE
