SPECIFICATION PublishSpec
CONSTANTS
  Jobs = {j1}
  Consumers = {c1}
  Operators = {o1}
  Messages = {m1}
  Direct = direct
  MaxAttempts = 2
  Deliveries = 2
  DeadDeliveries = 2
  MaxFaults = 2
  MaxRequeues = 1
INVARIANTS
  PublishTypeOK
  RetriesAreBounded
  PublishedIsEvidenced
  
CHECK_DEADLOCK FALSE
PROPERTIES
  JobComesToAnEnd
