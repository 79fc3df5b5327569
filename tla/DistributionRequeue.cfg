SPECIFICATION PublishSpec
CONSTANTS
  Jobs = {j1}
  Consumers = {c1}
  Operators = {}
  Messages = {m1}
  Direct = direct
  MaxAttempts = 4
  Deliveries = 4
  DeadDeliveries = 2
  MaxFaults = 0
  MaxRequeues = 1
PROPERTIES
  LinkedInFailsClosed
CHECK_DEADLOCK FALSE
