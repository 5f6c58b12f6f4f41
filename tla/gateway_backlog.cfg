SPECIFICATION Spec
CONSTANTS
  Client = {c1}
  MaxEvents = 4
  QueueLimit = 9
INVARIANT QueueBounded
CHECK_DEADLOCK FALSE
