\* Two relays over two messages, one fault, three attempts a message, batches of two.
SPECIFICATION FairSpec
CONSTANTS
  Messages <- TwoMessages
  Relays = {timer, request}
  Timers = {timer}
  BatchSize = 2
  MaxAttempts = 3
  MaxFaults = 1
INVARIANTS
  ExclusiveClaim
PROPERTIES
  RefinesDelivery
  Settles
CHECK_DEADLOCK FALSE
