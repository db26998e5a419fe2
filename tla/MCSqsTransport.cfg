CONSTANTS
  m1 = m1
  m2 = m2
  r1 = r1
  w1 = w1
  w2 = w2
  w3 = w3
  Events = {1, 2}
  NumConsumers = 2
  Poison <- MCPoison
  Relays = {r1}
  Workers = {w1, w2, w3}
  ConsumerOf <- MCConsumerOf
  BatchSize = 2
  MaxNumberOfMessages = 2
  MaxReceiveCount = 2
  Messages = {m1, m2}
  MaxFailures = 1
  NoTicket = NoTicket
SPECIFICATION FairSpec
CHECK_DEADLOCK FALSE
INVARIANTS
  NothingIsLost
  DeadLettersFailed
PROPERTIES
  ComesToRest
