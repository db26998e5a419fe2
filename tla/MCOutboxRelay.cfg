CONSTANTS
  r1 = r1
  r2 = r2
  h1 = h1
  h2 = h2
  Events = {1, 2}
  NumConsumers = 3
  Appends = {3}
  Rows = {1, 2}
  RowOf <- MCRowOf
  Delta <- MCDelta
  Poison <- MCPoison
  Relays = {r1, r2}
  Handlers = {h1, h2}
  BatchSize = 2
  MaxFailures = 1
  Nobody = Nobody
SPECIFICATION FairSpec
INVARIANTS
  TypeOK
  PublishedMeansProcessed
PROPERTIES
  ProjectsExactlyOnce
  DeliverableEventsPublished
