CONSTANTS
  alice = alice
  bob = bob
  k1 = k1
  k2 = k2
  food = food
  groceries = groceries
  july = july
  august = august
  t1 = t1
  t2 = t2
  t3 = t3
  h1 = h1
  h2 = h2
  Users = {alice, bob}
  Categories = {food, groceries}
  Periods = {july, august}
  NoCategory = NoCategory
  Malformed = Malformed
  Names <- MCNames
  NoName = NoName
  CategoryName <- MCCategoryName
  Trim <- MCTrim
  Lower <- MCLower
  MaxLimit = 2
  Keys = {k1, k2}
  NoKey = NoKey
  NoRequest = NoRequest
  NoEvent = NoEvent
  NoLock = NoLock
  Tx = {t1, t2}
  Handlers = {h1, h2}
  Requests <- RaceRequests
  Events = {1, 2}
  EventKey <- MCEventKey
  Delta <- MCDelta
  MaxOpenConns = 2
  MaxFailures = 1
SPECIFICATION Spec
SYMMETRY RaceSymmetry
INVARIANTS
  TypeOK
  SameKeySameAnswer
  RetryNeverConflicts
  AnswerIncludesEarlier
  ListShowsProcessed
PROPERTIES
  ImplementsBudgetBook
