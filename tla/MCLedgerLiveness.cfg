CONSTANTS
  t1 = t1
  t2 = t2
  t3 = t3
  alice = alice
  bob = bob
  k1 = k1
  k2 = k2
  k3 = k3
  food = food
  salary = salary
  legacy = legacy
  Tx = {t1, t2, t3}
  Users = {alice, bob}
  Keys = {k1, k2}
  Accounts <- MCAccounts
  Owner <- MCOwner
  Currency <- MCCurrency
  Categories = {food, salary}
  CategoryOwner <- MCCategoryOwner
  CategoryKind <- MCCategoryKind
  NoAccount = NoAccount
  NoCategory = NoCategory
  NoEntry = NoEntry
  NoRequest = NoRequest
  MinBalance <- MCMinBalance
  MaxBalance = 2
  Now = 2026
  Requests <- LivenessRequests
  LegacyRecords <- NoLegacyRecords
  PoolSize = 2
SPECIFICATION FairSpec
PROPERTIES
  EveryCallEnds
