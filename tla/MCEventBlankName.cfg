CONSTANTS
  MaxEntries = 1
  Amounts = {1}
  Years = {2026}
  CategoryNames = {food, nbsp}
  UnicodeBlank = {nbsp}
  NoCategory = NoCategory
  NoEntry = NoEntry
  MaxSafeInteger = 2
  FirstVersion = 1
SPECIFICATION Spec
CHECK_DEADLOCK FALSE
INVARIANTS
  ConformingEventsAccepted
