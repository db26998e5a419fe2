CONSTANTS
  MaxEntries = 3
  Amounts = {1}
  Years = {2025, 2026}
  CategoryNames = {food}
  UnicodeBlank = {}
  NoCategory = NoCategory
  NoEntry = NoEntry
  MaxSafeInteger = 2
  FirstVersion = 0
SPECIFICATION Spec
CHECK_DEADLOCK FALSE
INVARIANTS
  TypeOK
  AllConsumersAccept
  SettledTotals
  SettledSpend
