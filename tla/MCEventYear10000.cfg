CONSTANTS
  MaxEntries = 1
  Amounts = {1}
  Years = {9999, 10000}
  CategoryNames = {food}
  UnicodeBlank = {}
  NoCategory = NoCategory
  NoEntry = NoEntry
  MaxSafeInteger = 2
  FirstVersion = 1
SPECIFICATION Spec
CHECK_DEADLOCK FALSE
INVARIANTS
  YearMonthMatchesSchema
