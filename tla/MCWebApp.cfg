CONSTANTS
  Calls = {1, 2, 3}
  Requests = {}
  NoRequest = NoRequest
  InitialRecords <- MCInitialRecords
  NoData = NoData
  PageNames = {"categories", "budgets", "transactions", "ai"}
  MaxKeys = 5
  MaxVisits = 2
  Contents = {1, 2}
  Names = {1, 2}
  Amounts = {1, 2}
  Texts <- MCTexts
  Trim <- MCTrim
  FirstText <- MCFirstText
SPECIFICATION Spec
CHECK_DEADLOCK FALSE
INVARIANTS
  TypeOK
  OneRecordPerIntent
  KeyNamesOneIntent
  RetryNeverRefused
  ToldIsRecorded
  ShowsWhatItSaved
PROPERTIES
  SubmitsEnd
