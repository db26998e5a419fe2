CONSTANTS
  Calls = {1, 2, 3}
  Requests <- MCRequests
  NoRequest = NoRequest
  InitialRecords = {}
  Tabs <- MCTabs
  TabOf <- MCTabOf
  NoSignIn = NoSignIn
  Asked = Asked
  RequestsOf <- MCRequestsOf
  MaxExpiries = 2
SPECIFICATION Spec
INVARIANTS
  TypeOK
  OneExpiryIsHidden
PROPERTIES
  ImplementsApiCalls
  CallsEnd
