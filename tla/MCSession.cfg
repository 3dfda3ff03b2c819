SPECIFICATION FairSessionSpec
CONSTANTS
  b1 = b1
  b2 = b2
  r1 = r1
  r2 = r2
  r3 = r3
  None = None
  MaxChanges = 1
  Tab <- MCTab
  Request <- MCRequest
  TabOf <- MCTabOf
INVARIANTS WaitersHaveARefresh SignedOutStaysOut
PROPERTIES RequestsSettle
