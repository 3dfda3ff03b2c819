SPECIFICATION OrdersSpec
CONSTANTS
  shop = shop
  branch = branch
  rowA = rowA
  rowB = rowB
  rowC = rowC
  d1 = d1
  p1 = p1
  t1 = t1
  t2 = t2
  t3 = t3
  Absent = Absent
  Cent = 10
  NoWrite = NoWrite
  NoOrder = NoOrder
  NoStore = NoStore
  Request = {}
  Tx <- MCTx2
  Row <- MCRow
  Opening <- MCOpening
  Store <- MCStore
  Past <- MCPast
  Placed <- MCPlaced
  Discount <- MCDiscount
  Sale <- MCSale
  Adjustment <- MCRepeated
  Voidable <- MCVoidable
INVARIANTS ReturnsWithinSold
