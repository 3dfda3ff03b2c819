SPECIFICATION ReportsSpec
CONSTANTS
  shop = shop
  rowA = rowA
  rowB = rowB
  d1 = d1
  p1 = p1
  t1 = t1
  t2 = t2
  Absent = Absent
  Cent = 10
  NoWrite = NoWrite
  NoOrder = NoOrder
  NoStore = NoStore
  Request = {}
  NewCost = {230}
  Tx <- MCTx
  Row <- MCRow
  Opening <- MCOpening
  Store <- MCStore
  Past <- MCPast
  Placed <- MCPlaced
  Discount <- MCDiscount
  Sale <- MCSale
  Adjustment <- MCAdjustment
  Voidable <- MCVoidable
  Variant <- MCVariant
  Offer <- MCOffer
  OrderColumns <- MCOrderColumns
  AdjustColumns <- MCAdjustColumns
  OpeningCost <- MCOpeningCost
  PastCost <- MCPastCost
SYMMETRY MCSymmetry
INVARIANTS BreakdownsReconcile
PROPERTIES CostBalancesStock
