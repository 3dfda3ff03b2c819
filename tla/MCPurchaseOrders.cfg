SPECIFICATION FairPurchaseSpec
CONSTANTS
  a = a
  b = b
  a1 = a1
  a2 = a2
  b1 = b1
  v1 = v1
  v2 = v2
  p1 = p1
  p2 = p2
  admin = admin
  clerkB = clerkB
  t1 = t1
  t2 = t2
  Absent = Absent
  NoWrite = NoWrite
  NoDoc = NoDoc
  Request = {}
  Tx <- MCTx2
  User <- MCUser
  Receipt <- MCReceipt
  Row <- MCRow
  Outlet <- MCOutlet
  ActsFor <- MCActsFor
  Opening <- MCOpening
  Earlier <- MCEarlier
  Raised <- MCRaised
  Draft <- MCDraft
  Variant <- MCVariant
  VariantOf <- MCVariantOf
  FirstCost <- MCFirstCost
INVARIANTS StatusFollowsReceipts CostWithinPrices
PROPERTIES ReceiptAddsItsValue PurchasesEnd
