SPECIFICATION TransfersSpec
CONSTANTS
  a = a
  b = b
  a1 = a1
  a2 = a2
  b1 = b1
  b2 = b2
  p1 = p1
  p2 = p2
  admin = admin
  clerkB = clerkB
  t1 = t1
  t2 = t2
  t3 = t3
  Absent = Absent
  NoWrite = NoWrite
  NoDoc = NoDoc
  Request = {}
  Tx <- MCTx3
  User <- MCUser
  Receipt <- MCReceipt
  Row <- MCRow
  Outlet <- MCOutlet
  ActsFor <- MCActsFor
  Opening <- MCOpening
  Earlier <- MCEarlier
  Raised <- MCRaised
  Draft <- MCDraft
SYMMETRY MCSymmetry
INVARIANTS StatusFollowsGoods ArrivedWithinShipped NumbersGapless ReceivedNeverOverstated
PROPERTIES LedgerFollowsTransfers
