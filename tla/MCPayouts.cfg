SPECIFICATION PayoutsSpec
CONSTANTS
  ann = ann
  bob = bob
  o1 = o1
  o2 = o2
  c1 = c1
  c2 = c2
  c3 = c3
  Unset = Unset
  MaxAmount = 60
  MaxTotal = 15
  Call <- MCCall
  Employee <- MCEmployee
  Hired <- MCHired
  UserChange <- MCUserChange
  Order <- MCOrder
  Sold <- MCSold
  Amendment <- MCAmendment
  Snapshot <- MCSnapshot
  Edit <- MCEdit
SYMMETRY MCSymmetry
INVARIANTS TotalAddsUp OneActivePayout
 
