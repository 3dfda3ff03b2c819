SPECIFICATION InventorySpec
CONSTANTS
  r1 = r1
  r2 = r2
  t1 = t1
  t2 = t2
  Absent = Absent
  NoWrite = NoWrite
  Tx <- MCTx
  Row <- MCRow
  Opening <- MCOpening
  Request <- MCRequest
INVARIANTS LevelIsSumOfMovements
