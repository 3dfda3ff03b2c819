SPECIFICATION Spec
CONSTANTS
  c1 = c1
  c2 = c2
  c3 = c3
  kA = kA
  kB = kB
  kC = kC
  kNew = kNew
  pen = pen
  shirt = shirt
  vPen = vPen
  vRed = vRed
  red = red
  blue = blue
  small = small
  colour = colour
  size = size
  deal = deal
  newDeal = newDeal
  nPen = nPen
  nRed = nRed
  nRose = nRose
  nSmall = nSmall
  b1 = b1
  b2 = b2
  b3 = b3
  b4 = b4
  Absent = Absent
  Keep = Keep
  Root = Root
  Call <- MCCall3
  Category <- MCCategory
  Parents <- MCParents
  Product <- MCProduct
  Variant <- MCVariant
  Value <- MCValue
  Attribute <- MCAttribute
  Discount <- MCDiscount
  Composed <- MCComposed
  Code <- MCCode
  Products <- MCProducts
  Variants <- MCVariants
  Values <- MCValues
  Discounts <- MCDiscounts
  Request <- MCRequest
SYMMETRY MCSymmetry
INVARIANTS SerialMovesMakeNoCycle CarriedValuesExist ChecksPreventConflicts OrderDiscountsHaveNoTargets
