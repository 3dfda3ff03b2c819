SPECIFICATION TillSpec
CONSTANTS
  tea = tea
  pen = pen
  teaDeal = teaDeal
  shopDeal = shopDeal
  clubDeal = clubDeal
  NoRate = NoRate
  NoCheckout = NoCheckout
  NotGiven = NotGiven
  Item <- MCItem
  Price <- MCPrice
  ProductTax <- MCProductTax
  CategoryTax <- MCCategoryTax
  Catalog <- MCCatalog
  Custom <- MCCustom
  CustomOrder <- MCCustomOrder
  Tendered = {500}
  MaxUnits = 3
  MaxClicks = 2
  MaxLosses = 1
INVARIANTS DisplayedTotalIsCharged EveryUnitAccounted
