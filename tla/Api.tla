-------------------------------- MODULE Api --------------------------------
(***************************************************************************)
(* The HTTP interface of the back end as the pages meet it: which roles a  *)
(* handler admits, which tables its answer depends on and which tables it  *)
(* changes.  One definition per controller; what the services query and   *)
(* write is given by the tables, rows being left out.  A call is a pair    *)
(* <<controller, handler>>.                                                *)
(***************************************************************************)
EXTENDS FiniteSets

Admins   == {"ADMIN"}
Managers == {"ADMIN", "MANAGER"}
Staff    == {"ADMIN", "MANAGER", "CASHIER"}
AnyRole  == {"ADMIN", "MANAGER", "CASHIER", "EMPLOYEE"}

Get(roles, tables)    == [roles |-> roles, reads |-> tables, writes |-> {}]
Change(roles, tables) == [roles |-> roles, reads |-> {}, writes |-> tables]

------------------------------------------------------------------------------
(* What the services join into their answers.                              *)

CategoryTables   == {"category", "taxRate"}
ProductTables    == {"product", "variant", "category", "brand", "taxRate", "attribute"}
VariantTables    == {"variant", "product"}
SupplierItems    == {"supplier", "supplierProduct"} \union VariantTables
DiscountTables   == {"discount"} \union VariantTables
LevelTables      == {"level", "store"} \union VariantTables
MovementTables   == {"movement", "store", "user"} \union VariantTables
OrderTables      == {"order", "customer", "user", "store"} \union VariantTables
AdjustmentTables == {"adjustment", "order", "customer", "user", "store", "variant"}
PoTables         == {"po", "supplier", "store", "user"} \union VariantTables
TransferTables   == {"transfer", "store", "user"} \union VariantTables
PayoutTables     == {"payout", "user"}
EarningsTables   == {"user", "store", "order", "adjustment"}

------------------------------------------------------------------------------
(* The controllers.                                                        *)

AttributesController ==
  [findAll       |-> Get(AnyRole, {"attribute"}),
   findOne       |-> Get(AnyRole, {"attribute"}),
   create        |-> Change(Admins, {"attribute"}),
   update        |-> Change(Admins, {"attribute"}),
   remove        |-> Change(Admins, {"attribute"}),
   reorder       |-> Change(Admins, {"attribute"}),
   addValue      |-> Change(Admins, {"attribute"}),
   updateValue   |-> Change(Admins, {"attribute"}),
   removeValue   |-> Change(Admins, {"attribute"}),
   reorderValues |-> Change(Admins, {"attribute"})]

BrandsController ==
  [findAll |-> Get(Staff, {"brand"}),
   findOne |-> Get(Staff, {"brand"}),
   create  |-> Change(Managers, {"brand"}),
   update  |-> Change(Managers, {"brand"}),
   archive |-> Change(Managers, {"brand"}),
   deactivate |-> Change(Managers, {"brand"})]

CategoriesController ==
  [findAll |-> Get(Staff, CategoryTables),
   tree    |-> Get(Staff, CategoryTables),
   findOne |-> Get(Staff, CategoryTables),
   create  |-> Change(Managers, {"category"}),
   update  |-> Change(Managers, {"category"}),
   archive |-> Change(Managers, {"category"})]

CompensationController ==
  [getSummary           |-> Get(Admins, EarningsTables),
   getEmployeeBreakdown |-> Get(Admins, EarningsTables \union PayoutTables),
   listPayouts          |-> Get(Admins, PayoutTables),
   getPayout            |-> Get(Admins, PayoutTables),
   createPayout         |-> Change(Admins, {"payout"}),
   updatePayout         |-> Change(Admins, {"payout"})]

CustomersController ==
  [findAll |-> Get(Staff, {"customer"}),
   lookup  |-> Get(Staff, {"customer"}),
   findOne |-> Get(Staff, {"customer"}),
   create  |-> Change(Staff, {"customer"}),
   update  |-> Change(Staff, {"customer"})]

DiscountsController ==
  [findAll  |-> Get(Staff, DiscountTables),
   findOne  |-> Get(Staff, DiscountTables),
   validate |-> Get(Staff, DiscountTables),
   create   |-> Change(Admins, {"discount"}),
   update   |-> Change(Admins, {"discount"}),
   patch    |-> Change(Admins, {"discount"})]

InventoryController ==
  [listLevels    |-> Get(Staff, LevelTables),
   getLevel      |-> Get(Staff, LevelTables \ {"store"}),
   listMovements |-> Get(Staff, MovementTables),
   getMovement   |-> Get(Staff, MovementTables),
   setReorder    |-> Change(Managers, {"level"}),
   adjust        |-> Change(Managers, {"level", "movement"}),
   count         |-> Change(Managers, {"level", "movement"})]

OrdersController ==
  [findAll          |-> Get(Staff, OrderTables),
   findOne          |-> Get(Staff, OrderTables),
   receipt          |-> Get(Staff, OrderTables),
   stats            |-> Get(Staff, {"order"}),
   returnSummary    |-> Get(Staff, OrderTables \union {"adjustment"}),
   listAdjustments  |-> Get(Staff, AdjustmentTables),
   findAdjustment   |-> Get(Staff, AdjustmentTables),
   create           |-> Change(Staff, {"order", "store", "discount", "level", "movement"}),
   createAdjustment |-> Change(Staff, {"adjustment", "order", "discount", "level", "movement"}),
   voidOrder        |-> Change(Managers, {"order", "level", "movement"})]

ProductsController ==
  [findAll           |-> Get(Staff, ProductTables),
   findOne           |-> Get(Staff, ProductTables),
   findByBarcode     |-> Get(Staff, ProductTables),
   generateBarcodes  |-> Get(Managers, {}),
   create            |-> Change(Managers, VariantTables),
   update            |-> Change(Managers, VariantTables),
   archive           |-> Change(Managers, {"product"}),
   archiveDelete     |-> Change(Managers, {"product"}),
   addVariant        |-> Change(Managers, {"variant"}),
   updateVariant     |-> Change(Managers, {"variant"}),
   deactivateVariant |-> Change(Managers, {"variant"})]

PurchaseOrdersController ==
  [findAll |-> Get(Managers, PoTables),
   findOne |-> Get(Managers, PoTables),
   create  |-> Change(Managers, {"po"}),
   submit  |-> Change(Managers, {"po"}),
   cancel  |-> Change(Managers, {"po"}),
   receive |-> Change(Managers, {"po", "variant", "level", "movement"})]

ReportsController ==
  LET sales == {"order", "adjustment"} IN
  [summary       |-> Get(Admins, sales),
   salesCount    |-> Get(Admins, sales),
   productSales  |-> Get(Admins, sales \union {"product"}),
   categorySales |-> Get(Admins, sales \union {"product", "category"}),
   supplierSales |-> Get(Admins, sales \union {"supplierProduct", "supplier"}),
   currentStock  |-> Get(Admins, LevelTables \union SupplierItems),
   storeSales    |-> Get(Admins, sales \union {"store"}),
   userSales     |-> Get(Admins, sales \union {"user"}),
   taxBreakdown  |-> Get(Admins, sales)]

StoresController ==
  [findAll |-> Get(Managers, {"store"}),
   findOne |-> Get(Managers, {"store"}),
   create  |-> Change(Admins, {"store"}),
   update  |-> Change(Admins, {"store"}),
   archive |-> Change(Admins, {"store"})]

SuppliersController ==
  [findAll       |-> Get(Managers, {"supplier"}),
   findOne       |-> Get(Managers, SupplierItems),
   listProducts  |-> Get(Managers, SupplierItems),
   create        |-> Change(Managers, {"supplier"}),
   update        |-> Change(Managers, {"supplier"}),
   addProduct    |-> Change(Managers, {"supplierProduct"}),
   updateProduct |-> Change(Managers, {"supplierProduct"}),
   removeProduct |-> Change(Managers, {"supplierProduct"})]

TaxRatesController ==
  [findAll |-> Get(Staff, {"taxRate"}),
   findOne |-> Get(Staff, {"taxRate"}),
   create  |-> Change(Admins, {"taxRate"}),
   update  |-> Change(Admins, {"taxRate"}),
   patch   |-> Change(Admins, {"taxRate"})]

TransfersController ==
  [findAll |-> Get(Managers, TransferTables),
   findOne |-> Get(Managers, TransferTables),
   create  |-> Change(Managers, {"transfer"}),
   ship    |-> Change(Managers, {"transfer", "level", "movement"}),
   receive |-> Change(Managers, {"transfer", "level", "movement"}),
   cancel  |-> Change(Managers, {"transfer"})]

UsersController ==
  [findAll         |-> Get(Admins, {"user", "store"}),
   findOne         |-> Get(Admins, {"user", "store"}),
   findMe          |-> Get(AnyRole, {"user", "store"}),
   listSalespeople |-> Get(Staff, {"user"}),
   updateMe        |-> Change(AnyRole, {"user"}),
   create          |-> Change(Admins, {"user"}),
   update          |-> Change(Admins, {"user"}),
   deactivate      |-> Change(Admins, {"user"})]

Controllers ==
  [attributes |-> AttributesController, brands |-> BrandsController,
   categories |-> CategoriesController, compensation |-> CompensationController,
   customers |-> CustomersController, discounts |-> DiscountsController,
   inventory |-> InventoryController, orders |-> OrdersController,
   products |-> ProductsController, purchaseOrders |-> PurchaseOrdersController,
   reports |-> ReportsController, stores |-> StoresController,
   suppliers |-> SuppliersController, taxRates |-> TaxRatesController,
   transfers |-> TransfersController, users |-> UsersController]

------------------------------------------------------------------------------
\* There is a handler at the path and method of the call.
Routed(call) == /\ call[1] \in DOMAIN Controllers
                /\ call[2] \in DOMAIN Controllers[call[1]]

Handler(call) == Controllers[call[1]][call[2]]

\* JwtAuthGuard has found a user; RolesGuard compares the user's role.
Admitted(role, call) == Routed(call) /\ role \in Handler(call).roles

Reads(call)  == IF Routed(call) THEN Handler(call).reads ELSE {}
Writes(call) == IF Routed(call) THEN Handler(call).writes ELSE {}
==============================================================================
