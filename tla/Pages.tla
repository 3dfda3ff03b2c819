------------------------------- MODULE Pages -------------------------------
(***************************************************************************)
(* What the pages of the dashboard show and offer: for every component the *)
(* cache entries it keeps mounted, the mutations its buttons send, and the *)
(* calls it asks outside the cache (pickers, barcode scans).  A page is    *)
(* the set of components a role finds on it.  Layout, texts and the forms' *)
(* own fields are left out.                                                *)
(***************************************************************************)
EXTENDS Hooks

Part(queries, mutations, asks) ==
  [queries |-> queries, mutations |-> mutations, asks |-> asks]

\* What a component shows only to whoever may manage the records.
Only(canManage, things) == IF canManage THEN things ELSE {}

------------------------------------------------------------------------------
(* lib/route-access.ts: who may open a route, and who may write on it.     *)

Route(allowedRoles, writeRoles) == [allowed |-> allowedRoles, write |-> writeRoles]

APP_ROUTES ==
  [dashboard      |-> Route(Managers, {}),
   pos            |-> Route(Staff, Staff),
   orders         |-> Route(Staff, Staff),
   products       |-> Route(Staff, Managers),
   categories     |-> Route(Staff, Managers),
   brands         |-> Route(Managers, Managers),
   customers      |-> Route(Staff, Staff),
   inventory      |-> Route(Staff, Managers),
   suppliers      |-> Route(Managers, Managers),
   purchaseOrders |-> Route(Managers, Managers),
   transfers      |-> Route(Managers, Managers),
   stores         |-> Route(Admins, Admins),
   users          |-> Route(Admins, Admins),
   compensation   |-> Route(Admins, Admins),
   reports        |-> Route(Admins, {}),
   settings       |-> Route(Admins, Admins)]

\* A path outside the table, such as /unsupported-role, is open to every role.
canAccessPath(role, route) ==
  route \in DOMAIN APP_ROUTES => role \in APP_ROUTES[route].allowed

canWriteOnRoute(role, route) ==
  route \in DOMAIN APP_ROUTES /\ role \in APP_ROUTES[route].write

canWrite(role) == role \in Managers

getDefaultRouteForRole(role) ==
  CASE role = "CASHIER"  -> "pos"
    [] role \in Managers -> "dashboard"
    [] OTHER             -> "unsupported-role"

------------------------------------------------------------------------------
(* Tables and forms of the registries.                                     *)

BrandsTable(canManage) == Part({useBrandsQuery}, Only(canManage, {useArchiveBrand}), {})
BrandFormModal         == Part({}, {useCreateBrand, useUpdateBrand}, {})

CategoriesTable(canManage) ==
  Part({useCategoriesQuery}, Only(canManage, {useArchiveCategory}), {})
\* The parent and the tax rate are picked from lists asked for as one types.
fetchCategoryParentOptions == {<<"categories", "findAll">>}
fetchTaxRateOptions        == {<<"taxRates", "findAll">>}
CategoryFormModal ==
  Part({}, {useCreateCategory, useUpdateCategory},
       fetchCategoryParentOptions \union fetchTaxRateOptions)

StoresTable    == Part({useStoresQuery}, {useArchiveStore}, {})
StoreFormModal == Part({}, {useCreateStore, useUpdateStore}, {})

UsersTable        == Part({useUsersQuery}, {}, {})
UserFormModal     == Part({useStoresQuery}, {useCreateUser, useUpdateUser}, {})
UserPasswordModal == Part({}, {useUpdateUser}, {})

fetchAllCustomers == {<<"customers", "findAll">>}
CustomersTable(canManage) ==
  Part({useCustomersQuery}, Only(canManage, {useSetCustomerActive}), {})
\* A phone number that is taken makes the form look its owner up.
CustomerFormModal == Part({}, {useCreateCustomer, useUpdateCustomer}, fetchAllCustomers)

SuppliersTable    == Part({useSuppliersQuery}, {}, {})
SupplierFormModal == Part({}, {useCreateSupplier, useUpdateSupplier}, {})
BarcodeScanInput  == {<<"products", "findByBarcode">>}
VariantLinkModal  ==
  Part({useProductsQuery}, {useAddSupplierProduct, useUpdateSupplierProduct}, BarcodeScanInput)
SupplierProductsPanel == Part({useSupplierProducts}, {useRemoveSupplierProduct}, {})

------------------------------------------------------------------------------
(* Products, stock and the documents that move it.                         *)

ProductsTable(canArchive) ==
  Part({useProductsQuery}, Only(canArchive, {useArchiveProduct}), {})
VariantGenerator == Part({allAttributes}, {useGenerateBarcodes}, {})
VariantFormModal == Part({}, {useAddVariant, useUpdateVariant, useGenerateBarcodes}, {})
VariantsPanel    == Part({}, {useDeactivateVariant}, {})
ProductForm ==
  Part({allAttributes},
       {useCreateProduct, useUpdateProduct, useUpdateVariant, useGenerateBarcodes},
       {<<"categories", "findAll">>, <<"brands", "findAll">>, <<"taxRates", "findAll">>})

ReorderModal           == Part({}, {useSetReorder}, {})
LevelsTable            == Part({useInventoryLevels}, {}, {})
MovementsTable         == Part({useStockMovements}, {}, {})
\* Stores and variants are picked from lists asked for as one types.
fetchStoresAndVariants == {<<"stores", "findAll">>, <<"products", "findAll">>}
ManualAdjustModal ==
  Part({}, {useManualAdjust}, fetchStoresAndVariants \union BarcodeScanInput)
StockCountModal ==
  Part({}, {useRecordCount}, fetchStoresAndVariants \union BarcodeScanInput)

PoTable        == Part({usePoList}, {}, {})
PoForm         ==
  Part({useSuppliersQuery, useStoresQuery, useProductsQuery, useSupplierProducts},
       {useCreatePo}, BarcodeScanInput)
PoReceiveModal == Part({}, {useReceivePo}, {})
PoDetail       == Part({}, {useSubmitPo, useCancelPo}, {})

TransfersTable       == Part({useTransferList}, {}, {})
TransferForm         ==
  Part({useInventoryLevels, useStoresQuery}, {useCreateTransfer},
       {<<"inventory", "listLevels">>} \union BarcodeScanInput)
TransferReceiveModal == Part({}, {useReceiveTransfer}, {})
TransferDetail       == Part({}, {useShipTransfer, useCancelTransfer}, {})

------------------------------------------------------------------------------
(* Sales, settings, compensation and reports.                              *)

OrdersTable     == Part({useOrdersQuery}, {}, {})
OrderDetailView == Part({useOrderQuery, useOrderReturnSummaryQuery, orderAdjustments}, {}, {})
OrderAdjustForm ==
  Part({useOrderReturnSummaryQuery, usePosProductSearch, useCategoriesQuery, useDiscountsList},
       {useAdjustOrderSale}, BarcodeScanInput)
ReceiptPrint      == Part({useOrderQuery}, {}, {})
AdjustmentReceipt == Part({useAdjustmentQuery}, {}, {})

CartPanel == Part({}, {}, BarcodeScanInput \union fetchAllCustomers)
Terminal  ==
  Part({usePosProductSearch, useCategoriesQuery, useDiscountsList, useSalespeople},
       {useCheckout}, {})
DashboardMetrics == Part({useDashboardStatsQuery}, {}, {})

TaxRatesTab      == Part({useTaxRatesList}, {useCreateTaxRate, useUpdateTaxRate, useArchiveTaxRate}, {})
DiscountsTab     ==
  Part({useDiscountsList}, {useCreateDiscount, useUpdateDiscount, useArchiveDiscount},
       {<<"products", "findAll">>} \union BarcodeScanInput)
AttributesTab    ==
  Part({useAttributesList},
       {useCreateAttribute, useUpdateAttribute, useDeleteAttribute, useReorderAttributes,
        useAddAttributeValue, useUpdateAttributeValue, useDeleteAttributeValue,
        useReorderAttributeValues}, {})
RestockAlertsTab == Part({useCategoriesQuery}, {}, fetchCategoryParentOptions)

CompensationSummary      == Part({useCompensationSummaryQuery, useStoresQuery}, {}, {})
PayoutsTable             == Part({}, {useUpdatePayout}, {})
PayoutDetailDrawer       == Part({}, {useUpdatePayout}, {})
EmployeeCompensationView == Part({useEmployeeCompensationQuery}, {useCreatePayout}, {})
ReportsView              == Part({useReportQuery}, {}, useReportQuery.calls)

------------------------------------------------------------------------------
(* The pages, by route, as a role finds them.                              *)

ProductsPage(role) ==
  {ProductsTable(canWrite(role)), Part({useCategoriesQuery, useBrandsQuery}, {}, {})}
Unguarded(role, route, form)  == form
\* WriteGuard renders the form only for who may write on the route.
WriteGuard(role, route, form) == Only(canWriteOnRoute(role, route), form)
NewProductPage(role)  ==
  WriteGuard(role, "products", {ProductForm})
EditProductPage(role) ==
  {Part({useProductQuery}, {}, {})} \union
  WriteGuard(role, "products", {ProductForm, VariantsPanel, VariantFormModal, VariantGenerator})

CategoriesPage(role) ==
  {CategoriesTable(canWrite(role))} \union Only(canWrite(role), {CategoryFormModal})
BrandsPage(role) ==
  LET canManage == canWriteOnRoute(role, "brands") IN
  {BrandsTable(canManage)} \union Only(canManage, {BrandFormModal})
CustomersPage(role) ==
  LET canManage == canWriteOnRoute(role, "customers") IN
  {CustomersTable(canManage)} \union Only(canManage, {CustomerFormModal})
SuppliersPage(role) ==
  {SuppliersTable, SupplierProductsPanel, VariantLinkModal}
    \union Only(canWriteOnRoute(role, "suppliers"), {SupplierFormModal})
StoresPage == {StoresTable, StoreFormModal}
UsersPage  == {UsersTable, UserFormModal, UserPasswordModal}

\* One tab at a time; the two dialogs are opened by who may write.
InventoryDialogs(role) ==
  Only(canWriteOnRoute(role, "inventory"), {ManualAdjustModal, StockCountModal})
InventoryLevelsTab(role) ==
  {LevelsTable} \union Only(canWriteOnRoute(role, "inventory"), {ReorderModal})
    \union InventoryDialogs(role)
InventoryMovementsTab(role) == {MovementsTable} \union InventoryDialogs(role)

PurchaseOrdersPage == {PoTable}
NewPoPage          == {PoForm}
PoPage             == {Part({usePoById}, {}, {}), PoDetail, PoReceiveModal}
TransfersPage      == {TransfersTable}
NewTransferPage    == {TransferForm}
TransferPage       == {Part({useTransferById}, {}, {}), TransferDetail, TransferReceiveModal}

DashboardPage         == {DashboardMetrics}
POSPage               == {Terminal, CartPanel, CustomerFormModal}
OrdersPage            == {OrdersTable}
OrderPage             == {OrderDetailView}
AdjustPage            == {OrderAdjustForm}
ReceiptPage           == {ReceiptPrint}
AdjustmentReceiptPage == {AdjustmentReceipt}

CompensationPage         == {CompensationSummary}
EmployeeCompensationPage == {EmployeeCompensationView, PayoutsTable, PayoutDetailDrawer}
ReportsPage              == {ReportsView}
\* The settings page shows one of its tabs at a time.

Screen(route, parts) == [route |-> route, parts |-> parts]

Screens(role) ==
  [products              |-> Screen("products", ProductsPage(role)),
   newProduct            |-> Screen("products", NewProductPage(role)),
   editProduct           |-> Screen("products", EditProductPage(role)),
   categories            |-> Screen("categories", CategoriesPage(role)),
   brands                |-> Screen("brands", BrandsPage(role)),
   customers             |-> Screen("customers", CustomersPage(role)),
   suppliers             |-> Screen("suppliers", SuppliersPage(role)),
   stores                |-> Screen("stores", StoresPage),
   users                 |-> Screen("users", UsersPage),
   inventoryLevels       |-> Screen("inventory", InventoryLevelsTab(role)),
   inventoryMovements    |-> Screen("inventory", InventoryMovementsTab(role)),
   purchaseOrders        |-> Screen("purchaseOrders", PurchaseOrdersPage),
   newPurchaseOrder      |-> Screen("purchaseOrders", NewPoPage),
   purchaseOrder         |-> Screen("purchaseOrders", PoPage),
   transfers             |-> Screen("transfers", TransfersPage),
   newTransfer           |-> Screen("transfers", NewTransferPage),
   transfer              |-> Screen("transfers", TransferPage),
   dashboard             |-> Screen("dashboard", DashboardPage),
   pos                   |-> Screen("pos", POSPage),
   orders                |-> Screen("orders", OrdersPage),
   order                 |-> Screen("orders", OrderPage),
   adjust                |-> Screen("orders", AdjustPage),
   receipt               |-> Screen("orders", ReceiptPage),
   adjustmentReceipt     |-> Screen("orders", AdjustmentReceiptPage),
   compensation          |-> Screen("compensation", CompensationPage),
   employeeCompensation  |-> Screen("compensation", EmployeeCompensationPage),
   reports               |-> Screen("reports", ReportsPage),
   taxRates              |-> Screen("settings", {TaxRatesTab}),
   discounts             |-> Screen("settings", {DiscountsTab}),
   attributes            |-> Screen("settings", {AttributesTab}),
   restockAlerts         |-> Screen("settings", {RestockAlertsTab}),
   unsupportedRole       |-> Screen("unsupported-role", {})]

Queries(screen)   == UNION {part.queries : part \in screen.parts}
Mutations(screen) == UNION {part.mutations : part \in screen.parts}

\* Every call the screen can send.
Calls(screen) ==
  UNION {query.calls : query \in Queries(screen)}
    \union {mutation.call : mutation \in Mutations(screen)}
    \union UNION {part.asks : part \in screen.parts}
==============================================================================
