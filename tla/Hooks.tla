------------------------------- MODULE Hooks -------------------------------
(***************************************************************************)
(* The React Query hooks of the front end.  A query hook reads one cache   *)
(* entry, under a key, by sending GET calls; a mutation hook sends a call  *)
(* that changes something and, when it is answered, invalidates the keys   *)
(* it tells: every entry whose key begins with one of them.  Page numbers, *)
(* filters and ids are left out of the keys.                               *)
(***************************************************************************)
EXTENDS Sequences, SequencesExt, Api

Query(key, calls)     == [key |-> key, calls |-> calls]
Mutation(call, tells) == [call |-> call, tells |-> tells]

\* invalidateQueries matches keys by prefix.
Told(tells, key) == \E told \in tells : IsPrefix(told, key)

------------------------------------------------------------------------------
(* Brands, categories, stores, customers and users.                        *)

useBrandsQuery   == Query(<<"brands", "list">>, {<<"brands", "findAll">>})
useCreateBrand   == Mutation(<<"brands", "create">>, {<<"brands">>})
useUpdateBrand   == Mutation(<<"brands", "update">>, {<<"brands">>, <<"brands", "detail">>})
useArchiveBrand  == Mutation(<<"brands", "archive">>, {<<"brands">>})

useCategoriesQuery == Query(<<"categories", "list">>, {<<"categories", "findAll">>})
useCreateCategory  == Mutation(<<"categories", "create">>, {<<"categories">>})
useUpdateCategory  ==
  Mutation(<<"categories", "update">>, {<<"categories">>, <<"categories", "detail">>})
useArchiveCategory == Mutation(<<"categories", "archive">>, {<<"categories">>})

useStoresQuery  == Query(<<"stores", "list">>, {<<"stores", "findAll">>})
useCreateStore  == Mutation(<<"stores", "create">>, {<<"stores">>})
useUpdateStore  == Mutation(<<"stores", "update">>, {<<"stores">>, <<"stores", "detail">>})
useArchiveStore == Mutation(<<"stores", "archive">>, {<<"stores">>})

useCustomersQuery    == Query(<<"customers", "list">>, {<<"customers", "findAll">>})
useCreateCustomer    == Mutation(<<"customers", "create">>, {<<"customers">>})
useUpdateCustomer    ==
  Mutation(<<"customers", "update">>, {<<"customers">>, <<"customers", "detail">>})
useSetCustomerActive == Mutation(<<"customers", "update">>, {<<"customers">>})

useUsersQuery  == Query(<<"users", "list">>, {<<"users", "findAll">>})
useCreateUser  == Mutation(<<"users", "create">>, {<<"users">>})
useUpdateUser  == Mutation(<<"users", "update">>, {<<"users">>, <<"users", "detail">>})

------------------------------------------------------------------------------
(* Products and suppliers.                                                 *)

useProductsQuery     == Query(<<"products", "list">>, {<<"products", "findAll">>})
usePosProductSearch  == Query(<<"products", "list">>, {<<"products", "findAll">>})
useProductQuery      == Query(<<"products", "detail">>, {<<"products", "findOne">>})
useCreateProduct     == Mutation(<<"products", "create">>, {<<"products">>})
useUpdateProduct     ==
  Mutation(<<"products", "update">>, {<<"products">>, <<"products", "detail">>})
useArchiveProduct    == Mutation(<<"products", "archive">>, {<<"products">>})
useAddVariant        ==
  Mutation(<<"products", "addVariant">>, {<<"products", "detail">>, <<"products">>})
useUpdateVariant     ==
  Mutation(<<"products", "updateVariant">>, {<<"products", "detail">>, <<"products">>})
useDeactivateVariant ==
  Mutation(<<"products", "deactivateVariant">>, {<<"products", "detail">>, <<"products">>})
useGenerateBarcodes  == Mutation(<<"products", "generateBarcodes">>, {})

useSuppliersQuery        == Query(<<"suppliers", "list">>, {<<"suppliers", "findAll">>})
useSupplierProducts      == Query(<<"suppliers", "products">>, {<<"suppliers", "listProducts">>})
useCreateSupplier        == Mutation(<<"suppliers", "create">>, {<<"suppliers">>})
useUpdateSupplier        ==
  Mutation(<<"suppliers", "update">>, {<<"suppliers">>, <<"suppliers", "detail">>})
useAddSupplierProduct    ==
  Mutation(<<"suppliers", "addProduct">>, {<<"suppliers", "products">>})
useUpdateSupplierProduct ==
  Mutation(<<"suppliers", "updateProduct">>, {<<"suppliers", "products">>})
useRemoveSupplierProduct ==
  Mutation(<<"suppliers", "removeProduct">>, {<<"suppliers", "products">>})

------------------------------------------------------------------------------
(* Inventory, purchase orders, transfers.                                  *)

useInventoryLevels == Query(<<"inventory", "levels">>, {<<"inventory", "listLevels">>})
useStockMovements  == Query(<<"inventory", "movements">>, {<<"inventory", "listMovements">>})
useManualAdjust    == Mutation(<<"inventory", "adjust">>, {<<"inventory">>})
useRecordCount     == Mutation(<<"inventory", "count">>, {<<"inventory">>})
useSetReorder      ==
  Mutation(<<"inventory", "setReorder">>, {<<"inventory">>, <<"dashboard", "stats">>})

usePoList   == Query(<<"purchase-orders", "list">>, {<<"purchaseOrders", "findAll">>})
usePoById   == Query(<<"purchase-orders", "detail">>, {<<"purchaseOrders", "findOne">>})
PoKeys      == {<<"purchase-orders">>, <<"purchase-orders", "detail">>}
useCreatePo == Mutation(<<"purchaseOrders", "create">>, {<<"purchase-orders">>})
useSubmitPo == Mutation(<<"purchaseOrders", "submit">>, PoKeys)
useCancelPo == Mutation(<<"purchaseOrders", "cancel">>, PoKeys)
useReceivePo == Mutation(<<"purchaseOrders", "receive">>, PoKeys)

useTransferList    == Query(<<"transfers", "list">>, {<<"transfers", "findAll">>})
useTransferById    == Query(<<"transfers", "detail">>, {<<"transfers", "findOne">>})
TransferListKeys   == {<<"transfers", "list">>}
TransferKeys       == {<<"transfers">>, <<"transfers", "detail">>}
useCreateTransfer  == Mutation(<<"transfers", "create">>, {<<"transfers">>})
useShipTransfer    == Mutation(<<"transfers", "ship">>, TransferKeys)
useCancelTransfer  == Mutation(<<"transfers", "cancel">>, TransferKeys)
useReceiveTransfer == Mutation(<<"transfers", "receive">>, TransferKeys)

------------------------------------------------------------------------------
(* Sales.                                                                  *)

useOrdersQuery             == Query(<<"orders", "list">>, {<<"orders", "findAll">>})
useOrderQuery              == Query(<<"orders", "detail">>, {<<"orders", "findOne">>})
useOrderReturnSummaryQuery == Query(<<"orders", "return-summary">>, {<<"orders", "returnSummary">>})
useAdjustmentQuery         == Query(<<"orders", "adjustment">>, {<<"orders", "findAdjustment">>})
\* OrderDetailView keeps the list of adjustments under a key of its own.
orderAdjustments           == Query(<<"orders", "adjustments">>, {<<"orders", "listAdjustments">>})
useCheckout                == Mutation(<<"orders", "create">>, {<<"orders">>})
useAdjustOrderSale         ==
  Mutation(<<"orders", "createAdjustment">>,
           {<<"orders">>, <<"orders", "detail">>, <<"orders", "return-summary">>})
useSalespeople             == Query(<<"salespeople">>, {<<"users", "listSalespeople">>})
useDashboardStatsQuery     ==
  Query(<<"dashboard", "stats">>,
        {<<"orders", "stats">>, <<"orders", "findAll">>,
         <<"products", "findAll">>, <<"inventory", "listLevels">>})

------------------------------------------------------------------------------
(* Settings, compensation and reports.                                     *)

useTaxRatesList   == Query(<<"tax-rates", "list">>, {<<"taxRates", "findAll">>})
useCreateTaxRate  == Mutation(<<"taxRates", "create">>, {<<"tax-rates">>})
useUpdateTaxRate  == Mutation(<<"taxRates", "patch">>, {<<"tax-rates">>})
useArchiveTaxRate == Mutation(<<"taxRates", "patch">>, {<<"tax-rates">>})

useDiscountsList   == Query(<<"discounts", "list">>, {<<"discounts", "findAll">>})
useCreateDiscount  == Mutation(<<"discounts", "create">>, {<<"discounts">>})
useUpdateDiscount  == Mutation(<<"discounts", "patch">>, {<<"discounts">>})
useArchiveDiscount == Mutation(<<"discounts", "patch">>, {<<"discounts">>})

useAttributesList         == Query(<<"attributes", "list">>, {<<"attributes", "findAll">>})
\* ProductForm, VariantGenerator and AttributeValuePicker share another entry.
allAttributes             == Query(<<"attributes", "all">>, {<<"attributes", "findAll">>})
useCreateAttribute        == Mutation(<<"attributes", "create">>, {<<"attributes">>})
useUpdateAttribute        == Mutation(<<"attributes", "update">>, {<<"attributes">>})
useDeleteAttribute        == Mutation(<<"attributes", "remove">>, {<<"attributes">>})
useReorderAttributes      == Mutation(<<"attributes", "reorder">>, {<<"attributes">>})
useAddAttributeValue      == Mutation(<<"attributes", "addValue">>, {<<"attributes">>})
useUpdateAttributeValue   == Mutation(<<"attributes", "updateValue">>, {<<"attributes">>})
useDeleteAttributeValue   == Mutation(<<"attributes", "removeValue">>, {<<"attributes">>})
useReorderAttributeValues == Mutation(<<"attributes", "reorderValues">>, {<<"attributes">>})

useCompensationSummaryQuery  ==
  Query(<<"compensation", "summary">>, {<<"compensation", "getSummary">>})
useEmployeeCompensationQuery ==
  Query(<<"compensation", "user">>, {<<"compensation", "getEmployeeBreakdown">>})
useCreatePayout == Mutation(<<"compensation", "createPayout">>, {<<"compensation">>})
\* Its answer is also stored under the payout's own key, which no page reads.
useUpdatePayout == Mutation(<<"compensation", "updatePayout">>, {<<"compensation">>})

\* One entry per report; they are read alike, by the handler of the report.
useReportQuery ==
  Query(<<"reports">>, {<<"reports", report>> : report \in DOMAIN ReportsController})
==============================================================================
