------------------------------ MODULE Catalog ------------------------------
(***************************************************************************)
(* The catalog (backend/src/categories, products, attributes, discounts):  *)
(* the category tree, products with their variants, generated SKUs and     *)
(* barcodes, attribute values, and the variants a discount is pinned to.   *)
(*                                                                         *)
(* Every call is a process.  Its reads before a transaction are one step,  *)
(* each later read of the code is a step of its own, and its writes are    *)
(* the step that commits: rows a transaction has not committed are seen by *)
(* no one, itself included, for SKUs are read through another client.      *)
(* There the unique indexes and foreign keys decide.                       *)
(*                                                                         *)
(* A SKU is [base, code, n]: the prefix, the sanitized name and the        *)
(* sequence number, which stays below a thousand so that the order of the  *)
(* strings is the order of the numbers.  A category is named by its id and *)
(* its code, numbered the same way, is left out with prices, positions,    *)
(* descriptions and coupon codes.                                          *)
(***************************************************************************)
EXTENDS Integers, Sequences, FiniteSets

CONSTANTS
  Call,       \* the requests served, each by one handler
  Request,    \* what a client may ask
  Category, Root,
  Product,    \* products of before; a call that creates one names it
  Variant,    \* variants of before; others are <<call, position>>
  Value, Attribute(_),   \* attribute values and the attribute of each
  Discount,
  Composed(_), \* the name composed of a set of attribute values
  Code(_),     \* sanitizeSkuPart of a name
  Parents, Products, Variants, Values, Discounts,  \* the rows of before
  Absent,     \* no such row
  Keep        \* a field the request leaves undefined

Operations ==
  {"createCategory", "moveCategory", "removeValues", "addValue", "setActive", "createProduct",
   "updateProduct", "addVariant", "updateVariant", "createDiscount", "updateDiscount"}

ASSUME CatalogAssumption ==
  /\ \A r \in Request : r.op \in Operations
  /\ Root \notin Category /\ Absent \notin Category \cup {Root}
  /\ Parents \in [Category -> Category \cup {Root, Absent}]
  /\ \A k \in Category : Parents[k] \in Category => Parents[Parents[k]] # Absent
  /\ \A S \in SUBSET Category : S # {} => \E k \in S : Parents[k] \notin S
  /\ \A v \in Variant : Variants[v] # Absent => Variants[v].values \subseteq Values

ASSUME DiscountAssumption ==
  /\ Keep # {}
  /\ \A d \in DOMAIN Discounts :
       Discounts[d] # Absent /\ Discounts[d].scope = "ORDER" => Discounts[d].targets = {}

ProductId == Product \cup Call
VariantId == Variant \cup (Call \X (1 .. 3))   \* at most three in a request

(* The rows of before have passed the unique indexes, and their products   *)
(* are among them; a SKU a client chooses has the form of a generated one. *)
IsSku(s) == s = [base |-> s.base, code |-> s.code, n |-> s.n] /\ s.n \in Nat
IsProduct(p) == p = [type |-> p.type, sku |-> p.sku, name |-> p.name] /\ IsSku(p.sku)
IsVariant(v) ==
  /\ v = [product |-> v.product, name |-> v.name, sku |-> v.sku,
          barcode |-> v.barcode, values |-> v.values]
  /\ IsSku(v.sku)

ASSUME RowsAssumption ==
  /\ IsFiniteSet(Call) /\ IsFiniteSet(Product) /\ IsFiniteSet(Variant)
  /\ Product \cap Call = {} /\ Variant \cap (Call \X (1 .. 3)) = {}
  /\ Keep \notin Variant \cup (Call \X (1 .. 3))
  /\ \A p \in Product : Products[p] # Absent => IsProduct(Products[p])
  /\ \A v \in Variant : Variants[v] # Absent =>
       /\ IsVariant(Variants[v]) /\ Variants[v].product \in Product
       /\ \A w \in Variant \ {v} : Variants[w] # Absent =>
            /\ Variants[v].sku # Variants[w].sku /\ Variants[v].barcode # Variants[w].barcode
            /\ Variants[v].product = Variants[w].product => Variants[v].name # Variants[w].name

ASSUME RequestAssumption ==
  \A r \in Request :
    /\ r.op \in {"createProduct", "addVariant", "updateProduct"} =>
         \/ r.op = "updateProduct" /\ r.variants = Keep
         \/ /\ Len(r.variants) \in 0 .. 3 /\ DOMAIN r.variants = 1 .. Len(r.variants)
            /\ \A i \in DOMAIN r.variants :
                 r.variants[i].sku # Keep => IsSku(r.variants[i].sku)
    /\ r.op \in {"createProduct", "addVariant"} => r.variants # Keep
    /\ r.op = "addVariant" => Len(r.variants) = 1 /\ r.variants[1].id = Keep
    /\ r.op = "updateVariant" => r.variant \in VariantId /\ (r.sku # Keep => IsSku(r.sku))
    /\ r.op \in {"addVariant", "updateProduct"} => r.product \in ProductId

VARIABLES
  parent,     \* parent[k]: Category.parentId, Root for null, or Absent
  products,   \* the Product table: [type, sku, name] or Absent
  variants,   \* the ProductVariant table with its VariantAttributeValue rows
  values,     \* the AttributeValue rows that exist
  discounts,  \* the Discount table with its DiscountVariant rows
  inactive,   \* ids of rows whose isActive is false
  req,        \* req[c]: the request of c
  at,         \* at[c]: its next step
  mem,        \* mem[c]: what its handler has read
  cursor, seen,  \* cursor[c], seen[c]: the walk of assertNoCycle
  overlapped  \* history: a call began while another was open

tables == <<parent, products, variants, values, discounts, inactive>>
walk == <<cursor, seen>>
vars == <<tables, req, at, mem, walk, overlapped>>

Over == {"idle", "done", "refused", "conflict"}
NoMem == [rows |-> <<>>]

Init ==
  /\ parent = Parents /\ values = Values /\ discounts = Discounts
  /\ products = [p \in ProductId |-> IF p \in Product THEN Products[p] ELSE Absent]
  /\ variants = [v \in VariantId |-> IF v \in Variant THEN Variants[v] ELSE Absent]
  /\ inactive = {}
  /\ req = [c \in Call |-> Absent] /\ at = [c \in Call |-> "idle"]
  /\ mem = [c \in Call |-> NoMem]
  /\ cursor = [c \in Call |-> Root] /\ seen = [c \in Call |-> {}]
  /\ overlapped = FALSE

Existing(table) == {x \in DOMAIN table : table[x] # Absent}

(* Moves of a handler that writes nothing.                                 *)
Go(c, s) == at' = [at EXCEPT ![c] = s] /\ UNCHANGED <<req, overlapped>>
Refuse(c) == Go(c, "refused") /\ UNCHANGED <<tables, mem, walk>>
Conflict(c) == Go(c, "conflict") /\ UNCHANGED <<tables, mem, walk>>

Arrive(c, r) ==
  /\ at[c] = "idle"
  /\ req' = [req EXCEPT ![c] = r]
  /\ at' = [at EXCEPT ![c] = r.op]
  /\ overlapped' = (overlapped \/ \E d \in Call : at[d] \notin Over)
  /\ UNCHANGED <<tables, mem, walk>>

-----------------------------------------------------------------------------
(* Categories.                                                             *)

(* "Category name already exists", "Parent category does not exist".       *)
CreateCategory(c) ==
  LET k == req[c].category
  IN /\ at[c] = "createCategory"
     /\ IF parent[k] = Absent /\ req[c].parent \in Existing(parent) \cup {Root}
        THEN Go(c, "insertCategory") /\ UNCHANGED <<tables, mem, walk>>
        ELSE Refuse(c)

InsertCategory(c) ==
  LET k == req[c].category
  IN /\ at[c] = "insertCategory"
     /\ IF parent[k] # Absent THEN Conflict(c)
        ELSE /\ parent' = [parent EXCEPT ![k] = req[c].parent]
             /\ Go(c, "done")
             /\ UNCHANGED <<products, variants, values, discounts, inactive, mem, walk>>

(* "Category cannot be its own parent"; without a parent no walk.          *)
MoveCategory(c) ==
  LET k == req[c].category
      p == req[c].parent
  IN /\ at[c] = "moveCategory"
     /\ IF parent[k] # Absent /\ p # k /\ p \in Existing(parent) \cup {Root}
        THEN /\ cursor' = [cursor EXCEPT ![c] = p]
             /\ seen' = [seen EXCEPT ![c] = {}]
             /\ Go(c, "walk") /\ UNCHANGED <<tables, mem>>
        ELSE Refuse(c)

(* assertNoCycle, one parent per statement.                                *)
FirstStepOnly(c) == cursor[c] = Root \/ seen[c] # {}
WalkEnds(c) == cursor[c] = Root \/ cursor[c] \in seen[c]
Walk(c) ==
  /\ at[c] = "walk"
  /\ IF cursor[c] = req[c].category THEN Refuse(c)
     ELSE IF WalkEnds(c) THEN Go(c, "placeCategory") /\ UNCHANGED <<tables, mem, walk>>
     ELSE /\ seen' = [seen EXCEPT ![c] = @ \cup {cursor[c]}]
          /\ cursor' = [cursor EXCEPT ![c] = parent[cursor[c]]]
          /\ Go(c, "walk") /\ UNCHANGED <<tables, mem>>

PlaceCategory(c) ==
  /\ at[c] = "placeCategory"
  /\ parent' = [parent EXCEPT ![req[c].category] = req[c].parent]
  /\ Go(c, "done")
  /\ UNCHANGED <<products, variants, values, discounts, inactive, mem, walk>>

-----------------------------------------------------------------------------
(* Attributes and their values.  A request names a value, or an attribute  *)
(* and so all its values; an attribute is there while it has values.       *)

Doomed(r) == {v \in values : v = r.id \/ Attribute(v) = r.id}
Unlinked(vs) == \A v \in Existing(variants) : variants[v].values \cap vs = {}

RemoveValues(c) ==
  /\ at[c] = "removeValues"
  /\ IF Doomed(req[c]) # {} /\ Unlinked(Doomed(req[c]))
     THEN Go(c, "deleteValues") /\ UNCHANGED <<tables, mem, walk>>
     ELSE Refuse(c)

(* Links restrict the delete, whatever was counted before.                 *)
Cascades(vs) == TRUE
Restricts(vs) == \A v \in Existing(variants) : variants[v].values \cap vs = {}
DeleteValues(c) ==
  /\ at[c] = "deleteValues"
  /\ IF Doomed(req[c]) # {} /\ Restricts(Doomed(req[c]))
     THEN /\ values' = values \ Doomed(req[c])
          /\ inactive' = inactive \ (Doomed(req[c]) \cup {req[c].id})
          /\ Go(c, "done")
          /\ UNCHANGED <<parent, products, variants, discounts, mem, walk>>
     ELSE Conflict(c)

AddValue(c) ==
  /\ at[c] = "addValue"
  /\ IF req[c].value \notin values
     THEN /\ values' = values \cup {req[c].value}
          /\ Go(c, "done")
          /\ UNCHANGED <<parent, products, variants, discounts, inactive, mem, walk>>
     ELSE Refuse(c)

(* archive and deactivate, and updates that only set isActive.             *)
(* deactivateVariant spares the sole variant of a SIMPLE product.          *)
RowExists(x) ==
  x \in Existing(parent) \cup Existing(products) \cup values \cup Existing(discounts)
        \cup {Attribute(v) : v \in values}
MayDeactivate(x) == x \in Existing(variants) /\ products[variants[x].product].type # "SIMPLE"
SetActive(c) ==
  /\ at[c] = "setActive"
  /\ IF RowExists(req[c].id) \/ (MayDeactivate(req[c].id) /\ ~req[c].active)
     THEN /\ inactive' = IF req[c].active THEN inactive \ {req[c].id}
                         ELSE inactive \cup {req[c].id}
          /\ Go(c, "done")
          /\ UNCHANGED <<parent, products, variants, values, discounts, mem, walk>>
     ELSE Refuse(c)

-----------------------------------------------------------------------------
(* Products and variants: what the handlers check and compute.             *)

(* resolveAttributeValues.                                                 *)
ValuesUsable(vs) ==
  /\ vs \subseteq values
  /\ \A v \in vs : v \notin inactive /\ Attribute(v) \notin inactive
  /\ \A v, w \in vs : Attribute(v) = Attribute(w) => v = w

Given(new, old) == IF new = Keep THEN old ELSE new
NameOf(v, name) == IF v.name # Keep THEN v.name ELSE IF v.values = {} THEN name ELSE Composed(v.values)

(* normalizeVariantInput.                                                  *)
Signature(v) == <<v.values, IF v.values = {} THEN v.name ELSE Keep>>
Unsigned(v) == v.values = {} /\ v.name = Keep
Normal(vs, type) ==
  /\ vs # <<>>
  /\ type = "SIMPLE" => Len(vs) = 1 /\ vs[1].values = {}
  /\ type = "VARIABLE" => \A i \in DOMAIN vs : vs[i].values # {}
  /\ \A i, j \in DOMAIN vs : i # j =>
       /\ vs[i].barcode # vs[j].barcode
       /\ Signature(vs[i]) # Signature(vs[j]) \/ Unsigned(vs[i])

(* ensureBarcodesAvailable; p is Keep where no product is given.           *)
BarcodesAvailable(vs, p) ==
  \A e \in Existing(variants) : \A i \in DOMAIN vs :
    variants[e].barcode = vs[i].barcode =>
      (p # Keep /\ variants[e].product = p) \/ \E j \in DOMAIN vs : vs[j].id = e

Highest(ns) == IF ns = {} THEN 0 ELSE CHOOSE n \in ns : \A m \in ns : m <= n

(* generateProductSku.                                                     *)
NextProductSku(series) ==
  [base |-> series, code |-> Keep,
   n |-> Highest({products[p].sku.n : p \in {q \in Existing(products) : products[q].sku.base = series}}) + 1]

(* generateVariantSku: past the highest number, and past the numbers       *)
(* already given to other variants of the request.                         *)
NumbersIn(skus, base, code) == {s.n : s \in {x \in skus : x.base = base /\ x.code = code}}
ReservesNothing(reserved) == {}
Reserves(reserved) == reserved
NextVariantSku(base, name, reserved) ==
  LET taken == {variants[v].sku : v \in Existing(variants)}
      first == Highest(NumbersIn(taken, base, Code(name))) + 1
      given == NumbersIn(Reserves(reserved), base, Code(name))
  IN [base |-> base, code |-> Code(name),
      n |-> CHOOSE n \in first .. first + Cardinality(given) :
              n \notin given /\ \A m \in first .. n - 1 : m \in given]

-----------------------------------------------------------------------------
(* ProductsService.create, update, addVariant and updateVariant.           *)

(* An update may leave its variants out.                                   *)
Asked(c) == IF req[c].variants = Keep THEN <<>> ELSE req[c].variants
Row(c, k) == Asked(c)[k]
Done(c) == Len(mem[c].rows)     \* variants the handler has prepared
Remember(c, m, s) == mem' = [mem EXCEPT ![c] = m] /\ Go(c, s) /\ UNCHANGED <<tables, walk>>

CreateProduct(c) ==
  LET r == req[c]
  IN /\ at[c] = "createProduct"
     /\ IF /\ r.category \in Existing(parent)
           /\ Normal(r.variants, r.type)
           /\ BarcodesAvailable(r.variants, Keep)
           /\ \A i \in DOMAIN r.variants : ValuesUsable(r.variants[i].values)
           /\ \A i, j \in DOMAIN r.variants :
                NameOf(r.variants[i], r.name) = NameOf(r.variants[j], r.name) => i = j
        THEN Remember(c, [rows |-> <<>>, product |-> c, name |-> r.name, old |-> <<>>, reserved |-> {},
                          sku |-> NextProductSku(r.series)], "variants")
        ELSE Refuse(c)

UpdateProduct(c) ==
  LET r == req[c]
      own == {v \in Existing(variants) : variants[v].product = r.product}
  IN /\ at[c] = "updateProduct"
     /\ IF /\ products[r.product] # Absent
           /\ r.variants # Keep => /\ Normal(r.variants, products[r.product].type)
                                   /\ BarcodesAvailable(r.variants, r.product)
           /\ r.deactivate \subseteq own
        THEN Remember(c, [rows |-> <<>>, product |-> r.product, name |-> products[r.product].name,
                          old |-> [v \in own |-> variants[v].sku], reserved |-> {}, sku |-> products[r.product].sku], "variants")
        ELSE Refuse(c)

(* Names of the product are compared, but only here.                       *)
AddVariant(c) ==
  LET r == req[c]
      v == r.variants[1]
      own == {w \in Existing(variants) : variants[w].product = r.product}
  IN /\ at[c] = "addVariant"
     /\ IF /\ products[r.product] # Absent /\ products[r.product].type = "VARIABLE"
           /\ BarcodesAvailable(r.variants, Keep)
           /\ v.values # {} /\ ValuesUsable(v.values)
           /\ \A w \in own : variants[w].name # NameOf(v, products[r.product].name)
        THEN Remember(c, [rows |-> <<>>, product |-> r.product, name |-> products[r.product].name, old |-> <<>>,
                          reserved |-> {}, sku |-> products[r.product].sku], "variants")
        ELSE Refuse(c)

(* The next variant of the request: its SKU is the one asked for, the one  *)
(* it has, or a generated one.  update resolves its values only now, and   *)
(* reserves every SKU; create reserves the generated ones.                 *)
SkuFor(c, v) ==
  IF v.sku # Keep THEN v.sku
  ELSE IF v.id \in DOMAIN mem[c].old THEN mem[c].old[v.id]
  ELSE NextVariantSku(mem[c].sku, NameOf(v, mem[c].name), mem[c].reserved)
PrepareVariant(c) ==
  LET k == Done(c) + 1
      v == Row(c, k)
      sku == SkuFor(c, v)
      row == [product |-> mem[c].product, name |-> NameOf(v, mem[c].name), sku |-> sku,
              barcode |-> v.barcode, values |-> v.values]
      id == IF v.id \in DOMAIN mem[c].old THEN v.id ELSE <<c, k>>
      keepsFree == v.sku # Keep /\ req[c].op = "createProduct"
  IN /\ at[c] = "variants" /\ k <= Len(Asked(c))
     /\ IF req[c].op = "updateProduct" /\ ~ValuesUsable(v.values) THEN Refuse(c)
        ELSE Remember(c, [mem[c] EXCEPT !.rows = Append(@, [id |-> id, row |-> row]),
                            !.reserved = IF keepsFree THEN @ ELSE @ \cup {sku}], "variants")

(* The rows as the commit would leave them.                                *)
Written(c) ==
  [v \in VariantId |->
     IF \E k \in DOMAIN mem[c].rows : mem[c].rows[k].id = v
     THEN mem[c].rows[CHOOSE k \in DOMAIN mem[c].rows : mem[c].rows[k].id = v].row
     ELSE variants[v]]

(* @unique sku and barcode, @@unique([productId, name]).                   *)
Unique(table) ==
  \A v, w \in Existing(table) : v # w =>
    /\ table[v].sku # table[w].sku /\ table[v].barcode # table[w].barcode
    /\ table[v].product = table[w].product => table[v].name # table[w].name
(* A link needs its value; deleted meanwhile, the insert fails.            *)
ValuesExist(table) == \A v \in Existing(table) : table[v].values \subseteq values

CommitVariants(c) ==
  LET r == req[c]
      new == r.op = "createProduct"
      asked == {<<mem[c].rows[k].id, Row(c, k).active>> : k \in DOMAIN mem[c].rows}
      off == {x[1] : x \in {y \in asked : ~y[2]}} \cup IF r.op = "updateProduct" THEN r.deactivate ELSE {}
  IN /\ at[c] = "variants" /\ Done(c) = Len(Asked(c))
     /\ IF /\ Unique(Written(c)) /\ ValuesExist(Written(c))
           /\ new => \A p \in Existing(products) : products[p].sku # mem[c].sku
        THEN /\ variants' = Written(c)
             /\ products' =
                  IF new
                  THEN [products EXCEPT ![c] = [type |-> r.type, sku |-> mem[c].sku, name |-> r.name]]
                  ELSE IF r.op = "updateProduct"
                  THEN [products EXCEPT ![r.product].name = Given(r.name, @)] ELSE products
             /\ inactive' = (inactive \ {x[1] : x \in asked}) \cup off
             /\ Go(c, "done")
             /\ UNCHANGED <<parent, values, discounts, mem, walk>>
        ELSE Conflict(c)

(* updateVariant: fields left undefined keep what the row then has.        *)
UpdateVariant(c) ==
  LET r == req[c]
      old == variants[r.variant]
  IN /\ at[c] = "updateVariant"
     /\ IF /\ old # Absent
           /\ r.barcode # Keep =>
                BarcodesAvailable(<<[id |-> r.variant, barcode |-> r.barcode]>>, old.product)
           /\ r.values # Keep =>
                /\ ValuesUsable(r.values)
                /\ (products[old.product].type = "SIMPLE") <=> (r.values = {})
        THEN Remember(c, [rows |-> <<>>, product |-> old.product,
                          name |-> IF r.values = Keep THEN r.name
                                   ELSE NameOf(r, products[old.product].name)], "writeVariant")
        ELSE Refuse(c)

Updated(c) ==
  [variants EXCEPT ![req[c].variant].name = Given(mem[c].name, @),
                   ![req[c].variant].sku = Given(req[c].sku, @),
                   ![req[c].variant].barcode = Given(req[c].barcode, @),
                   ![req[c].variant].values = Given(req[c].values, @)]
WriteVariant(c) ==
  LET v == req[c].variant
  IN /\ at[c] = "writeVariant"
     /\ IF Unique(Updated(c)) /\ ValuesExist(Updated(c))
        THEN /\ variants' = Updated(c)
             /\ inactive' = CASE req[c].active = Keep -> inactive
                               [] req[c].active = TRUE -> inactive \ {v}
                               [] OTHER -> inactive \cup {v}
             /\ Go(c, "done")
             /\ UNCHANGED <<parent, products, values, discounts, mem, walk>>
        ELSE Conflict(c)

-----------------------------------------------------------------------------
(* DiscountsService.create and update.                                     *)

(* resolveTargetVariantIds.                                                *)
TargetsValid(scope, ids) ==
  ids # {} => scope = "LINE_ITEM" /\ ids \subseteq Existing(variants)

CreateDiscount(c) ==
  LET r == req[c]
  IN /\ at[c] = "createDiscount"
     /\ IF discounts[r.discount] = Absent /\ TargetsValid(r.scope, r.targets)
        THEN Remember(c, [rows |-> <<>>, scope |-> r.scope, targets |-> r.targets], "writeDiscount")
        ELSE Refuse(c)

(* What an update does to the targets: none are left off LINE_ITEM.        *)
KeepsTargets(scope, old, asked) == asked
NewTargets(scope, old, asked) ==
  IF scope = "LINE_ITEM" THEN asked ELSE IF old # {} THEN {} ELSE Keep
UpdateDiscount(c) ==
  LET r == req[c]
      old == discounts[r.discount]
      scope == Given(r.scope, old.scope)
  IN /\ at[c] = "updateDiscount"
     /\ IF /\ old # Absent
           /\ (scope = "LINE_ITEM" /\ r.targets # Keep) => TargetsValid(scope, r.targets)
        THEN Remember(c, [rows |-> <<>>, scope |-> r.scope,
                          targets |-> NewTargets(scope, old.targets, r.targets)], "writeDiscount")
        ELSE Refuse(c)

WriteDiscount(c) ==
  LET d == req[c].discount
      old == discounts[d]
      new == mem[c]
  IN /\ at[c] = "writeDiscount"
     /\ IF req[c].op = "createDiscount" /\ old # Absent THEN Conflict(c)
        ELSE /\ discounts' = [discounts EXCEPT ![d] =
                  IF old = Absent THEN [scope |-> new.scope, targets |-> new.targets]
                  ELSE [scope |-> Given(new.scope, old.scope),
                        targets |-> Given(new.targets, old.targets)]]
             /\ Go(c, "done")
             /\ UNCHANGED <<parent, products, variants, values, inactive, mem, walk>>

-----------------------------------------------------------------------------
CategoryStep(c) ==
  CreateCategory(c) \/ InsertCategory(c) \/ MoveCategory(c) \/ Walk(c) \/ PlaceCategory(c)
ProductStep(c) ==
  \/ CreateProduct(c) \/ UpdateProduct(c) \/ AddVariant(c) \/ PrepareVariant(c) \/ CommitVariants(c)
  \/ UpdateVariant(c) \/ WriteVariant(c)
OtherStep(c) ==
  \/ RemoveValues(c) \/ DeleteValues(c) \/ AddValue(c) \/ SetActive(c)
  \/ CreateDiscount(c) \/ UpdateDiscount(c) \/ WriteDiscount(c)

Terminating == (\A c \in Call : at[c] \in Over \ {"idle"}) /\ UNCHANGED vars

Next ==
  \/ \E c \in Call : \/ \E r \in Request : Arrive(c, r)
                     \/ CategoryStep(c) \/ ProductStep(c) \/ OtherStep(c)
  \/ Terminating

Spec == Init /\ [][Next]_vars

-----------------------------------------------------------------------------
(* The properties.                                                         *)

(* "Category hierarchy would create a cycle": moves that do not overlap    *)
(* keep the tree a tree.  Each set of categories has one whose parent is   *)
(* outside the set.                                                        *)
NoCycle ==
  \A S \in SUBSET Existing(parent) : S # {} => \E k \in S : parent[k] \notin S
SerialMovesMakeNoCycle == ~overlapped => NoCycle

(* "in use by one or more variants": a value a variant carries is never    *)
(* deleted, and a variant never comes to carry a deleted value, however    *)
(* removals, creations and updates interleave.                             *)
CarriedValuesExist == \A v \in Existing(variants) : variants[v].values \subseteq values

(* A create or an added variant that leaves SKUs and ids to the server     *)
(* passes the unique indexes once its own checks passed, if nothing        *)
(* overlaps.  A create that names an id is let off the check of barcodes.  *)
ChecksPreventConflicts ==
  ~overlapped => \A c \in Call :
    (at[c] = "conflict" /\ req[c].op \in {"createProduct", "addVariant"}) =>
      \E k \in DOMAIN req[c].variants : Row(c, k).sku # Keep \/ Row(c, k).id # Keep

(* "Only LINE_ITEM discounts can target specific variants": no sequence of *)
(* creates and updates leaves targets on an ORDER discount.                *)
OrderDiscountsHaveNoTargets ==
  ~overlapped => \A d \in Existing(discounts) :
    discounts[d].scope = "ORDER" => discounts[d].targets = {}
=============================================================================
