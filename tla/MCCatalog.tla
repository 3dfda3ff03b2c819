----------------------------- MODULE MCCatalog -----------------------------
(* Three categories in a row and one to create, a product of each type,    *)
(* two attributes, and one discount on a line.                             *)
EXTENDS Catalog, TLC

CONSTANTS c1, c2, c3, kA, kB, kC, kNew, pen, shirt, vPen, vRed,
          red, blue, small, colour, size, deal, newDeal,
          nPen, nRed, nRose, nSmall, b1, b2, b3, b4

MCCall2 == {c1, c2}
MCCall3 == {c1, c2, c3}
MCCategory == {kA, kB, kC, kNew}
MCParents == [k \in MCCategory |-> CASE k = kA -> Root [] k = kB -> kA
                                     [] k = kC -> kB [] OTHER -> Absent]
MCProduct == {pen, shirt}
MCVariant == {vPen, vRed}
MCValue == {red, blue, small}
MCAttribute(v) == IF v = small THEN size ELSE colour
MCDiscount == {deal, newDeal}

(* A red and a rose shirt have the same code in their SKU.                 *)
MCComposed(vs) == IF small \in vs THEN nSmall ELSE IF vs = {red} THEN nRed ELSE nRose
MCCode(n) == IF n = nRose THEN nRed ELSE n

Sku(base, code, n) == [base |-> base, code |-> code, n |-> n]
PenSku == Sku("pens", Keep, 1)
ShirtSku == Sku("shirts", Keep, 1)
MCProducts == [p \in MCProduct |->
  IF p = pen THEN [type |-> "SIMPLE", sku |-> PenSku, name |-> nPen]
  ELSE [type |-> "VARIABLE", sku |-> ShirtSku, name |-> nSmall]]
MCVariants == [v \in MCVariant |->
  IF v = vPen
  THEN [product |-> pen, name |-> nPen, sku |-> Sku(PenSku, nPen, 1), barcode |-> b1, values |-> {}]
  ELSE [product |-> shirt, name |-> nRed, sku |-> Sku(ShirtSku, nRed, 1), barcode |-> b2,
        values |-> {red}]]
MCValues == MCValue
MCDiscounts == [d \in MCDiscount |->
  IF d = deal THEN [scope |-> "LINE_ITEM", targets |-> {vRed}] ELSE Absent]

Line(id, name, vs, sku, code) ==
  [id |-> id, name |-> name, values |-> vs, sku |-> sku, barcode |-> code, active |-> TRUE]
Create(type, series, name, vs) ==
  [op |-> "createProduct", category |-> kA, type |-> type, series |-> series, name |-> name, variants |-> vs]
Update(p, name, vs, off) ==
  [op |-> "updateProduct", product |-> p, name |-> name, variants |-> vs, deactivate |-> off]
Add(p, v) == [op |-> "addVariant", product |-> p, variants |-> <<v>>]
Change(v, name, vs, sku, code, on) ==
  [op |-> "updateVariant", variant |-> v, name |-> name, values |-> vs, sku |-> sku,
   barcode |-> code, active |-> on]
SetTo(x, on) == [op |-> "setActive", id |-> x, active |-> on]

CategoryRequests ==
  {[op |-> "createCategory", category |-> kNew, parent |-> p] : p \in {kC, Root}}
  \cup {[op |-> "moveCategory", category |-> m[1], parent |-> m[2]] :
          m \in {<<kA, kC>>, <<kA, kB>>, <<kB, kC>>, <<kC, kA>>, <<kB, Root>>, <<kC, Root>>, <<kA, kNew>>}}
ProductRequests ==
  { Create("VARIABLE", "shirts", nSmall, <<Line(Keep, Keep, {red}, Keep, b3), Line(Keep, Keep, {blue}, Keep, b4)>>),
    Create("SIMPLE", "pens", nPen, <<Line(Keep, Keep, {}, Keep, b3)>>),
    Create("SIMPLE", "pens", nPen, <<Line(Keep, Keep, {}, Sku(PenSku, nPen, 1), b4)>>),
    Create("SIMPLE", "pens", nPen, <<Line(vPen, Keep, {}, Keep, b1)>>),
    Update(shirt, nRed, <<Line(vRed, Keep, {red, small}, Keep, b2), Line(Keep, nRose, {blue}, Keep, b3)>>, {}),
    Update(shirt, nPen, Keep, {vRed}),
    Update(pen, Keep, <<Line(vPen, Keep, {}, Keep, b4)>>, {vPen}),
    Add(shirt, Line(Keep, Keep, {blue}, Keep, b3)),
    Add(shirt, Line(Keep, Keep, {red, blue}, Keep, b3)),
    Change(vRed, Keep, {blue}, Keep, Keep, Keep),
    Change(vPen, nRose, Keep, Sku(PenSku, nRose, 1), b3, FALSE) }
OtherRequests ==
  { [op |-> "removeValues", id |-> blue], [op |-> "removeValues", id |-> colour],
    [op |-> "addValue", value |-> blue], SetTo(blue, FALSE), SetTo(vRed, FALSE), SetTo(pen, FALSE),
    [op |-> "createDiscount", discount |-> newDeal, scope |-> "ORDER", targets |-> {}],
    [op |-> "createDiscount", discount |-> newDeal, scope |-> "ORDER", targets |-> {vRed}],
    [op |-> "updateDiscount", discount |-> deal, scope |-> "ORDER", targets |-> {vPen}],
    [op |-> "updateDiscount", discount |-> deal, scope |-> Keep, targets |-> {vPen}],
    [op |-> "updateDiscount", discount |-> newDeal, scope |-> "LINE_ITEM", targets |-> {vRed}] }
MCRequest == CategoryRequests \cup ProductRequests \cup OtherRequests
MCSymmetry == Permutations(Call)
=============================================================================
