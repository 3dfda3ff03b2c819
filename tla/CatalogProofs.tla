--------------------------- MODULE CatalogProofs ---------------------------
(* Moves of categories that do not overlap keep the hierarchy a forest,    *)
(* however many categories there are, and calls on discounts that do not   *)
(* overlap leave no targets on an ORDER discount; no interleaving of any   *)
(* calls leaves a variant with an attribute value that is gone.  Creates   *)
(* that pass their checks pass the unique indexes too: the generated SKUs  *)
(* are new, whatever numbers are in use and however many there are.        *)
EXTENDS Catalog, SequenceTheorems, Sums

Labels ==
  Operations \cup Over \cup {"insertCategory", "walk", "placeCategory", "deleteValues",
                            "variants", "writeVariant", "writeDiscount"}
Elsewhere == Labels \ {"insertCategory", "walk", "placeCategory"}

There == {k \in Category : parent[k] # Absent}

(* No category is ever deleted, so a parent that was found stays there.    *)
ForestTypeOK ==
  /\ parent \in [Category -> Category \cup {Root, Absent}]
  /\ at \in [Call -> Labels]
  /\ cursor \in [Call -> Category \cup {Root}]
  /\ seen \in [Call -> SUBSET Category]
  /\ overlapped \in BOOLEAN
  /\ \A k \in There : parent[k] \in There \cup {Root}
  /\ \A c \in Call : at[c] \in {"insertCategory", "walk", "placeCategory"} =>
                       req[c].parent \in There \cup {Root}
  /\ \A c \in Call : at[c] = "walk" => cursor[c] \in There \cup {Root}

(* While calls do not overlap, at most one is open.                        *)
OneOpen == \A c, d \in Call : at[c] \notin Over /\ at[d] \notin Over => c = d

(* What the walk has established: it began at the parent asked for, every  *)
(* category it passed leads on to another or to the cursor, and none is    *)
(* the category to be moved.                                               *)
Climbed(c) ==
  /\ req[c].parent \in seen[c] \cup {cursor[c]}
  /\ \A x \in seen[c] : x # req[c].category /\ parent[x] \in seen[c] \cup {cursor[c]}

Forest == \A S \in SUBSET There : S # {} => \E k \in S : parent[k] \notin S

SerialForest ==
  /\ OneOpen
  /\ Forest
  /\ \A c \in Call : at[c] \in {"walk", "placeCategory"} => Climbed(c)
  /\ \A c \in Call : at[c] = "placeCategory" => cursor[c] = Root \/ cursor[c] \in seen[c]

ForestInv == ForestTypeOK /\ (~overlapped => SerialForest)

(* A step of one open call that leaves the hierarchy and the walks alone.  *)
Quiet(c) ==
  /\ at[c] \notin Over
  /\ UNCHANGED <<parent, cursor, seen, req, overlapped>>
  /\ \E s \in Elsewhere : at' = [at EXCEPT ![c] = s]

-----------------------------------------------------------------------------
LEMMA ForestInit == Init => ForestInv
<1> SUFFICES ASSUME Init PROVE ForestInv
  OBVIOUS
<1> USE CatalogAssumption
<1>1. parent = Parents /\ There = {k \in Category : Parents[k] # Absent}
  BY DEF Init, There
<1>2. \A k \in There : parent[k] \in There \cup {Root}
  BY <1>1
<1>3. ForestTypeOK
  <2>1. at \in [Call -> Labels] /\ overlapped \in BOOLEAN
    BY DEF Init, Labels, Over
  <2>2. parent \in [Category -> Category \cup {Root, Absent}]
    BY <1>1
  <2>3. cursor \in [Call -> Category \cup {Root}] /\ seen \in [Call -> SUBSET Category]
    BY DEF Init
  <2>4. \A c \in Call : at[c] = "idle"
    BY DEF Init
  <2> QED
    BY <1>2, <2>1, <2>2, <2>3, <2>4 DEF ForestTypeOK
<1>4. Forest
  <2> SUFFICES ASSUME NEW S \in SUBSET There, S # {} PROVE \E k \in S : parent[k] \notin S
    BY DEF Forest
  <2>1. S \in SUBSET Category /\ parent = Parents
    BY DEF There, Init
  <2> QED
    BY <2>1
<1>5. OneOpen
  BY DEF Init, OneOpen, Over
<1>6. \A c \in Call : at[c] \notin {"walk", "placeCategory"}
  BY DEF Init
<1> QED
  BY <1>3, <1>4, <1>5, <1>6 DEF ForestInv, SerialForest

(* Nothing changes for the other calls, and the call itself leaves the     *)
(* places the invariant speaks of.                                         *)
LEMMA QuietKeepsForest ==
  ASSUME ForestInv, NEW c \in Call, Quiet(c)
  PROVE  ForestInv'
<1>1. There' = There
  BY DEF Quiet, There
<1>2. PICK s \in Labels \ {"insertCategory", "walk", "placeCategory"} : at' = [at EXCEPT ![c] = s]
  BY DEF Quiet, Elsewhere
<1>3. \A d \in Call : at'[d] \in {"insertCategory", "walk", "placeCategory"} => d # c /\ at'[d] = at[d]
  BY <1>2 DEF ForestInv, ForestTypeOK
<1>4. ForestTypeOK'
  BY <1>1, <1>2, <1>3 DEF ForestInv, ForestTypeOK, Quiet
<1>5. ASSUME ~overlapped' PROVE SerialForest'
  <2>1. SerialForest
    BY <1>5 DEF ForestInv, Quiet
  <2>2. OneOpen'
    BY <1>2, <2>1 DEF SerialForest, OneOpen, Quiet, ForestInv, ForestTypeOK
  <2>3. Forest'
    BY <1>1, <2>1 DEF SerialForest, Forest, Quiet
  <2>4. \A d \in Call : Climbed(d)' <=> Climbed(d)
    BY DEF Climbed, Quiet
  <2>5. \A d \in Call : at'[d] \in {"walk", "placeCategory"} => Climbed(d)'
    BY <1>3, <2>1, <2>4 DEF SerialForest
  <2>6. \A d \in Call : at'[d] = "placeCategory" => (cursor[d] = Root \/ cursor[d] \in seen[d])'
    BY <1>3, <2>1 DEF SerialForest, Quiet
  <2> QED
    BY <2>2, <2>3, <2>5, <2>6 DEF SerialForest
<1> QED
  BY <1>4, <1>5 DEF ForestInv

-----------------------------------------------------------------------------
(* The steps that write no category are quiet.                             *)
LEMMA ElsewhereLabels ==
  /\ "done" \in Elsewhere /\ "refused" \in Elsewhere /\ "conflict" \in Elsewhere
  /\ "variants" \in Elsewhere /\ "writeVariant" \in Elsewhere
  /\ "deleteValues" \in Elsewhere /\ "writeDiscount" \in Elsewhere
BY DEF Elsewhere, Labels, Over

LEMMA RefusalIsQuiet ==
  ASSUME NEW c \in Call, at[c] \notin Over, Refuse(c) \/ Conflict(c)
  PROVE  Quiet(c)
BY ElsewhereLabels DEF Refuse, Conflict, Go, Quiet, tables, walk

LEMMA ProductStepIsQuiet ==
  ASSUME NEW c \in Call, ProductStep(c)
  PROVE  Quiet(c)
<1>1. CASE CreateProduct(c)
  <2>1. at[c] = "createProduct"
    BY <1>1 DEF CreateProduct
  <2>2. (Go(c, "variants") /\ UNCHANGED <<parent, walk>>) \/ Refuse(c) \/ Conflict(c)
    BY <1>1 DEF CreateProduct, Remember, tables
  <2> QED
    BY <2>1, <2>2, ElsewhereLabels, RefusalIsQuiet DEF Over, Go, Quiet, walk
<1>2. CASE UpdateProduct(c)
  <2>1. at[c] = "updateProduct"
    BY <1>2 DEF UpdateProduct
  <2>2. (Go(c, "variants") /\ UNCHANGED <<parent, walk>>) \/ Refuse(c) \/ Conflict(c)
    BY <1>2 DEF UpdateProduct, Remember, tables
  <2> QED
    BY <2>1, <2>2, ElsewhereLabels, RefusalIsQuiet DEF Over, Go, Quiet, walk
<1>3. CASE AddVariant(c)
  <2>1. at[c] = "addVariant"
    BY <1>3 DEF AddVariant
  <2>2. (Go(c, "variants") /\ UNCHANGED <<parent, walk>>) \/ Refuse(c) \/ Conflict(c)
    BY <1>3 DEF AddVariant, Remember, tables
  <2> QED
    BY <2>1, <2>2, ElsewhereLabels, RefusalIsQuiet DEF Over, Go, Quiet, walk
<1>4. CASE PrepareVariant(c)
  <2>1. at[c] = "variants"
    BY <1>4 DEF PrepareVariant
  <2>2. (Go(c, "variants") /\ UNCHANGED <<parent, walk>>) \/ Refuse(c) \/ Conflict(c)
    BY <1>4 DEF PrepareVariant, Remember, tables
  <2> QED
    BY <2>1, <2>2, ElsewhereLabels, RefusalIsQuiet DEF Over, Go, Quiet, walk
<1>5. CASE CommitVariants(c)
  <2>1. at[c] = "variants"
    BY <1>5 DEF CommitVariants
  <2>2. (Go(c, "done") /\ UNCHANGED <<parent, walk>>) \/ Refuse(c) \/ Conflict(c)
    BY <1>5 DEF CommitVariants
  <2> QED
    BY <2>1, <2>2, ElsewhereLabels, RefusalIsQuiet DEF Over, Go, Quiet, walk
<1>6. CASE UpdateVariant(c)
  <2>1. at[c] = "updateVariant"
    BY <1>6 DEF UpdateVariant
  <2>2. (Go(c, "writeVariant") /\ UNCHANGED <<parent, walk>>) \/ Refuse(c) \/ Conflict(c)
    BY <1>6 DEF UpdateVariant, Remember, tables
  <2> QED
    BY <2>1, <2>2, ElsewhereLabels, RefusalIsQuiet DEF Over, Go, Quiet, walk
<1>7. CASE WriteVariant(c)
  <2>1. at[c] = "writeVariant"
    BY <1>7 DEF WriteVariant
  <2>2. (Go(c, "done") /\ UNCHANGED <<parent, walk>>) \/ Refuse(c) \/ Conflict(c)
    BY <1>7 DEF WriteVariant
  <2> QED
    BY <2>1, <2>2, ElsewhereLabels, RefusalIsQuiet DEF Over, Go, Quiet, walk
<1> QED
  BY <1>1, <1>2, <1>3, <1>4, <1>5, <1>6, <1>7 DEF ProductStep

LEMMA OtherStepIsQuiet ==
  ASSUME NEW c \in Call, OtherStep(c)
  PROVE  Quiet(c)
<1>1. CASE RemoveValues(c)
  <2>1. at[c] = "removeValues"
    BY <1>1 DEF RemoveValues
  <2>2. (Go(c, "deleteValues") /\ UNCHANGED <<parent, walk>>) \/ Refuse(c) \/ Conflict(c)
    BY <1>1 DEF RemoveValues, tables
  <2> QED
    BY <2>1, <2>2, ElsewhereLabels, RefusalIsQuiet DEF Over, Go, Quiet, walk
<1>2. CASE DeleteValues(c)
  <2>1. at[c] = "deleteValues"
    BY <1>2 DEF DeleteValues
  <2>2. (Go(c, "done") /\ UNCHANGED <<parent, walk>>) \/ Refuse(c) \/ Conflict(c)
    BY <1>2 DEF DeleteValues
  <2> QED
    BY <2>1, <2>2, ElsewhereLabels, RefusalIsQuiet DEF Over, Go, Quiet, walk
<1>3. CASE AddValue(c)
  <2>1. at[c] = "addValue"
    BY <1>3 DEF AddValue
  <2>2. (Go(c, "done") /\ UNCHANGED <<parent, walk>>) \/ Refuse(c) \/ Conflict(c)
    BY <1>3 DEF AddValue
  <2> QED
    BY <2>1, <2>2, ElsewhereLabels, RefusalIsQuiet DEF Over, Go, Quiet, walk
<1>4. CASE SetActive(c)
  <2>1. at[c] = "setActive"
    BY <1>4 DEF SetActive
  <2>2. (Go(c, "done") /\ UNCHANGED <<parent, walk>>) \/ Refuse(c) \/ Conflict(c)
    BY <1>4 DEF SetActive
  <2> QED
    BY <2>1, <2>2, ElsewhereLabels, RefusalIsQuiet DEF Over, Go, Quiet, walk
<1>5. CASE CreateDiscount(c)
  <2>1. at[c] = "createDiscount"
    BY <1>5 DEF CreateDiscount
  <2>2. (Go(c, "writeDiscount") /\ UNCHANGED <<parent, walk>>) \/ Refuse(c) \/ Conflict(c)
    BY <1>5 DEF CreateDiscount, Remember, tables
  <2> QED
    BY <2>1, <2>2, ElsewhereLabels, RefusalIsQuiet DEF Over, Go, Quiet, walk
<1>6. CASE UpdateDiscount(c)
  <2>1. at[c] = "updateDiscount"
    BY <1>6 DEF UpdateDiscount
  <2>2. (Go(c, "writeDiscount") /\ UNCHANGED <<parent, walk>>) \/ Refuse(c) \/ Conflict(c)
    BY <1>6 DEF UpdateDiscount, Remember, tables
  <2> QED
    BY <2>1, <2>2, ElsewhereLabels, RefusalIsQuiet DEF Over, Go, Quiet, walk
<1>7. CASE WriteDiscount(c)
  <2>1. at[c] = "writeDiscount"
    BY <1>7 DEF WriteDiscount
  <2>2. (Go(c, "done") /\ UNCHANGED <<parent, walk>>) \/ Refuse(c) \/ Conflict(c)
    BY <1>7 DEF WriteDiscount
  <2> QED
    BY <2>1, <2>2, ElsewhereLabels, RefusalIsQuiet DEF Over, Go, Quiet, walk
<1> QED
  BY <1>1, <1>2, <1>3, <1>4, <1>5, <1>6, <1>7 DEF OtherStep

-----------------------------------------------------------------------------
(* A set of categories that follow each other would have to contain the    *)
(* one that moved, hence its new parent, hence ever more of the walk; what *)
(* it shares with the walk would be such a set before the move.            *)
LEMMA PlaceKeepsForest ==
  ASSUME ForestTypeOK, Forest, NEW k, NEW p \in There \cup {Root},
         NEW walked \in SUBSET Category,
         p \in walked \cup {Root},
         \A x \in walked : x # k /\ parent[x] \in walked \cup {Root},
         parent' = [parent EXCEPT ![k] = p]
  PROVE  Forest'
<1> SUFFICES ASSUME NEW S \in SUBSET There', S # {}, \A x \in S : parent'[x] \in S
             PROVE  FALSE
  BY DEF Forest
<1>1. S \subseteq Category /\ Root \notin S
  BY CatalogAssumption DEF There
<1>2. \A x \in S : x # k => x \in There /\ parent'[x] = parent[x]
  BY <1>1 DEF ForestTypeOK, There
<1>3. k \in S => p \in S
  BY <1>1 DEF ForestTypeOK
<1>4. CASE k \notin S
  <2>1. S \in SUBSET There /\ \A x \in S : parent[x] \in S
    BY <1>2, <1>4
  <2> QED
    BY <2>1 DEF Forest
<1>5. CASE k \in S
  <2> DEFINE T == S \cap walked
  <2>1. p \in T
    BY <1>1, <1>3, <1>5
  <2>2. T \in SUBSET There
    BY <1>2
  <2>3. \A x \in T : parent[x] \in T
    BY <1>1, <1>2
  <2> QED
    BY <2>1, <2>2, <2>3 DEF Forest
<1> QED
  BY <1>4, <1>5

(* Nothing leads to a category that does not exist yet.                    *)
LEMMA InsertKeepsForest ==
  ASSUME ForestTypeOK, Forest, NEW k, NEW p \in There \cup {Root}, k \notin There,
         parent' = [parent EXCEPT ![k] = p]
  PROVE  Forest'
<1> SUFFICES ASSUME NEW S \in SUBSET There', S # {}, \A x \in S : parent'[x] \in S
             PROVE  FALSE
  BY DEF Forest
<1>1. S \subseteq Category /\ Root \notin S
  BY CatalogAssumption DEF There
<1>2. \A x \in S : x # k => x \in There /\ parent'[x] = parent[x]
  BY <1>1 DEF ForestTypeOK, There
<1>3. k \in S => p \in S
  BY <1>1 DEF ForestTypeOK
<1> DEFINE T == S \ {k}
<1>4. T \in SUBSET There
  BY <1>2
<1>5. \A x \in T : parent[x] \in T
  BY <1>1, <1>2, <1>4 DEF ForestTypeOK
<1>6. T # {}
  BY <1>1, <1>3
<1> QED
  BY <1>4, <1>5, <1>6 DEF Forest

(* A category gets a parent that exists; categories and walks of others    *)
(* keep what they have.                                                    *)
LEMMA WriteKeepsTypes ==
  ASSUME ForestTypeOK, NEW c \in Call, NEW k, NEW p \in There \cup {Root},
         at' = [at EXCEPT ![c] = "done"], parent' = [parent EXCEPT ![k] = p],
         UNCHANGED <<req, cursor, seen, overlapped>>
  PROVE  ForestTypeOK' /\ There \subseteq There'
<1>1. There \subseteq Category /\ Root # Absent /\ p # Absent
  BY CatalogAssumption DEF There
<1>2. There \subseteq There'
  BY <1>1 DEF There, ForestTypeOK
<1>3. parent' \in [Category -> Category \cup {Root, Absent}]
  BY <1>1 DEF ForestTypeOK
<1>4. \A x \in There' : parent'[x] \in There' \cup {Root}
  BY <1>1, <1>2 DEF ForestTypeOK, There
<1>5. at' \in [Call -> Labels] /\ \A d \in Call : at'[d] = "done" \/ at'[d] = at[d]
  BY DEF ForestTypeOK, Labels, Over
<1> QED
  BY <1>2, <1>3, <1>4, <1>5 DEF ForestTypeOK

(* Then nobody is open, if the calls do not overlap.                       *)
LEMMA WriteClosesTheOnlyCall ==
  ASSUME ForestTypeOK, OneOpen, NEW c \in Call, at[c] \notin Over,
         at' = [at EXCEPT ![c] = "done"]
  PROVE  \A d \in Call : at'[d] \in Over
BY DEF ForestTypeOK, OneOpen, Over

LEMMA CategoryStepKeepsForest ==
  ASSUME ForestInv, NEW c \in Call, CategoryStep(c)
  PROVE  ForestInv'
<1> DEFINE k == req[c].category
           p == req[c].parent
<1>1. Existing(parent) = There
  BY DEF ForestInv, ForestTypeOK, Existing, There
<1>2. ASSUME at[c] \notin Over, Refuse(c) \/ Conflict(c) PROVE ForestInv'
  BY <1>2, RefusalIsQuiet, QuietKeepsForest
<1>3. CASE CreateCategory(c)
  <2>1. CASE Refuse(c)
    BY <1>2, <1>3, <2>1 DEF CreateCategory, Over
  <2>2. CASE p \in There \cup {Root} /\ Go(c, "insertCategory") /\ UNCHANGED <<tables, walk>>
    <3>1. ForestTypeOK'
      BY <2>2 DEF ForestInv, ForestTypeOK, There, Go, tables, walk, Labels
    <3>2. ASSUME ~overlapped PROVE SerialForest'
      <4>1. OneOpen'
        BY <1>3, <2>2, <3>2 DEF ForestInv, ForestTypeOK, SerialForest, OneOpen, Go, CreateCategory, Over
      <4>2. Forest'
        BY <2>2, <3>2 DEF ForestInv, SerialForest, Forest, There, tables
      <4>3. \A d \in Call : at'[d] \in {"walk", "placeCategory"} => at'[d] = at[d]
        BY <2>2 DEF ForestInv, ForestTypeOK, Go
      <4>4. \A d \in Call : Climbed(d)' <=> Climbed(d)
        BY <2>2 DEF Climbed, Go, tables, walk
      <4> QED
        BY <2>2, <3>2, <4>1, <4>2, <4>3, <4>4 DEF ForestInv, SerialForest, walk
    <3> QED
      BY <2>2, <3>1, <3>2 DEF ForestInv, Go
  <2> QED
    BY <1>1, <1>3, <2>1, <2>2 DEF CreateCategory
<1>4. CASE InsertCategory(c)
  <2>1. CASE Conflict(c)
    BY <1>2, <1>4, <2>1 DEF InsertCategory, Over
  <2>2. CASE k \notin There /\ parent' = [parent EXCEPT ![k] = p] /\ Go(c, "done") /\ UNCHANGED walk
    <3>1. p \in There \cup {Root}
      BY <1>4 DEF ForestInv, ForestTypeOK, InsertCategory
    <3>2. ForestTypeOK'
      BY <2>2, <3>1, WriteKeepsTypes DEF ForestInv, Go, walk
    <3>3. ASSUME ~overlapped PROVE SerialForest'
      <4>1. Forest'
        BY <2>2, <3>1, <3>3, InsertKeepsForest DEF ForestInv, SerialForest
      <4>2. \A d \in Call : at'[d] \in Over
        BY <1>4, <2>2, <3>3, WriteClosesTheOnlyCall DEF ForestInv, SerialForest, Go, InsertCategory, Over
      <4> QED
        BY <4>1, <4>2 DEF SerialForest, OneOpen, Over
    <3> QED
      BY <2>2, <3>2, <3>3 DEF ForestInv, Go
  <2> QED
    BY <1>4, <2>1, <2>2 DEF InsertCategory, There
<1>5. CASE MoveCategory(c)
  <2>1. CASE Refuse(c)
    BY <1>2, <1>5, <2>1 DEF MoveCategory, Over
  <2>2. CASE /\ p \in There \cup {Root} /\ Go(c, "walk") /\ UNCHANGED tables
             /\ cursor' = [cursor EXCEPT ![c] = p] /\ seen' = [seen EXCEPT ![c] = {}]
    <3>1. ForestTypeOK'
      <4>1. cursor' \in [Call -> Category \cup {Root}] /\ seen' \in [Call -> SUBSET Category]
        BY <2>2 DEF ForestInv, ForestTypeOK, There
      <4>2. There' = There /\ req' = req /\ parent' = parent /\ overlapped' = overlapped
        BY <2>2 DEF There, tables, Go
      <4>3. \A d \in Call : d # c => at'[d] = at[d] /\ cursor'[d] = cursor[d]
        BY <2>2 DEF ForestInv, ForestTypeOK, Go
      <4>4. at' \in [Call -> Labels] /\ cursor'[c] = p
        BY <2>2 DEF ForestInv, ForestTypeOK, Go, Labels
      <4> QED
        BY <2>2, <4>1, <4>2, <4>3, <4>4 DEF ForestInv, ForestTypeOK
    <3>2. ASSUME ~overlapped PROVE SerialForest'
      <4>1. OneOpen'
        BY <1>5, <2>2, <3>2 DEF ForestInv, ForestTypeOK, SerialForest, OneOpen, Go, MoveCategory, Over
      <4>2. Forest'
        BY <2>2, <3>2 DEF ForestInv, SerialForest, Forest, There, tables
      <4>3. \A d \in Call : d # c => at'[d] \in Over
        BY <1>5, <2>2, <3>2 DEF ForestInv, ForestTypeOK, SerialForest, OneOpen, Go, MoveCategory, Over
      <4>4. Climbed(c)' /\ at'[c] = "walk"
        BY <2>2 DEF ForestInv, ForestTypeOK, Climbed, Go
      <4> QED
        BY <4>1, <4>2, <4>3, <4>4 DEF SerialForest, Over
    <3> QED
      BY <2>2, <3>1, <3>2 DEF ForestInv, Go
  <2> QED
    BY <1>1, <1>5, <2>1, <2>2 DEF MoveCategory
<1>6. CASE Walk(c)
  <2>0. at[c] = "walk"
    BY <1>6 DEF Walk
  <2>1. CASE Refuse(c)
    BY <1>2, <2>0, <2>1 DEF Over
  <2>2. CASE Go(c, "placeCategory") /\ WalkEnds(c) /\ UNCHANGED <<tables, walk>>
    <3>1. There' = There /\ UNCHANGED <<parent, cursor, seen, req, overlapped>>
      BY <2>2 DEF There, tables, walk, Go
    <3>2. at' = [at EXCEPT ![c] = "placeCategory"] /\ at' \in [Call -> Labels]
      BY <2>2 DEF ForestInv, ForestTypeOK, Go, Labels
    <3>3. ForestTypeOK'
      BY <2>0, <3>1, <3>2 DEF ForestInv, ForestTypeOK
    <3>4. ASSUME ~overlapped PROVE SerialForest'
      <4>1. OneOpen'
        BY <2>0, <3>1, <3>2, <3>4 DEF ForestInv, ForestTypeOK, SerialForest, OneOpen, Over
      <4>2. Forest'
        BY <3>1, <3>4 DEF ForestInv, SerialForest, Forest
      <4>3. \A d \in Call : Climbed(d)' <=> Climbed(d)
        BY <3>1 DEF Climbed
      <4>4. \A d \in Call : at'[d] \in {"walk", "placeCategory"} => Climbed(d)'
        BY <2>0, <3>2, <3>4, <4>3 DEF ForestInv, ForestTypeOK, SerialForest
      <4>5. \A d \in Call : at'[d] = "placeCategory" => cursor'[d] = Root \/ cursor'[d] \in seen'[d]
        BY <2>2, <3>1, <3>2, <3>4 DEF ForestInv, ForestTypeOK, SerialForest, WalkEnds
      <4> QED
        BY <4>1, <4>2, <4>4, <4>5 DEF SerialForest
    <3> QED
      BY <3>1, <3>3, <3>4 DEF ForestInv
  <2>3. CASE /\ cursor[c] # k /\ ~WalkEnds(c)
             /\ seen' = [seen EXCEPT ![c] = @ \cup {cursor[c]}]
             /\ cursor' = [cursor EXCEPT ![c] = parent[cursor[c]]]
             /\ Go(c, "walk") /\ UNCHANGED tables
    <3>1. There' = There /\ UNCHANGED <<parent, req, overlapped>>
      BY <2>3 DEF There, tables, Go
    <3>2. at' = at
      BY <2>0, <2>3 DEF ForestInv, ForestTypeOK, Go
    <3>3. cursor[c] \in There /\ parent[cursor[c]] \in There \cup {Root}
      BY <2>0, <2>3 DEF ForestInv, ForestTypeOK, WalkEnds
    <3>4. /\ cursor' \in [Call -> Category \cup {Root}]
          /\ seen' \in [Call -> SUBSET Category]
      BY <2>3, <3>3 DEF ForestInv, ForestTypeOK, There
    <3>5. ForestTypeOK'
      BY <2>3, <3>1, <3>2, <3>3, <3>4 DEF ForestInv, ForestTypeOK
    <3>6. ASSUME ~overlapped PROVE SerialForest'
      <4>1. OneOpen' /\ Forest'
        BY <3>1, <3>2, <3>6 DEF ForestInv, SerialForest, OneOpen, Forest
      <4>2. Climbed(c)'
        BY <2>0, <2>3, <3>1, <3>6 DEF ForestInv, ForestTypeOK, SerialForest, Climbed
      <4>3. \A d \in Call : d # c => at[d] \in Over
        BY <2>0, <3>6 DEF ForestInv, SerialForest, OneOpen, Over
      <4> QED
        BY <2>0, <3>2, <4>1, <4>2, <4>3 DEF SerialForest, Over
    <3> QED
      BY <3>1, <3>5, <3>6 DEF ForestInv
  <2> QED
    BY <1>6, <2>1, <2>2, <2>3 DEF Walk
<1>7. CASE PlaceCategory(c)
  <2>1. parent' = [parent EXCEPT ![k] = p] /\ Go(c, "done") /\ UNCHANGED walk /\ at[c] = "placeCategory"
    BY <1>7 DEF PlaceCategory
  <2>2. p \in There \cup {Root}
    BY <2>1 DEF ForestInv, ForestTypeOK
  <2>3. ForestTypeOK'
    BY <2>1, <2>2, WriteKeepsTypes DEF ForestInv, Go, walk
  <2>4. ASSUME ~overlapped PROVE SerialForest'
    <3>1. Climbed(c) /\ (cursor[c] = Root \/ cursor[c] \in seen[c]) /\ seen[c] \in SUBSET Category
      BY <2>1, <2>4 DEF ForestInv, ForestTypeOK, SerialForest
    <3>2. Forest'
      <4>1. p \in seen[c] \cup {Root} /\ \A x \in seen[c] : x # k /\ parent[x] \in seen[c] \cup {Root}
        BY <3>1 DEF Climbed
      <4>2. ForestTypeOK /\ Forest
        BY <2>4 DEF ForestInv, SerialForest
      <4> HIDE DEF k, p
      <4> QED
        BY <2>1, <2>2, <3>1, <4>1, <4>2, PlaceKeepsForest
    <3>3. \A d \in Call : at'[d] \in Over
      BY <2>1, <2>4, WriteClosesTheOnlyCall DEF ForestInv, SerialForest, Go, Over
    <3> QED
      BY <3>2, <3>3 DEF SerialForest, OneOpen, Over
  <2> QED
    BY <2>1, <2>3, <2>4 DEF ForestInv, Go
<1> QED
  BY <1>3, <1>4, <1>5, <1>6, <1>7 DEF CategoryStep

LEMMA ArriveKeepsForest ==
  ASSUME ForestInv, NEW c \in Call, NEW r \in Request, Arrive(c, r)
  PROVE  ForestInv'
<1> r.op \in Operations
  BY CatalogAssumption
<1>1. There' = There /\ UNCHANGED <<parent, cursor, seen>> /\ at[c] = "idle"
  BY DEF Arrive, tables, walk, There
<1>2. at' = [at EXCEPT ![c] = r.op] /\ at' \in [Call -> Labels]
  BY DEF ForestInv, ForestTypeOK, Arrive, Labels
<1>3. \A d \in Call : at'[d] \in {"insertCategory", "walk", "placeCategory"} =>
                         d # c /\ at'[d] = at[d] /\ req'[d] = req[d]
  BY <1>2 DEF ForestInv, ForestTypeOK, Arrive, Operations
<1>4. ForestTypeOK'
  BY <1>1, <1>2, <1>3 DEF ForestInv, ForestTypeOK, Arrive
<1>5. ASSUME ~overlapped' PROVE SerialForest'
  <2>1. ~overlapped /\ \A d \in Call : at[d] \in Over
    BY <1>5 DEF Arrive
  <2>2. OneOpen'
    BY <1>2, <2>1 DEF OneOpen, ForestInv, ForestTypeOK
  <2>3. Forest'
    BY <1>1, <2>1 DEF ForestInv, SerialForest, Forest
  <2>4. \A d \in Call : at'[d] \notin {"walk", "placeCategory"}
    BY <1>3, <2>1 DEF Over
  <2> QED
    BY <2>2, <2>3, <2>4 DEF SerialForest
<1> QED
  BY <1>4, <1>5 DEF ForestInv

(* The categories stay a forest, with what a walk has found out so far.    *)
THEOREM CatalogForest == Spec => []ForestInv
<1>1. Init => ForestInv
  BY ForestInit
<1>2. ForestInv /\ [Next]_vars => ForestInv'
  <2> SUFFICES ASSUME ForestInv, [Next]_vars PROVE ForestInv'
    OBVIOUS
  <2>1. ASSUME NEW c \in Call, NEW r \in Request, Arrive(c, r) PROVE ForestInv'
    BY <2>1, ArriveKeepsForest
  <2>2. ASSUME NEW c \in Call, CategoryStep(c) PROVE ForestInv'
    BY <2>2, CategoryStepKeepsForest
  <2>3. ASSUME NEW c \in Call, ProductStep(c) PROVE ForestInv'
    BY <2>3, ProductStepIsQuiet, QuietKeepsForest
  <2>4. ASSUME NEW c \in Call, OtherStep(c) PROVE ForestInv'
    BY <2>4, OtherStepIsQuiet, QuietKeepsForest
  <2>5. CASE UNCHANGED vars
    BY <2>5 DEF vars, tables, walk, ForestInv, ForestTypeOK, SerialForest, There, Forest, OneOpen, Climbed
  <2>6. CASE Terminating
    BY <2>5, <2>6 DEF Terminating
  <2> QED
    BY <2>1, <2>2, <2>3, <2>4, <2>5, <2>6 DEF Next
<1> QED
  BY <1>1, <1>2, PTL DEF Spec

(* update's assertNoCycle suffices for calls that do not overlap, for any  *)
(* hierarchy, calls and requests.                                          *)
THEOREM CatalogSerialMoves == Spec => []SerialMovesMakeNoCycle
<1>1. ForestInv => SerialMovesMakeNoCycle
  <2>1. ForestTypeOK => Existing(parent) = There
    BY DEF ForestTypeOK, Existing, There
  <2> QED
    BY <2>1 DEF ForestInv, SerialForest, Forest, SerialMovesMakeNoCycle, NoCycle
<1> QED
  BY <1>1, CatalogForest, PTL

-----------------------------------------------------------------------------
(* The values of the variants, whatever interleaves: a commit and a delete *)
(* check the links, other steps leave them and only add values.            *)
LEMMA CarriedValuesInit == Init => CarriedValuesExist
<1> SUFFICES ASSUME Init, NEW v \in Existing(variants)
             PROVE  variants[v].values \subseteq values
  BY DEF CarriedValuesExist
<1>1. v \in VariantId /\ variants[v] = (IF v \in Variant THEN Variants[v] ELSE Absent) /\ variants[v] # Absent
  BY DEF Init, Existing
<1>2. v \in Variant /\ variants[v] = Variants[v]
  BY <1>1
<1> QED
  BY <1>1, <1>2, CatalogAssumption DEF Init

LEMMA LinksKept ==
  ASSUME CarriedValuesExist, UNCHANGED variants, values \subseteq values'
  PROVE  CarriedValuesExist'
BY DEF CarriedValuesExist, Existing

LEMMA ProductStepKeepsLinks ==
  ASSUME CarriedValuesExist, NEW c \in Call, ProductStep(c)
  PROVE  CarriedValuesExist'
<1>1. CASE CommitVariants(c)
  <2>1. CASE Conflict(c)
    BY <2>1, LinksKept DEF Conflict, tables
  <2>2. CASE ValuesExist(Written(c)) /\ variants' = Written(c) /\ values' = values
    BY <2>2 DEF CarriedValuesExist, ValuesExist, Existing
  <2> QED
    BY <1>1, <2>1, <2>2 DEF CommitVariants
<1>2. CASE WriteVariant(c)
  <2>1. CASE Conflict(c)
    BY <2>1, LinksKept DEF Conflict, tables
  <2>2. CASE ValuesExist(Updated(c)) /\ variants' = Updated(c) /\ values' = values
    BY <2>2 DEF CarriedValuesExist, ValuesExist, Existing
  <2> QED
    BY <1>2, <2>1, <2>2 DEF WriteVariant
<1>3. CASE CreateProduct(c) \/ UpdateProduct(c) \/ AddVariant(c) \/ PrepareVariant(c) \/ UpdateVariant(c)
  <2>1. UNCHANGED tables
    BY <1>3 DEF CreateProduct, UpdateProduct, AddVariant, PrepareVariant, UpdateVariant, Refuse, Remember
  <2> QED
    BY <2>1, LinksKept DEF tables
<1> QED
  BY <1>1, <1>2, <1>3 DEF ProductStep

LEMMA OtherStepKeepsLinks ==
  ASSUME CarriedValuesExist, NEW c \in Call, OtherStep(c)
  PROVE  CarriedValuesExist'
<1>1. CASE DeleteValues(c)
  <2>1. CASE Conflict(c)
    BY <2>1, LinksKept DEF Conflict, tables
  <2>2. CASE Restricts(Doomed(req[c])) /\ values' = values \ Doomed(req[c]) /\ UNCHANGED variants
    BY <2>2 DEF CarriedValuesExist, Restricts, Existing
  <2> QED
    BY <1>1, <2>1, <2>2 DEF DeleteValues
<1>2. CASE RemoveValues(c) \/ CreateDiscount(c) \/ UpdateDiscount(c)
  <2>1. UNCHANGED tables
    BY <1>2 DEF RemoveValues, CreateDiscount, UpdateDiscount, Refuse, Remember
  <2> QED
    BY <2>1, LinksKept DEF tables
<1>3. CASE AddValue(c)
  BY <1>3, LinksKept DEF AddValue, Refuse, tables
<1>4. CASE SetActive(c)
  BY <1>4, LinksKept DEF SetActive, Refuse, tables
<1>5. CASE WriteDiscount(c)
  BY <1>5, LinksKept DEF WriteDiscount, Conflict, tables
<1> QED
  BY <1>1, <1>2, <1>3, <1>4, <1>5 DEF OtherStep

LEMMA CategoryStepKeepsLinks ==
  ASSUME CarriedValuesExist, NEW c \in Call, CategoryStep(c)
  PROVE  CarriedValuesExist'
<1>1. UNCHANGED <<variants, values>>
  BY DEF CategoryStep, CreateCategory, InsertCategory, MoveCategory, Walk, PlaceCategory,
         Refuse, Conflict, tables
<1> QED
  BY <1>1, LinksKept

(* Removing an attribute value races with the calls that link it; the      *)
(* foreign key decides, for any number of calls, variants and values.      *)
THEOREM CatalogValues == Spec => []CarriedValuesExist
<1>1. CarriedValuesExist /\ [Next]_vars => CarriedValuesExist'
  <2> SUFFICES ASSUME CarriedValuesExist, [Next]_vars PROVE CarriedValuesExist'
    OBVIOUS
  <2>1. ASSUME NEW c \in Call, NEW r \in Request, Arrive(c, r) PROVE CarriedValuesExist'
    BY <2>1, LinksKept DEF Arrive, tables
  <2>2. ASSUME NEW c \in Call, CategoryStep(c) \/ ProductStep(c) \/ OtherStep(c)
        PROVE  CarriedValuesExist'
    BY <2>2, CategoryStepKeepsLinks, ProductStepKeepsLinks, OtherStepKeepsLinks
  <2>3. CASE UNCHANGED vars
    BY <2>3, LinksKept DEF vars, tables
  <2> QED
    BY <2>1, <2>2, <2>3 DEF Next, Terminating
<1> QED
  BY <1>1, CarriedValuesInit, PTL DEF Spec
-----------------------------------------------------------------------------
(* The row a call that has passed its checks would store.                  *)
Stored(c) ==
  LET old == discounts[req[c].discount]
  IN IF old = Absent THEN [scope |-> mem[c].scope, targets |-> mem[c].targets]
     ELSE [scope |-> Given(mem[c].scope, old.scope), targets |-> Given(mem[c].targets, old.targets)]
Untargeted(d) == d.scope = "ORDER" => d.targets = {}

(* What a call decided from the row it read still suits the row it writes, *)
(* as long as no other call is open.                                       *)
DiscountsInv ==
  /\ ForestInv
  /\ DOMAIN mem = Call
  /\ ~overlapped =>
       /\ \A d \in Existing(discounts) : Untargeted(discounts[d])
       /\ \A c \in Call : at[c] = "writeDiscount" /\ req[c].discount \in DOMAIN discounts =>
                            Untargeted(Stored(c))

(* A step of an open call that neither writes a discount nor is about to.  *)
Aside(c) ==
  /\ at[c] \notin Over
  /\ UNCHANGED <<discounts, req, overlapped, DOMAIN mem>>
  /\ \E s \in Labels \ {"writeDiscount"} : at' = [at EXCEPT ![c] = s]

LEMMA AsideKeepsDiscounts ==
  ASSUME DiscountsInv, ForestInv', NEW c \in Call, Aside(c)
  PROVE  DiscountsInv'
<1>1. ASSUME ~overlapped', NEW d \in Call PROVE at'[d] # "writeDiscount"
  <2>1. OneOpen
    BY <1>1 DEF DiscountsInv, ForestInv, SerialForest, Aside
  <2>2. at \in [Call -> Labels]
    BY DEF DiscountsInv, ForestInv, ForestTypeOK
  <2> QED
    BY <2>1, <2>2 DEF Aside, OneOpen, Over
<1> QED
  BY <1>1 DEF DiscountsInv, Aside, Existing, Untargeted

LEMMA AsideLabels ==
  \A s \in {"done", "refused", "conflict", "variants", "writeVariant", "deleteValues",
            "insertCategory", "walk", "placeCategory"} : s \in Labels \ {"writeDiscount"}
BY DEF Labels, Over

LEMMA GoIsAside ==
  ASSUME NEW c \in Call, at[c] \notin Over, UNCHANGED <<discounts, DOMAIN mem>>,
         NEW s \in Labels \ {"writeDiscount"}, Go(c, s)
  PROVE  Aside(c)
BY DEF Aside, Go

LEMMA RefusalIsAside ==
  ASSUME NEW c \in Call, at[c] \notin Over, Refuse(c) \/ Conflict(c)
  PROVE  Aside(c)
BY AsideLabels DEF Refuse, Conflict, Go, Aside, tables

LEMMA RememberKeepsDomain ==
  ASSUME NEW c, NEW m, NEW s, Remember(c, m, s)
  PROVE  UNCHANGED <<discounts, DOMAIN mem>> /\ Go(c, s)
BY DEF Remember, tables

LEMMA CategoryStepIsAside ==
  ASSUME NEW c \in Call, CategoryStep(c)
  PROVE  Aside(c)
<1> USE AsideLabels
<1>1. at[c] \notin Over
  BY DEF CategoryStep, CreateCategory, InsertCategory, MoveCategory, Walk, PlaceCategory, Over
<1>2. \/ Refuse(c) \/ Conflict(c)
      \/ UNCHANGED <<discounts, mem>> /\
           \E s \in {"insertCategory", "walk", "placeCategory", "done"} : Go(c, s)
  BY DEF CategoryStep, CreateCategory, InsertCategory, MoveCategory, Walk, PlaceCategory, tables
<1> QED
  BY <1>1, <1>2, RefusalIsAside, GoIsAside

LEMMA ProductStepIsAside ==
  ASSUME NEW c \in Call, ProductStep(c)
  PROVE  Aside(c)
<1> USE AsideLabels
<1>1. at[c] \notin Over
  BY DEF ProductStep, CreateProduct, UpdateProduct, AddVariant, PrepareVariant, CommitVariants,
         UpdateVariant, WriteVariant, Over
<1>2. CASE CreateProduct(c) \/ UpdateProduct(c) \/ AddVariant(c) \/ PrepareVariant(c)
  <2>1. Refuse(c) \/ \E m : Remember(c, m, "variants")
    BY <1>2 DEF CreateProduct, UpdateProduct, AddVariant, PrepareVariant
  <2> QED
    BY <1>1, <2>1, RefusalIsAside, RememberKeepsDomain, GoIsAside
<1>3. CASE UpdateVariant(c)
  <2>1. Refuse(c) \/ \E m : Remember(c, m, "writeVariant")
    BY <1>3 DEF UpdateVariant
  <2> QED
    BY <1>1, <2>1, RefusalIsAside, RememberKeepsDomain, GoIsAside
<1>4. CASE CommitVariants(c) \/ WriteVariant(c)
  <2>1. Conflict(c) \/ (UNCHANGED <<discounts, mem>> /\ Go(c, "done"))
    BY <1>4 DEF CommitVariants, WriteVariant
  <2> QED
    BY <1>1, <2>1, RefusalIsAside, GoIsAside
<1> QED
  BY <1>2, <1>3, <1>4 DEF ProductStep

(* create refuses the targets, update drops them or finds none.            *)
LEMMA ChecksLeaveUntargeted ==
  ASSUME DiscountsInv, ~overlapped, NEW c \in Call,
         CreateDiscount(c) \/ UpdateDiscount(c), at'[c] = "writeDiscount",
         req[c].discount \in DOMAIN discounts
  PROVE  Untargeted(Stored(c))'
<1> DEFINE r == req[c]
           old == discounts[r.discount]
<1>1. at \in [Call -> Labels] /\ c \in DOMAIN mem
  BY DEF DiscountsInv, ForestInv, ForestTypeOK
<1>2. ~Refuse(c)
  BY <1>1 DEF Refuse, Go
<1>3. CASE CreateDiscount(c)
  <2>1. old = Absent /\ TargetsValid(r.scope, r.targets) /\ UNCHANGED <<req, discounts>>
    BY <1>2, <1>3 DEF CreateDiscount, Remember, Go, tables
  <2>2. mem'[c] = [rows |-> <<>>, scope |-> r.scope, targets |-> r.targets]
    BY <1>1, <1>2, <1>3 DEF CreateDiscount, Remember
  <2>3. mem'[c].scope = r.scope /\ mem'[c].targets = r.targets
    BY <2>2
  <2>4. Stored(c)' = [scope |-> r.scope, targets |-> r.targets]
    BY <2>1, <2>3 DEF Stored
  <2> QED
    BY <2>1, <2>4 DEF Untargeted, TargetsValid
<1>4. CASE UpdateDiscount(c)
  <2> DEFINE scope == Given(r.scope, old.scope)
             targets == NewTargets(scope, old.targets, r.targets)
  <2>1. old # Absent /\ UNCHANGED <<req, discounts>>
    BY <1>2, <1>4 DEF UpdateDiscount, Remember, Go, tables
  <2>2. mem'[c] = [rows |-> <<>>, scope |-> r.scope, targets |-> targets]
    BY <1>1, <1>2, <1>4 DEF UpdateDiscount, Remember
  <2>3. mem'[c].scope = r.scope /\ mem'[c].targets = targets
    BY <2>2
  <2>4. Stored(c)' = [scope |-> scope, targets |-> Given(targets, old.targets)]
    BY <2>1, <2>3 DEF Stored
  <2>5. scope = "ORDER" => Given(targets, old.targets) = {}
    BY DiscountAssumption DEF NewTargets, Given
  <2> QED
    BY <2>4, <2>5 DEF Untargeted
<1> QED
  BY <1>3, <1>4

LEMMA DiscountStepKeeps ==
  ASSUME DiscountsInv, ForestInv', NEW c \in Call,
         CreateDiscount(c) \/ UpdateDiscount(c) \/ WriteDiscount(c)
  PROVE  DiscountsInv'
<1>1. at[c] \notin Over /\ at \in [Call -> Labels] /\ DOMAIN mem = Call
  BY DEF CreateDiscount, UpdateDiscount, WriteDiscount, Over, DiscountsInv, ForestInv, ForestTypeOK
<1>2. CASE Refuse(c) \/ Conflict(c)
  BY <1>1, <1>2, RefusalIsAside, AsideKeepsDiscounts
<1>3. CASE CreateDiscount(c) \/ UpdateDiscount(c)
  <2>1. CASE \E m : Remember(c, m, "writeDiscount")
    <3>1. UNCHANGED <<discounts, DOMAIN mem, req, overlapped>> /\ at' = [at EXCEPT ![c] = "writeDiscount"]
      BY <2>1 DEF Remember, Go, tables
    <3>2. ASSUME ~overlapped', NEW d \in Call, at'[d] = "writeDiscount" PROVE d = c
      BY <1>1, <3>1, <3>2 DEF DiscountsInv, ForestInv, SerialForest, OneOpen, Over
    <3>3. ASSUME ~overlapped', req[c].discount \in DOMAIN discounts PROVE Untargeted(Stored(c))'
      BY <1>1, <1>3, <3>1, <3>3, ChecksLeaveUntargeted
    <3>4. ASSUME ~overlapped' PROVE \A d \in Existing(discounts)' : Untargeted(discounts'[d])
      BY <3>1, <3>4 DEF DiscountsInv, Existing
    <3>5. \A d \in Call : ~overlapped' /\ at'[d] = "writeDiscount" /\ req'[d].discount \in DOMAIN discounts' =>
                            Untargeted(Stored(d))'
      BY <3>1, <3>2, <3>3
    <3> QED
      BY <1>1, <3>1, <3>4, <3>5 DEF DiscountsInv, Untargeted
  <2> QED
    BY <1>2, <1>3, <2>1 DEF CreateDiscount, UpdateDiscount
<1>4. CASE WriteDiscount(c) /\ ~Conflict(c)
  <2>1. discounts' = [discounts EXCEPT ![req[c].discount] = Stored(c)] /\ at[c] = "writeDiscount"
    BY <1>4 DEF WriteDiscount, Stored
  <2>2. UNCHANGED <<mem, overlapped>> /\ at' = [at EXCEPT ![c] = "done"]
    BY <1>4 DEF WriteDiscount, Go
  <2>3. ASSUME ~overlapped', NEW d \in Call PROVE at'[d] # "writeDiscount"
    BY <1>1, <2>2, <2>3 DEF DiscountsInv, ForestInv, SerialForest, OneOpen, Over
  <2>4. ASSUME ~overlapped', NEW d \in Existing(discounts)' PROVE Untargeted(discounts'[d])
    <3>1. d \in DOMAIN discounts /\ discounts'[d] # Absent
      BY <2>1, <2>4 DEF Existing
    <3>2. CASE d = req[c].discount
      BY <2>1, <2>2, <2>4, <3>1, <3>2 DEF DiscountsInv
    <3>3. CASE d # req[c].discount
      <4>1. d \in Existing(discounts) /\ discounts'[d] = discounts[d]
        BY <2>1, <3>1, <3>3 DEF Existing
      <4> QED
        BY <2>2, <2>4, <4>1 DEF DiscountsInv
    <3> QED
      BY <3>2, <3>3
  <2>5. ~overlapped' => \A d \in Existing(discounts)' : Untargeted(discounts'[d])
    BY <2>4
  <2>6. ~overlapped' => \A d \in Call : at'[d] # "writeDiscount"
    BY <2>3
  <2> QED
    BY <1>1, <2>2, <2>5, <2>6 DEF DiscountsInv, Untargeted
<1> QED
  BY <1>2, <1>3, <1>4

LEMMA OtherStepKeepsDiscounts ==
  ASSUME DiscountsInv, ForestInv', NEW c \in Call, OtherStep(c)
  PROVE  DiscountsInv'
<1> USE AsideLabels
<1>1. CASE RemoveValues(c) \/ DeleteValues(c) \/ AddValue(c) \/ SetActive(c)
  <2>1. at[c] \notin Over
    BY <1>1 DEF RemoveValues, DeleteValues, AddValue, SetActive, Over
  <2>2. \/ Refuse(c) \/ Conflict(c)
        \/ UNCHANGED <<discounts, mem>> /\ \E s \in {"deleteValues", "done"} : Go(c, s)
    BY <1>1 DEF RemoveValues, DeleteValues, AddValue, SetActive, tables
  <2> QED
    BY <2>1, <2>2, RefusalIsAside, GoIsAside, AsideKeepsDiscounts
<1> QED
  BY <1>1, DiscountStepKeeps DEF OtherStep

(* "Only LINE_ITEM discounts can target specific variants", of any         *)
(* discounts, variants and requests, while calls do not overlap.           *)
THEOREM CatalogDiscounts == Spec => []OrderDiscountsHaveNoTargets
<1>1. Init => DiscountsInv
  <2> SUFFICES ASSUME Init PROVE DiscountsInv
    OBVIOUS
  <2>1. DOMAIN mem = Call /\ \A c \in Call : at[c] # "writeDiscount"
    BY DEF Init
  <2>2. \A d \in Existing(discounts) : Untargeted(discounts[d])
    BY DiscountAssumption DEF Init, Existing, Untargeted
  <2> QED
    BY <2>1, <2>2, ForestInit DEF DiscountsInv
<1>2. DiscountsInv /\ ForestInv' /\ [Next]_vars => DiscountsInv'
  <2> SUFFICES ASSUME DiscountsInv, ForestInv', [Next]_vars PROVE DiscountsInv'
    OBVIOUS
  <2>1. ASSUME NEW c \in Call, NEW r \in Request, Arrive(c, r) PROVE DiscountsInv'
    <3>1. r.op # "writeDiscount" /\ at \in [Call -> Labels]
      BY CatalogAssumption DEF Operations, DiscountsInv, ForestInv, ForestTypeOK
    <3>2. UNCHANGED <<discounts, mem>>
      BY <2>1 DEF Arrive, tables
    <3>3. ASSUME ~overlapped', NEW d \in Call PROVE at'[d] # "writeDiscount"
      BY <2>1, <3>1, <3>3 DEF Arrive, Over
    <3>4. ASSUME ~overlapped' PROVE ~overlapped
      BY <2>1, <3>4 DEF Arrive
    <3> QED
      BY <3>2, <3>3, <3>4 DEF DiscountsInv, Existing, Untargeted
  <2>2. ASSUME NEW c \in Call, CategoryStep(c) \/ ProductStep(c) PROVE DiscountsInv'
    BY <2>2, CategoryStepIsAside, ProductStepIsAside, AsideKeepsDiscounts
  <2>3. ASSUME NEW c \in Call, OtherStep(c) PROVE DiscountsInv'
    BY <2>3, OtherStepKeepsDiscounts
  <2>4. CASE UNCHANGED vars
    BY <2>4 DEF vars, tables, DiscountsInv, Existing, Untargeted, Stored
  <2> QED
    BY <2>1, <2>2, <2>3, <2>4 DEF Next, Terminating
<1>3. DiscountsInv => OrderDiscountsHaveNoTargets
  BY DEF DiscountsInv, OrderDiscountsHaveNoTargets, Untargeted
<1> QED
  BY <1>1, <1>2, <1>3, CatalogForest, PTL DEF Spec

-----------------------------------------------------------------------------
(* Numbers.                                                                *)
LEMMA GreatestExists ==
  ASSUME NEW S \in SUBSET Int, IsFiniteSet(S), S # {}
  PROVE  \E n \in S : \A m \in S : m <= n
<1> DEFINE G == {T \in SUBSET S : T = {} \/ \E n \in T : \A m \in T : m <= n}
<1>1. {} \in G
  OBVIOUS
<1>2. \A T \in SUBSET S : \A x \in S \ T : T \in G => T \cup {x} \in G
  <2> SUFFICES ASSUME NEW T \in SUBSET S, NEW x \in S \ T, T \in G PROVE T \cup {x} \in G
    OBVIOUS
  <2>1. CASE T = {}
    BY <2>1
  <2>2. CASE T # {}
    <3>1. PICK n \in T : \A m \in T : m <= n
      BY <2>2
    <3>2. CASE x <= n
      BY <3>1, <3>2
    <3>3. CASE ~(x <= n)
      <4>1. \A m \in T \cup {x} : m <= x
        BY <3>1, <3>3
      <4> QED
        BY <4>1
    <3> QED
      BY <3>2, <3>3
  <2> QED
    BY <2>1, <2>2
<1> HIDE DEF G
<1>3. S \in G
  BY <1>1, <1>2, SubsetInduction
<1> QED
  BY <1>3 DEF G

LEMMA HighestBounds ==
  ASSUME NEW ns \in SUBSET Nat, IsFiniteSet(ns)
  PROVE  Highest(ns) \in Nat /\ \A m \in ns : m <= Highest(ns)
<1>1. CASE ns = {}
  BY <1>1 DEF Highest
<1>2. CASE ns # {}
  <2>1. \E n \in ns : \A m \in ns : m <= n
    BY <1>2, GreatestExists
  <2>2. Highest(ns) \in ns /\ \A m \in ns : m <= Highest(ns)
    BY <1>2, <2>1 DEF Highest
  <2> QED
    BY <2>2
<1> QED
  BY <1>1, <1>2

(* Counting up from first past the numbers that are given ends within as   *)
(* many steps as there are of them.                                        *)
Skips(n, first, given) == n \notin given /\ \A m \in first .. n - 1 : m \in given
LEMMA NumberExists ==
  ASSUME NEW first \in Nat, NEW given, IsFiniteSet(given)
  PROVE  \E n \in first .. first + Cardinality(given) : Skips(n, first, given)
<1> DEFINE last == first + Cardinality(given)
           free == {m \in first .. last : m \notin given}
<1>1. Cardinality(given) \in Nat /\ last \in Nat
  BY FS_CardinalityType
<1>2. IsFiniteSet(first .. last) /\ Cardinality(first .. last) = Cardinality(given) + 1
  BY <1>1, FS_Interval
<1>3. free # {}
  <2> SUFFICES ASSUME first .. last \in SUBSET given PROVE FALSE
    OBVIOUS
  <2>1. Cardinality(first .. last) <= Cardinality(given)
    BY FS_Subset
  <2> QED
    BY <1>1, <1>2, <2>1
<1>4. PICK n \in free : \A m \in free : n <= m
  <2> DEFINE back == [m \in Int |-> 0 - m]
             S == {back[m] : m \in free}
  <2>1. IsFiniteSet(free)
    BY <1>2, FS_Subset
  <2>2. S \in SUBSET Int /\ S # {} /\ IsFiniteSet(S)
    <3>1. free \in SUBSET Int
      OBVIOUS
    <3>2. IsFiniteSet(S)
      <4> HIDE DEF back, free
      <4> QED
        BY <2>1, ImageFinite
    <3> QED
      BY <1>3, <3>1, <3>2
  <2>3. PICK k \in S : \A m \in S : m <= k
    <3> HIDE DEF S
    <3> QED
      BY <2>2, GreatestExists
  <2>4. PICK n \in free : k = 0 - n
    OBVIOUS
  <2>5. \A m \in free : 0 - m \in S /\ m \in Int
    OBVIOUS
  <2>6. \A m \in free : n <= m
    <3> HIDE DEF S, free
    <3> QED
      BY <2>3, <2>4, <2>5
  <2> QED
    BY <2>6
<1>5. \A m \in first .. n - 1 : m \in given
  BY <1>1, <1>4
<1> QED
  BY <1>4, <1>5 DEF Skips

LEMMA NumbersFinite ==
  ASSUME NEW skus, IsFiniteSet(skus), \A s \in skus : IsSku(s), NEW base, NEW code
  PROVE  NumbersIn(skus, base, code) \in SUBSET Nat /\ IsFiniteSet(NumbersIn(skus, base, code))
<1> DEFINE some == {x \in skus : x.base = base /\ x.code = code}
           number == [s \in skus |-> s.n]
<1>1. IsFiniteSet(some)
  BY FS_Subset
<1>2. {number[s] : s \in some} = NumbersIn(skus, base, code)
  BY DEF NumbersIn
<1>3. IsFiniteSet({number[s] : s \in some})
  <2> HIDE DEF number, some
  <2> QED
    BY <1>1, ImageFinite
<1>4. NumbersIn(skus, base, code) \in SUBSET Nat
  BY DEF NumbersIn, IsSku
<1> QED
  BY <1>2, <1>3, <1>4

(* A generated SKU differs from those in the table and those reserved.     *)
LEMMA VariantSkuFresh ==
  ASSUME IsFiniteSet(Existing(variants)), \A v \in Existing(variants) : IsSku(variants[v].sku),
         NEW reserved, IsFiniteSet(reserved), \A s \in reserved : IsSku(s),
         NEW base, NEW name, NEW sku, sku = NextVariantSku(base, name, reserved)
  PROVE  /\ IsSku(sku) /\ sku \notin reserved
         /\ \A v \in Existing(variants) : variants[v].sku # sku
<1> DEFINE skuOf == [v \in Existing(variants) |-> variants[v].sku]
           taken == {variants[v].sku : v \in Existing(variants)}
           code == Code(name)
           numbers == NumbersIn(taken, base, code)
           first == Highest(numbers) + 1
           given == NumbersIn(Reserves(reserved), base, code)
           Fits(n) == n \notin given /\ \A m \in first .. n - 1 : m \in given
           n == CHOOSE n \in first .. first + Cardinality(given) : Fits(n)
<1>1. IsFiniteSet(taken) /\ \A s \in taken : IsSku(s)
  <2>1. {skuOf[v] : v \in Existing(variants)} = taken
    OBVIOUS
  <2>2. IsFiniteSet({skuOf[v] : v \in Existing(variants)})
    <3> HIDE DEF skuOf
    <3> QED
      BY ImageFinite
  <2> QED
    BY <2>1, <2>2
<1>2. numbers \in SUBSET Nat /\ IsFiniteSet(numbers)
  <2> HIDE DEF taken, code
  <2> QED
    BY <1>1, NumbersFinite
<1>3. first \in Nat /\ \A m \in numbers : m < first
  <2> HIDE DEF numbers
  <2>1. Highest(numbers) \in Nat /\ \A m \in numbers : m <= Highest(numbers)
    BY <1>2, HighestBounds
  <2> QED
    BY <1>2, <2>1
<1>4. given \in SUBSET Nat /\ IsFiniteSet(given)
  <2>1. Reserves(reserved) = reserved
    BY DEF Reserves
  <2> HIDE DEF code
  <2> QED
    BY <2>1, NumbersFinite
<1>5. n \in first .. first + Cardinality(given) /\ Fits(n)
  <2>1. \E k \in first .. first + Cardinality(given) : Skips(k, first, given)
    <3> HIDE DEF first, given
    <3> QED
      BY <1>3, <1>4, NumberExists
  <2>2. \E k \in first .. first + Cardinality(given) : Fits(k)
    <3> HIDE DEF first, given
    <3> QED
      BY <2>1 DEF Skips
  <2> HIDE DEF first, given, Fits
  <2> QED
    BY <2>2
<1>6. sku = [base |-> base, code |-> code, n |-> n]
  BY Zenon DEF NextVariantSku
<1>7. n \in Nat /\ n >= first /\ n \notin given
  <2> HIDE DEF first, given, n
  <2>1. Cardinality(given) \in Nat
    BY <1>4, FS_CardinalityType
  <2> QED
    BY <1>3, <1>5, <2>1
<1>8. n \notin numbers
  <2> HIDE DEF first, numbers, n
  <2> QED
    BY <1>2, <1>3, <1>7
<1> HIDE DEF n, code
<1>9. sku.base = base /\ sku.code = code /\ sku.n = n /\ IsSku(sku)
  BY <1>6, <1>7 DEF IsSku
<1>10. sku \notin taken
  BY <1>8, <1>9 DEF NumbersIn
<1>11. sku \notin reserved
  BY <1>7, <1>9 DEF NumbersIn, Reserves
<1> QED
  BY <1>9, <1>10, <1>11

-----------------------------------------------------------------------------
(* Products and variants.                                                  *)

(* Which steps serve which operation.                                      *)
VariantOps == {"createProduct", "addVariant", "updateProduct"}
Serves(s, op) ==
  /\ s \in Labels \ {"idle"}
  /\ s \in Operations => op = s
  /\ s = "insertCategory" => op = "createCategory"
  /\ s = "deleteValues" => op = "removeValues"
  /\ s = "writeVariant" => op = "updateVariant"
  /\ s = "writeDiscount" => op \in {"createDiscount", "updateDiscount"}
  /\ s = "variants" => op \in VariantOps
Labelled ==
  /\ DOMAIN req = Call
  /\ \A c \in Call : at[c] # "idle" => req[c] \in Request /\ Serves(at[c], req[c].op)

(* The rows passed the unique indexes; those of a call are there once it   *)
(* is done.                                                                *)
RowsSound ==
  /\ DOMAIN variants = VariantId /\ DOMAIN products = ProductId /\ DOMAIN mem = Call
  /\ Unique(variants)
  /\ \A p \in Existing(products) : IsProduct(products[p]) /\ (p \in Call => at[p] = "done")
  /\ \A v \in Existing(variants) :
       /\ IsVariant(variants[v])
       /\ variants[v].product \in Call => at[variants[v].product] = "done"
       /\ v \notin Variant => at[v[1]] = "done"

(* What an open call has prepared so far.                                  *)
Prepared(c) ==
  LET m == mem[c]
  IN /\ m = [rows |-> m.rows, product |-> m.product, name |-> m.name, old |-> m.old,
             reserved |-> m.reserved, sku |-> m.sku]
     /\ m.rows = [k \in 1 .. Len(m.rows) |-> m.rows[k]] /\ Len(m.rows) \in 0 .. Len(Asked(c))
     /\ \A k \in 1 .. Len(m.rows) :
          /\ IsVariant(m.rows[k].row) /\ m.rows[k].row.product = m.product
          /\ m.rows[k].id \in Existing(variants) \cup {<<c, k>>}
     /\ IsSku(m.sku)
     /\ DOMAIN m.old \subseteq Existing(variants) /\ \A v \in DOMAIN m.old : IsSku(m.old[v])
     /\ IsFiniteSet(m.reserved) /\ \A s \in m.reserved : IsSku(s)
     /\ IF req[c].op = "createProduct" THEN m.product = c
        ELSE m.product = req[c].product /\ products[m.product] # Absent

(* What a create or an added variant has checked still holds, and its rows *)
(* are those asked for.                                                    *)
Chosen(c, k) == NameOf(Row(c, k), mem[c].name)
Checked(c) ==
  LET asked == DOMAIN req[c].variants
  IN /\ \A k \in asked : Row(c, k).values \subseteq values
     /\ \A k \in asked : \A e \in Existing(variants) :
          /\ variants[e].barcode # Row(c, k).barcode
          /\ variants[e].product = mem[c].product => variants[e].name # Chosen(c, k)
     /\ \A i, j \in asked :
          i # j => Row(c, i).barcode # Row(c, j).barcode /\ Chosen(c, i) # Chosen(c, j)
     /\ req[c].op = "createProduct" => \A p \in Existing(products) : products[p].sku # mem[c].sku
Numbered(c) ==
  LET m == mem[c]
  IN /\ m.old = <<>>
     /\ \A k \in 1 .. Len(m.rows) :
          /\ m.rows[k].id = <<c, k>>
          /\ m.rows[k].row.name = Chosen(c, k) /\ m.rows[k].row.barcode = Row(c, k).barcode
          /\ m.rows[k].row.values = Row(c, k).values
          /\ m.rows[k].row.sku \in m.reserved
          /\ \A e \in Existing(variants) : variants[e].sku # m.rows[k].row.sku
          /\ \A j \in 1 .. Len(m.rows) : j # k => m.rows[j].row.sku # m.rows[k].row.sku

Creates(c) == req[c].op \in {"createProduct", "addVariant"}
ServerNames(c) == \A k \in DOMAIN req[c].variants : Row(c, k).sku = Keep /\ Row(c, k).id = Keep

SerialVariants ==
  /\ RowsSound
  /\ \A c \in Call : at[c] = "variants" =>
       /\ Prepared(c)
       /\ Creates(c) /\ ServerNames(c) => Checked(c) /\ Numbered(c)
  /\ \A c \in Call : at[c] = "writeVariant" => variants[req[c].variant] # Absent
  /\ \A c \in Call : at[c] = "conflict" /\ Creates(c) => ~ServerNames(c)

VariantsInv ==
  /\ ForestInv /\ Labelled /\ CarriedValuesExist
  /\ ~overlapped => SerialVariants

(* A step of an open call, of whatever kind, and where it leads.           *)
LEMMA StepServes ==
  ASSUME Labelled, NEW c \in Call, CategoryStep(c) \/ ProductStep(c) \/ OtherStep(c)
  PROVE  /\ at[c] \notin Over /\ req[c] \in Request
         /\ \E s : Go(c, s) /\ Serves(s, req[c].op)
<1> USE DEF Over
<1>0. ASSUME at[c] # "idle"
      PROVE  req[c] \in Request /\ Serves(at[c], req[c].op)
  BY <1>0 DEF Labelled
<1>1. Serves("done", req[c].op) /\ Serves("refused", req[c].op) /\ Serves("conflict", req[c].op)
  BY DEF Serves, Labels, Operations
<1>2. ASSUME Refuse(c) \/ Conflict(c) PROVE \E s : Go(c, s) /\ Serves(s, req[c].op)
  BY <1>1, <1>2 DEF Refuse, Conflict
<1>3. CASE CreateCategory(c)
  <2>1. at[c] = "createCategory" /\ (Go(c, "insertCategory") \/ Refuse(c))
    BY <1>3 DEF CreateCategory
  <2>2. Serves("insertCategory", req[c].op)
    BY <1>0, <2>1 DEF Serves, Labels, Operations
  <2> QED
    BY <1>0, <1>2, <2>1, <2>2
<1>4. CASE InsertCategory(c)
  <2>1. at[c] = "insertCategory" /\ (Go(c, "done") \/ Conflict(c))
    BY <1>4 DEF InsertCategory
  <2> QED
    BY <1>0, <1>1, <1>2, <2>1
<1>5. CASE MoveCategory(c) \/ Walk(c) \/ PlaceCategory(c)
  <2>1. /\ at[c] \in {"moveCategory", "walk", "placeCategory"}
        /\ Go(c, "walk") \/ Go(c, "placeCategory") \/ Go(c, "done") \/ Refuse(c)
    BY <1>5 DEF MoveCategory, Walk, PlaceCategory
  <2>2. Serves("walk", req[c].op) /\ Serves("placeCategory", req[c].op)
    BY DEF Serves, Labels, Operations
  <2> QED
    BY <1>0, <1>1, <1>2, <2>1, <2>2
<1>6. CASE CreateProduct(c) \/ UpdateProduct(c) \/ AddVariant(c)
  <2>1. at[c] \in VariantOps /\ (Go(c, "variants") \/ Refuse(c))
    BY <1>6 DEF CreateProduct, UpdateProduct, AddVariant, Remember, VariantOps
  <2>2. Serves("variants", req[c].op)
    BY <1>0, <2>1 DEF Serves, Labels, Operations, VariantOps
  <2> QED
    BY <1>0, <1>2, <2>1, <2>2 DEF VariantOps
<1>7. CASE PrepareVariant(c)
  <2>1. at[c] = "variants" /\ (Go(c, "variants") \/ Refuse(c))
    BY <1>7 DEF PrepareVariant, Remember
  <2> QED
    BY <1>0, <1>2, <2>1
<1>8. CASE CommitVariants(c)
  <2>1. at[c] = "variants" /\ (Go(c, "done") \/ Conflict(c))
    BY <1>8 DEF CommitVariants
  <2> QED
    BY <1>0, <1>1, <1>2, <2>1
<1>9. CASE UpdateVariant(c)
  <2>1. at[c] = "updateVariant" /\ (Go(c, "writeVariant") \/ Refuse(c))
    BY <1>9 DEF UpdateVariant, Remember
  <2>2. Serves("writeVariant", req[c].op)
    BY <1>0, <2>1 DEF Serves, Labels, Operations
  <2> QED
    BY <1>0, <1>2, <2>1, <2>2
<1>10. CASE WriteVariant(c)
  <2>1. at[c] = "writeVariant" /\ (Go(c, "done") \/ Conflict(c))
    BY <1>10 DEF WriteVariant
  <2> QED
    BY <1>0, <1>1, <1>2, <2>1
<1>11. CASE RemoveValues(c)
  <2>1. at[c] = "removeValues" /\ (Go(c, "deleteValues") \/ Refuse(c))
    BY <1>11 DEF RemoveValues
  <2>2. Serves("deleteValues", req[c].op)
    BY <1>0, <2>1 DEF Serves, Labels, Operations
  <2> QED
    BY <1>0, <1>2, <2>1, <2>2
<1>12. CASE DeleteValues(c) \/ AddValue(c) \/ SetActive(c)
  <2>1. /\ at[c] \in {"deleteValues", "addValue", "setActive"}
        /\ Go(c, "done") \/ Refuse(c) \/ Conflict(c)
    BY <1>12 DEF DeleteValues, AddValue, SetActive
  <2> QED
    BY <1>0, <1>1, <1>2, <2>1
<1>13. CASE CreateDiscount(c) \/ UpdateDiscount(c)
  <2>1. at[c] \in {"createDiscount", "updateDiscount"} /\ (Go(c, "writeDiscount") \/ Refuse(c))
    BY <1>13 DEF CreateDiscount, UpdateDiscount, Remember
  <2>2. Serves("writeDiscount", req[c].op)
    BY <1>0, <2>1 DEF Serves, Labels, Operations
  <2> QED
    BY <1>0, <1>2, <2>1, <2>2
<1>14. CASE WriteDiscount(c)
  <2>1. at[c] = "writeDiscount" /\ (Go(c, "done") \/ Conflict(c))
    BY <1>14 DEF WriteDiscount
  <2> QED
    BY <1>0, <1>1, <1>2, <2>1
<1> QED
  BY <1>3, <1>4, <1>5, <1>6, <1>7, <1>8, <1>9, <1>10, <1>11, <1>12, <1>13, <1>14
     DEF CategoryStep, ProductStep, OtherStep

LEMMA StepLabelled ==
  ASSUME Labelled, ForestInv, NEW c \in Call, CategoryStep(c) \/ ProductStep(c) \/ OtherStep(c)
  PROVE  Labelled'
<1>1. PICK s : Go(c, s) /\ Serves(s, req[c].op)
  BY StepServes
<1>2. at[c] # "idle" /\ at \in [Call -> Labels]
  BY StepServes DEF Over, ForestInv, ForestTypeOK
<1> QED
  BY <1>1, <1>2 DEF Labelled, Go

LEMMA ArriveLabelled ==
  ASSUME Labelled, ForestInv, NEW c \in Call, NEW r \in Request, Arrive(c, r)
  PROVE  Labelled'
<1>1. r.op \in Operations /\ r.op # "idle"
  BY CatalogAssumption DEF Operations
<1>2. Serves(r.op, r.op)
  BY <1>1 DEF Serves, Labels, Operations, VariantOps
<1>3. at \in [Call -> Labels]
  BY DEF ForestInv, ForestTypeOK
<1> QED
  BY <1>2, <1>3 DEF Labelled, Arrive

-----------------------------------------------------------------------------
(* The rows are sound as long as nobody writes them: what is done stays    *)
(* done.                                                                   *)
LEMMA RowsKept ==
  ASSUME RowsSound, at \in [Call -> Labels], NEW c \in Call, NEW s,
         at[c] # "done", at' = [at EXCEPT ![c] = s],
         UNCHANGED <<variants, products>>, DOMAIN mem' = DOMAIN mem
  PROVE  RowsSound'
<1>1. \A d \in Call : at[d] = "done" => at'[d] = "done"
  OBVIOUS
<1>2. \A v \in Existing(variants) : v \notin Variant => v[1] \in Call
  BY DEF RowsSound, Existing, VariantId
<1>3. Unique(variants)'
  BY DEF RowsSound, Unique, Existing
<1> QED
  BY <1>1, <1>2, <1>3 DEF RowsSound, Existing

(* After a step of the one open call c, nothing has to be shown of others. *)
LEMMA SerialSettles ==
  ASSUME VariantsInv, ~overlapped, NEW c \in Call, at[c] \notin Over, NEW s, Go(c, s),
         RowsSound',
         s = "variants" => Prepared(c)' /\ ((Creates(c) /\ ServerNames(c))' => (Checked(c) /\ Numbered(c))'),
         s = "writeVariant" => (variants[req[c].variant] # Absent)',
         s = "conflict" /\ Creates(c) => ~ServerNames(c)
  PROVE  SerialVariants'
<1>1. OneOpen /\ at \in [Call -> Labels] /\ SerialVariants
  BY DEF VariantsInv, ForestInv, SerialForest, ForestTypeOK
<1>2. \A d \in Call \ {c} : at'[d] = at[d] /\ at[d] \in Over
  BY <1>1 DEF OneOpen, Go
<1>3. at'[c] = s
  BY <1>1 DEF Go
<1>4. \A d \in Call : (Creates(d)' <=> Creates(d)) /\ (ServerNames(d)' <=> ServerNames(d))
  BY DEF Creates, ServerNames, Go, Row, Asked
<1>5. ASSUME NEW d \in Call
      PROVE  /\ (at[d] = "variants")' =>
                   Prepared(d)' /\ ((Creates(d) /\ ServerNames(d))' => (Checked(d) /\ Numbered(d))')
             /\ (at[d] = "writeVariant")' => (variants[req[d].variant] # Absent)'
             /\ (at[d] = "conflict" /\ Creates(d))' => ~ServerNames(d)'
  <2>1. CASE d = c
    BY <1>3, <1>4, <2>1
  <2>2. CASE d # c
    BY <1>1, <1>2, <1>4, <2>2 DEF SerialVariants, Over
  <2> QED
    BY <2>1, <2>2
<1> QED
  BY <1>5 DEF SerialVariants

(* A step that neither concerns the variants nor ends in a conflict of one *)
(* that does.                                                              *)
LEMMA UnrelatedSettles ==
  ASSUME VariantsInv, ~overlapped, NEW c \in Call, at[c] \notin Over, NEW s, Go(c, s),
         UNCHANGED <<variants, products>>, DOMAIN mem' = DOMAIN mem,
         s \notin {"variants", "writeVariant"}, s = "conflict" => ~Creates(c)
  PROVE  SerialVariants'
<1>1. at \in [Call -> Labels] /\ RowsSound
  BY DEF VariantsInv, ForestInv, ForestTypeOK, SerialVariants
<1>2. RowsSound'
  BY <1>1, RowsKept DEF Go, Over
<1> QED
  BY <1>2, SerialSettles

LEMMA CategoryStepSettles ==
  ASSUME VariantsInv, ~overlapped, NEW c \in Call, CategoryStep(c)
  PROVE  SerialVariants'
<1>1. at[c] \notin Over /\ Labelled
  BY StepServes DEF VariantsInv
<1>2. UNCHANGED <<variants, products, mem>>
  BY DEF CategoryStep, CreateCategory, InsertCategory, MoveCategory, Walk, PlaceCategory,
         Refuse, Conflict, tables
<1>3. PICK s \in {"insertCategory", "done", "refused", "conflict", "walk", "placeCategory"} :
        Go(c, s) /\ (s = "conflict" => at[c] = "insertCategory")
  BY DEF CategoryStep, CreateCategory, InsertCategory, MoveCategory, Walk, PlaceCategory,
         Refuse, Conflict
<1>4. s = "conflict" => ~Creates(c)
  BY <1>1, <1>3 DEF Labelled, Serves, Creates
<1> QED
  BY <1>1, <1>2, <1>3, <1>4, UnrelatedSettles

LEMMA OtherStepSettles ==
  ASSUME VariantsInv, ~overlapped, NEW c \in Call, OtherStep(c)
  PROVE  SerialVariants'
<1>1. at[c] \notin Over /\ Labelled
  BY StepServes DEF VariantsInv
<1>2. UNCHANGED <<variants, products>> /\ DOMAIN mem' = DOMAIN mem
  BY DEF OtherStep, RemoveValues, DeleteValues, AddValue, SetActive, CreateDiscount,
         UpdateDiscount, WriteDiscount, Refuse, Conflict, Remember, tables
<1>3. PICK s \in {"deleteValues", "done", "refused", "conflict", "writeDiscount"} :
        Go(c, s) /\ (s = "conflict" => at[c] \in {"deleteValues", "writeDiscount"})
  BY DEF OtherStep, RemoveValues, DeleteValues, AddValue, SetActive, CreateDiscount,
         UpdateDiscount, WriteDiscount, Refuse, Conflict, Remember
<1>4. s = "conflict" => ~Creates(c)
  BY <1>1, <1>3 DEF Labelled, Serves, Creates
<1> QED
  BY <1>1, <1>2, <1>3, <1>4, UnrelatedSettles

-----------------------------------------------------------------------------
(* Creates and added variants.                                             *)
LEMMA TablesFinite ==
  ASSUME RowsSound
  PROVE  IsFiniteSet(Existing(variants)) /\ IsFiniteSet(Existing(products))
<1>1. IsFiniteSet(1 .. 3)
  <2>1. 1 \in Int /\ 3 \in Int
    OBVIOUS
  <2> QED
    BY ONLY <2>1, FS_Interval
<1>2. IsFiniteSet(Call \X (1 .. 3))
  BY <1>1, FS_Product, RowsAssumption
<1>3. IsFiniteSet(VariantId) /\ IsFiniteSet(ProductId)
  BY <1>2, FS_Union, RowsAssumption DEF VariantId, ProductId
<1>4. Existing(variants) \in SUBSET VariantId /\ Existing(products) \in SUBSET ProductId
  BY DEF RowsSound, Existing
<1> QED
  BY <1>3, <1>4, FS_Subset

LEMMA ProductSkuFresh ==
  ASSUME RowsSound, NEW series
  PROVE  /\ IsSku(NextProductSku(series))
         /\ \A p \in Existing(products) : products[p].sku # NextProductSku(series)
<1> DEFINE same == {q \in Existing(products) : products[q].sku.base = series}
           number == [p \in same |-> products[p].sku.n]
           numbers == {products[p].sku.n : p \in same}
           n == Highest(numbers) + 1
           sku == [base |-> series, code |-> Keep, n |-> n]
<1>1. NextProductSku(series) = sku
  BY DEF NextProductSku
<1>2. numbers \in SUBSET Nat
  BY DEF RowsSound, IsProduct, IsSku
<1>3. IsFiniteSet(numbers)
  <2>1. {number[p] : p \in same} = numbers
    OBVIOUS
  <2>2. IsFiniteSet(same)
    BY TablesFinite, FS_Subset
  <2>3. IsFiniteSet({number[p] : p \in same})
    <3> HIDE DEF number, same
    <3> QED
      BY <2>2, ImageFinite
  <2> QED
    BY <2>1, <2>3
<1>4. n \in Nat /\ n \notin numbers
  <2> HIDE DEF numbers
  <2>1. Highest(numbers) \in Nat /\ \A m \in numbers : m <= Highest(numbers)
    BY <1>2, <1>3, HighestBounds
  <2> QED
    BY <1>2, <2>1
<1> HIDE DEF n
<1>5. \A p \in Existing(products) : products[p].sku # sku
  BY <1>4
<1>6. IsSku(sku)
  BY <1>4 DEF IsSku
<1> QED
  BY <1>1, <1>5, <1>6

(* A call about to read its first variant.                                 *)
LEMMA RequestShape ==
  ASSUME Labelled, NEW c \in Call, at[c] # "idle", req[c].op \in VariantOps
  PROVE  /\ Len(Asked(c)) \in Nat /\ DOMAIN Asked(c) = 1 .. Len(Asked(c))
         /\ \A k \in DOMAIN Asked(c) : Row(c, k).sku # Keep => IsSku(Row(c, k).sku)
         /\ Creates(c) => Asked(c) = req[c].variants
         /\ req[c].op = "addVariant" => Len(Asked(c)) = 1 /\ Row(c, 1).id = Keep
         /\ req[c].op # "createProduct" => req[c].product \in ProductId
<1>1. req[c] \in Request
  BY DEF Labelled
<1>2. CASE req[c].op = "updateProduct" /\ req[c].variants = Keep
  <2>1. Asked(c) = <<>>
    BY <1>2 DEF Asked
  <2> QED
    BY <1>1, <1>2, <2>1, RequestAssumption DEF Creates
<1>3. CASE ~(req[c].op = "updateProduct" /\ req[c].variants = Keep)
  <2>1. req[c].variants # Keep
    BY <1>1, <1>3, RequestAssumption DEF VariantOps
  <2>2. Asked(c) = req[c].variants
    BY <2>1 DEF Asked
  <2> QED
    BY <1>1, <1>3, <2>2, RequestAssumption DEF VariantOps, Row
<1> QED
  BY <1>2, <1>3

LEMMA RememberRows ==
  ASSUME RowsSound, at \in [Call -> Labels], NEW c \in Call, at[c] # "done",
         NEW m, NEW s, Remember(c, m, s)
  PROVE  RowsSound' /\ mem'[c] = m /\ Go(c, s)
         /\ UNCHANGED <<req, variants, products, values, overlapped>>
<1>1. Go(c, s) /\ UNCHANGED <<variants, products, values>> /\ mem' = [mem EXCEPT ![c] = m]
  BY DEF Remember, tables
<1>2. DOMAIN mem' = DOMAIN mem /\ mem'[c] = m
  BY <1>1 DEF RowsSound
<1>3. RowsSound'
  BY <1>1, <1>2, RowsKept DEF Go
<1> QED
  BY <1>1, <1>2, <1>3 DEF Go

LEMMA RefusalSettles ==
  ASSUME VariantsInv, ~overlapped, NEW c \in Call, at[c] \notin Over, Refuse(c)
  PROVE  SerialVariants'
<1>1. Go(c, "refused") /\ UNCHANGED <<variants, products, mem>>
  BY DEF Refuse, tables
<1> QED
  BY <1>1, UnrelatedSettles

(* A call that has passed its checks and has prepared nothing yet.         *)
LEMMA StartSettles ==
  ASSUME VariantsInv, ~overlapped, NEW c \in Call, at[c] \in VariantOps,
         NEW product, NEW name, NEW old, NEW sku,
         Remember(c, [rows |-> <<>>, product |-> product, name |-> name, old |-> old,
                      reserved |-> {}, sku |-> sku], "variants"),
         IsSku(sku), DOMAIN old \subseteq Existing(variants), \A v \in DOMAIN old : IsSku(old[v]),
         IF req[c].op = "createProduct" THEN product = c
         ELSE product = req[c].product /\ products[product] # Absent,
         Creates(c) => old = <<>>,
         Creates(c) /\ ServerNames(c) => Checked(c)'
  PROVE  SerialVariants'
<1> DEFINE m == [rows |-> <<>>, product |-> product, name |-> name, old |-> old,
                 reserved |-> {}, sku |-> sku]
<1>1. at \in [Call -> Labels] /\ RowsSound /\ at[c] \notin Over /\ at[c] # "done" /\ at[c] # "idle"
  BY DEF VariantsInv, ForestInv, ForestTypeOK, SerialVariants, Over, VariantOps
<1>2. RowsSound' /\ mem'[c] = m /\ Go(c, "variants")
      /\ UNCHANGED <<req, variants, products, values, overlapped>>
  <2> HIDE DEF m
  <2>1. Remember(c, m, "variants")
    BY DEF m
  <2> QED
    BY <1>1, <2>1, RememberRows
<1>3. Len(Asked(c)) \in Nat /\ Asked(c)' = Asked(c)
  <2>1. req[c].op \in VariantOps /\ Labelled
    BY <1>1 DEF VariantsInv, Labelled, Serves, VariantOps, Operations
  <2> QED
    BY <1>1, <1>2, <2>1, RequestShape DEF Asked
<1>4. Prepared(c)'
  <2>1. mem'[c].rows = <<>> /\ Len(mem'[c].rows) = 0 /\ mem'[c].reserved = {}
        /\ IsFiniteSet(mem'[c].reserved)
    BY <1>2, FS_EmptySet
  <2>2. mem'[c].rows = [k \in 1 .. Len(mem'[c].rows) |-> mem'[c].rows[k]]
    BY <2>1
  <2>3. mem'[c].product = product /\ mem'[c].old = old /\ mem'[c].sku = sku
    BY <1>2
  <2>4. mem'[c] = [rows |-> mem'[c].rows, product |-> mem'[c].product, name |-> mem'[c].name,
                   old |-> mem'[c].old, reserved |-> mem'[c].reserved, sku |-> mem'[c].sku]
    BY <1>2
  <2>5. Existing(variants)' = Existing(variants) /\ req' = req /\ products' = products
    BY <1>2 DEF Existing
  <2>6. IF req'[c].op = "createProduct" THEN mem'[c].product = c
        ELSE mem'[c].product = req'[c].product /\ products'[mem'[c].product] # Absent
    BY <2>3, <2>5
  <2>7. Len(mem'[c].rows) \in 0 .. Len(Asked(c)') /\ 1 .. Len(mem'[c].rows) = {}
    BY <1>3, <2>1
  <2> QED
    BY <2>1, <2>2, <2>3, <2>4, <2>5, <2>6, <2>7 DEF Prepared
<1>5. (Creates(c) /\ ServerNames(c))' => (Checked(c) /\ Numbered(c))'
  <2>1. (Creates(c) /\ ServerNames(c))' => Creates(c) /\ ServerNames(c)
    BY <1>2 DEF Creates, ServerNames, Row, Asked
  <2>2. Creates(c) => Numbered(c)'
    BY <1>2 DEF Numbered
  <2> QED
    BY <2>1, <2>2
<1> QED
  BY <1>1, <1>2, <1>4, <1>5, SerialSettles

LEMMA CreateProductSettles ==
  ASSUME VariantsInv, ~overlapped, NEW c \in Call, CreateProduct(c)
  PROVE  SerialVariants'
<1> DEFINE r == req[c]
           sku == NextProductSku(r.series)
           m == [rows |-> <<>>, product |-> c, name |-> r.name, old |-> <<>>, reserved |-> {},
                 sku |-> sku]
<1>1. at[c] = "createProduct" /\ at[c] \notin Over /\ at \in [Call -> Labels] /\ RowsSound
  BY DEF CreateProduct, Over, VariantsInv, ForestInv, ForestTypeOK, SerialVariants
<1>2. r.op = "createProduct" /\ Labelled
  BY <1>1 DEF VariantsInv, Labelled, Serves, Operations
<1>3. CASE Refuse(c)
  BY <1>1, <1>3, RefusalSettles
<1>4. CASE /\ Normal(r.variants, r.type) /\ BarcodesAvailable(r.variants, Keep)
           /\ \A i \in DOMAIN r.variants : ValuesUsable(r.variants[i].values)
           /\ \A i, j \in DOMAIN r.variants :
                NameOf(r.variants[i], r.name) = NameOf(r.variants[j], r.name) => i = j
           /\ Remember(c, m, "variants")
  <2>1. RowsSound' /\ mem'[c] = m /\ UNCHANGED <<req, variants, products, values, overlapped>>
    <3> HIDE DEF m
    <3> QED
      BY <1>1, <1>4, RememberRows DEF Over
  <2>2. IsSku(sku) /\ \A p \in Existing(products) : products[p].sku # sku
    BY <1>1, ProductSkuFresh
  <2>3. Asked(c) = r.variants /\ Asked(c)' = Asked(c)
    BY <1>1, <1>2, <2>1, RequestShape DEF Creates, VariantOps, Asked
  <2>4. ASSUME ServerNames(c) PROVE Checked(c)'
    <3>1. \A k \in DOMAIN r.variants : r.variants[k].id = Keep
      BY <2>3, <2>4 DEF ServerNames, Row
    <3>2. \A k \in DOMAIN r.variants : r.variants[k].values \subseteq values
      BY <1>4 DEF ValuesUsable
    <3>3. Keep \notin Existing(variants)
      BY <1>1, RowsAssumption DEF Existing, RowsSound, VariantId
    <3>4. \A k \in DOMAIN r.variants : \A e \in Existing(variants) :
            variants[e].barcode # r.variants[k].barcode
      BY <1>4, <3>1, <3>3 DEF BarcodesAvailable
    <3>5. \A e \in Existing(variants) : variants[e].product # c
      BY <1>1 DEF RowsSound
    <3>6. \A i, j \in DOMAIN r.variants : i # j =>
            /\ r.variants[i].barcode # r.variants[j].barcode
            /\ NameOf(r.variants[i], r.name) # NameOf(r.variants[j], r.name)
      BY <1>4 DEF Normal
    <3>7. \A k : Row(c, k)' = r.variants[k] /\ Chosen(c, k)' = NameOf(r.variants[k], r.name)
      BY <2>1, <2>3 DEF Row, Chosen
    <3>8. mem'[c].product = c /\ mem'[c].sku = sku
      BY <2>1
    <3>9. Existing(variants)' = Existing(variants) /\ Existing(products)' = Existing(products)
      BY <2>1 DEF Existing
    <3> HIDE DEF m, sku
    <3> QED
      BY <2>1, <2>2, <3>2, <3>4, <3>5, <3>6, <3>7, <3>8, <3>9 DEF Checked
  <2>5. at[c] \in VariantOps /\ DOMAIN <<>> = {}
    BY <1>1 DEF VariantOps
  <2> HIDE DEF sku
  <2> QED
    BY <1>2, <1>4, <2>2, <2>4, <2>5, StartSettles
<1> QED
  BY <1>3, <1>4 DEF CreateProduct

LEMMA UpdateProductSettles ==
  ASSUME VariantsInv, ~overlapped, NEW c \in Call, UpdateProduct(c)
  PROVE  SerialVariants'
<1> DEFINE r == req[c]
           own == {v \in Existing(variants) : variants[v].product = r.product}
           old == [v \in own |-> variants[v].sku]
           m == [rows |-> <<>>, product |-> r.product, name |-> products[r.product].name,
                 old |-> old, reserved |-> {}, sku |-> products[r.product].sku]
<1>1. at[c] = "updateProduct" /\ at[c] \notin Over /\ RowsSound /\ at[c] \in VariantOps
  BY DEF UpdateProduct, Over, VariantsInv, SerialVariants, VariantOps
<1>2. r.op = "updateProduct" /\ Labelled
  BY <1>1 DEF VariantsInv, Labelled, Serves, Operations, Over
<1>3. CASE Refuse(c)
  BY <1>1, <1>3, RefusalSettles
<1>4. CASE products[r.product] # Absent /\ Remember(c, m, "variants")
  <2>1. r.product \in Existing(products)
    BY <1>1, <1>2, <1>4, RequestShape DEF VariantOps, RowsSound, Existing, Over
  <2>2. IsSku(products[r.product].sku)
    BY <1>1, <2>1 DEF RowsSound, IsProduct
  <2>3. DOMAIN old \subseteq Existing(variants) /\ \A v \in DOMAIN old : IsSku(old[v])
    BY <1>1 DEF RowsSound, IsVariant
  <2>4. ~Creates(c) /\ req[c].op # "createProduct"
    BY <1>2 DEF Creates
  <2> HIDE DEF old
  <2> QED
    BY <1>1, <1>4, <2>2, <2>3, <2>4, StartSettles
<1> QED
  BY <1>3, <1>4 DEF UpdateProduct

LEMMA AddVariantSettles ==
  ASSUME VariantsInv, ~overlapped, NEW c \in Call, AddVariant(c)
  PROVE  SerialVariants'
<1> DEFINE r == req[c]
           v == r.variants[1]
           name == products[r.product].name
           m == [rows |-> <<>>, product |-> r.product, name |-> name, old |-> <<>>,
                 reserved |-> {}, sku |-> products[r.product].sku]
<1>1. at[c] = "addVariant" /\ at[c] \notin Over /\ at \in [Call -> Labels] /\ RowsSound
      /\ at[c] \in VariantOps
  BY DEF AddVariant, Over, VariantsInv, ForestInv, ForestTypeOK, SerialVariants, VariantOps
<1>2. r.op = "addVariant" /\ Labelled
  BY <1>1 DEF VariantsInv, Labelled, Serves, Operations, Over
<1>3. CASE Refuse(c)
  BY <1>1, <1>3, RefusalSettles
<1>4. CASE /\ products[r.product] # Absent
           /\ BarcodesAvailable(r.variants, Keep) /\ ValuesUsable(v.values)
           /\ \A w \in Existing(variants) :
                variants[w].product = r.product => variants[w].name # NameOf(v, name)
           /\ Remember(c, m, "variants")
  <2>1. mem'[c] = m /\ UNCHANGED <<req, variants, products, values, overlapped>>
    <3> HIDE DEF m
    <3> QED
      BY <1>1, <1>4, RememberRows DEF Over
  <2>2. r.product \in Existing(products)
    BY <1>1, <1>2, <1>4, RequestShape DEF VariantOps, RowsSound, Existing, Over
  <2>3. IsSku(products[r.product].sku)
    BY <1>1, <2>2 DEF RowsSound, IsProduct
  <2>4. Asked(c) = r.variants /\ Asked(c)' = Asked(c) /\ Len(Asked(c)) = 1
        /\ DOMAIN Asked(c) = 1 .. Len(Asked(c)) /\ Row(c, 1).id = Keep
    BY <1>1, <1>2, <2>1, RequestShape DEF Creates, VariantOps, Asked, Over
  <2>5. DOMAIN r.variants = {1} /\ v.id = Keep
    BY <2>4 DEF Row
  <2>6. Checked(c)'
    <3>1. v.values \subseteq values
      BY <1>4 DEF ValuesUsable
    <3>2. Keep \notin Existing(variants)
      BY <1>1, RowsAssumption DEF Existing, RowsSound, VariantId
    <3>3. \A e \in Existing(variants) : variants[e].barcode # v.barcode
      BY <1>4, <2>5, <3>2 DEF BarcodesAvailable
    <3>4. Row(c, 1)' = v /\ Chosen(c, 1)' = NameOf(v, name)
      BY <2>1, <2>4 DEF Row, Chosen
    <3>5. mem'[c].product = r.product
      BY <2>1
    <3>6. Existing(variants)' = Existing(variants) /\ req'[c].op = "addVariant"
          /\ DOMAIN req'[c].variants = {1}
      BY <1>2, <2>1, <2>5 DEF Existing
    <3> HIDE DEF m, v, name
    <3> QED
      BY <1>4, <2>1, <3>1, <3>3, <3>4, <3>5, <3>6 DEF Checked
  <2>7. req[c].op # "createProduct" /\ DOMAIN <<>> = {}
    BY <1>2
  <2> QED
    BY <1>1, <1>4, <2>3, <2>6, <2>7, StartSettles
<1> QED
  BY <1>3, <1>4 DEF AddVariant

-----------------------------------------------------------------------------
(* The next variant of a request joins those already prepared.             *)
LEMMA RowsAppend ==
  ASSUME NEW rows, NEW n \in Nat, rows = [k \in 1 .. n |-> rows[k]], NEW x
  PROVE  /\ Len(rows) = n /\ Len(Append(rows, x)) = n + 1
         /\ Append(rows, x) = [k \in 1 .. n + 1 |-> Append(rows, x)[k]]
         /\ \A k \in 1 .. n : Append(rows, x)[k] = rows[k]
         /\ Append(rows, x)[n + 1] = x
<1> DEFINE S == {rows[k] : k \in 1 .. n} \cup {x}
<1>1. rows \in [1 .. n -> S]
  <2>1. \A k \in 1 .. n : rows[k] \in S
    OBVIOUS
  <2> HIDE DEF S
  <2> QED
    BY <2>1
<1>2. rows \in Seq(S) /\ x \in S
  BY <1>1
<1> HIDE DEF S
<1>3. Len(rows) = n
  BY <1>1, <1>2
<1>4. Append(rows, x) \in Seq(S) /\ Len(Append(rows, x)) = n + 1
  BY <1>2, <1>3
<1>5. Append(rows, x) \in [1 .. n + 1 -> S]
  BY <1>4, LenProperties
<1> QED
  BY <1>2, <1>3, <1>4, <1>5

LEMMA SkuForSound ==
  ASSUME RowsSound, Labelled, NEW c \in Call, at[c] = "variants", Prepared(c),
         NEW k \in DOMAIN Asked(c)
  PROVE  IsSku(SkuFor(c, Row(c, k)))
<1>1. req[c].op \in VariantOps
  BY DEF Labelled, Serves, Operations
<1>2. Row(c, k).sku # Keep => IsSku(Row(c, k).sku)
  BY <1>1, RequestShape
<1>3. Row(c, k).id \in DOMAIN mem[c].old => IsSku(mem[c].old[Row(c, k).id])
  BY DEF Prepared
<1>4. IsSku(NextVariantSku(mem[c].sku, NameOf(Row(c, k), mem[c].name), mem[c].reserved))
  <2>1. IsFiniteSet(Existing(variants)) /\ \A v \in Existing(variants) : IsSku(variants[v].sku)
    BY TablesFinite DEF RowsSound, IsVariant
  <2>2. IsFiniteSet(mem[c].reserved) /\ \A s \in mem[c].reserved : IsSku(s)
    BY DEF Prepared
  <2> QED
    BY <2>1, <2>2, VariantSkuFresh
<1> QED
  BY <1>2, <1>3, <1>4 DEF SkuFor

LEMMA PrepareVariantSettles ==
  ASSUME VariantsInv, ~overlapped, NEW c \in Call, PrepareVariant(c)
  PROVE  SerialVariants'
<1> DEFINE n == Len(mem[c].rows)
           k == n + 1
           v == Row(c, k)
           sku == SkuFor(c, v)
           name == NameOf(v, mem[c].name)
           row == [product |-> mem[c].product, name |-> name, sku |-> sku,
                   barcode |-> v.barcode, values |-> v.values]
           id == IF v.id \in DOMAIN mem[c].old THEN v.id ELSE <<c, k>>
           keepsFree == v.sku # Keep /\ req[c].op = "createProduct"
           reserved == IF keepsFree THEN mem[c].reserved ELSE mem[c].reserved \cup {sku}
           rows == Append(mem[c].rows, [id |-> id, row |-> row])
           m == [mem[c] EXCEPT !.rows = rows, !.reserved = reserved]
<1>1. at[c] = "variants" /\ at[c] \notin Over /\ at \in [Call -> Labels] /\ RowsSound
      /\ Labelled /\ k <= Len(Asked(c))
  BY DEF PrepareVariant, Over, VariantsInv, ForestInv, ForestTypeOK, SerialVariants, Done
<1>2. /\ Prepared(c)
      /\ Creates(c) /\ ServerNames(c) => Checked(c) /\ Numbered(c)
  BY <1>1 DEF VariantsInv, SerialVariants
<1>3. CASE Refuse(c)
  BY <1>1, <1>3, RefusalSettles
<1>4. CASE Remember(c, m, "variants")
  <2>1. RowsSound' /\ mem'[c] = m /\ Go(c, "variants")
        /\ UNCHANGED <<req, variants, products, values, overlapped>>
    <3> HIDE DEF m
    <3> QED
      BY <1>1, <1>4, RememberRows DEF Over
  <2>2. n \in Nat /\ n \in 0 .. Len(Asked(c)) /\ Len(Asked(c)) \in Nat
        /\ DOMAIN Asked(c) = 1 .. Len(Asked(c)) /\ k \in DOMAIN Asked(c)
    <3>1. req[c].op \in VariantOps
      BY <1>1 DEF Labelled, Serves, Operations
    <3>2. Len(Asked(c)) \in Nat /\ DOMAIN Asked(c) = 1 .. Len(Asked(c))
      BY <1>1, <3>1, RequestShape
    <3>3. n \in 0 .. Len(Asked(c))
      BY <1>2 DEF Prepared
    <3> QED
      BY <1>1, <3>2, <3>3
  <2>3. IsSku(sku)
    BY <1>1, <1>2, <2>2, SkuForSound
  <2>4. /\ mem[c].rows = [j \in 1 .. n |-> mem[c].rows[j]]
        /\ mem[c] = [rows |-> mem[c].rows, product |-> mem[c].product, name |-> mem[c].name,
                     old |-> mem[c].old, reserved |-> mem[c].reserved, sku |-> mem[c].sku]
    BY <1>2 DEF Prepared
  <2>5. mem'[c] = [rows |-> rows, product |-> mem[c].product, name |-> mem[c].name,
                   old |-> mem[c].old, reserved |-> reserved, sku |-> mem[c].sku]
    <3> HIDE DEF rows, reserved
    <3> QED
      BY <2>1, <2>4
  <2>6. /\ Len(rows) = n + 1
        /\ rows = [j \in 1 .. n + 1 |-> rows[j]]
        /\ \A j \in 1 .. n : rows[j] = mem[c].rows[j]
        /\ rows[n + 1] = [id |-> id, row |-> row]
    <3> HIDE DEF n, id, row
    <3> QED
      BY <2>2, <2>4, RowsAppend
  <2>7. /\ mem'[c].rows = rows /\ mem'[c].product = mem[c].product /\ mem'[c].name = mem[c].name
        /\ mem'[c].old = mem[c].old /\ mem'[c].reserved = reserved /\ mem'[c].sku = mem[c].sku
    BY <2>5
  <2>8. \A j \in 1 .. n + 1 : j \in 1 .. n \/ j = n + 1
    BY <2>2
  <2>9. Asked(c)' = Asked(c) /\ Existing(variants)' = Existing(variants)
    BY <2>1 DEF Asked, Existing
  <2>10. IsVariant(row) /\ row.product = mem[c].product /\ id \in Existing(variants) \cup {<<c, k>>}
    BY <1>2, <2>3 DEF IsVariant, Prepared
  <2>11. IsFiniteSet(reserved) /\ \A s \in reserved : IsSku(s)
    <3>1. IsFiniteSet(mem[c].reserved) /\ \A s \in mem[c].reserved : IsSku(s)
      BY <1>2 DEF Prepared
    <3>2. IsFiniteSet(mem[c].reserved \cup {sku})
      BY <3>1, FS_AddElement
    <3> QED
      BY <2>3, <3>1, <3>2
  <2>12. Prepared(c)'
    <3>1. Len(rows) \in 0 .. Len(Asked(c))
      BY <2>2, <2>6
    <3>2. ASSUME NEW j \in 1 .. n + 1
          PROVE  /\ IsVariant(rows[j].row) /\ rows[j].row.product = mem[c].product
                 /\ rows[j].id \in Existing(variants) \cup {<<c, j>>}
      <4>1. CASE j \in 1 .. n
        BY <1>2, <2>6, <4>1 DEF Prepared
      <4>2. CASE j = n + 1
        BY <2>6, <2>10, <4>2
      <4> QED
        BY <2>8, <4>1, <4>2
    <3>3. IF req'[c].op = "createProduct" THEN mem'[c].product = c
          ELSE mem'[c].product = req'[c].product /\ products'[mem'[c].product] # Absent
      BY <1>2, <2>1, <2>7 DEF Prepared
    <3>4. /\ IsSku(mem[c].sku) /\ DOMAIN mem[c].old \subseteq Existing(variants)
          /\ \A w \in DOMAIN mem[c].old : IsSku(mem[c].old[w])
      BY <1>2 DEF Prepared
    <3> HIDE DEF n, rows, reserved
    <3> QED
      BY <2>5, <2>6, <2>7, <2>9, <2>11, <3>1, <3>2, <3>3, <3>4 DEF Prepared
  <2>13. ASSUME Creates(c), ServerNames(c) PROVE Checked(c)' /\ Numbered(c)'
    <3>1. Checked(c) /\ Numbered(c) /\ Asked(c) = req[c].variants
      <4>1. req[c].op \in VariantOps
        BY <1>1 DEF Labelled, Serves, Operations
      <4> QED
        BY <1>1, <1>2, <2>13, <4>1, RequestShape
    <3>2. \A j : Row(c, j)' = Row(c, j) /\ Chosen(c, j)' = Chosen(c, j)
      <4> HIDE DEF rows, reserved
      <4> QED
        BY <2>7, <2>9 DEF Row, Chosen
    <3>3. Existing(products)' = Existing(products) /\ Existing(variants)' = Existing(variants)
      BY <2>1 DEF Existing
    <3>4. Checked(c)'
      <4> HIDE DEF rows, reserved
      <4> QED
        BY <2>1, <2>7, <3>1, <3>2, <3>3 DEF Checked
    <3>5. v.sku = Keep /\ mem[c].old = <<>> /\ DOMAIN mem[c].old = {}
      <4>1. v.sku = Keep
        BY <2>2, <2>13, <3>1 DEF ServerNames
      <4>2. mem[c].old = <<>>
        BY <3>1 DEF Numbered
      <4> QED
        BY <4>1, <4>2
    <3>6. sku = NextVariantSku(mem[c].sku, name, mem[c].reserved) /\ id = <<c, k>>
          /\ reserved = mem[c].reserved \cup {sku}
      BY <3>5 DEF SkuFor
    <3>7. sku \notin mem[c].reserved /\ \A e \in Existing(variants) : variants[e].sku # sku
      <4>1. IsFiniteSet(Existing(variants)) /\ \A e \in Existing(variants) : IsSku(variants[e].sku)
        BY <1>1, TablesFinite DEF RowsSound, IsVariant
      <4>2. IsFiniteSet(mem[c].reserved) /\ \A s \in mem[c].reserved : IsSku(s)
        BY <1>2 DEF Prepared
      <4> HIDE DEF sku, name
      <4> QED
        BY <3>6, <4>1, <4>2, VariantSkuFresh
    <3>8. /\ rows[n + 1].id = <<c, n + 1>>
          /\ rows[n + 1].row.name = Chosen(c, n + 1) /\ rows[n + 1].row.barcode = Row(c, n + 1).barcode
          /\ rows[n + 1].row.values = Row(c, n + 1).values /\ rows[n + 1].row.sku = sku
      <4>1. name = Chosen(c, n + 1)
        BY DEF Chosen
      <4>2. row.name = name /\ row.barcode = v.barcode /\ row.values = v.values /\ row.sku = sku
        OBVIOUS
      <4>3. rows[n + 1].row = row /\ rows[n + 1].id = id
        <5> HIDE DEF rows, n, row, id
        <5> QED
          BY <2>6
      <4> HIDE DEF rows, n, sku, id, row, name
      <4> QED
        BY <3>6, <4>1, <4>2, <4>3
    <3>9. \A j \in 1 .. n :
            /\ rows[j].id = <<c, j>>
            /\ rows[j].row.name = Chosen(c, j) /\ rows[j].row.barcode = Row(c, j).barcode
            /\ rows[j].row.values = Row(c, j).values
            /\ rows[j].row.sku \in mem[c].reserved
            /\ \A e \in Existing(variants) : variants[e].sku # rows[j].row.sku
            /\ \A i \in 1 .. n : i # j => rows[i].row.sku # rows[j].row.sku
      <4> DEFINE old == mem[c].rows
      <4>1. \A j \in 1 .. n :
              /\ old[j].id = <<c, j>>
              /\ old[j].row.name = Chosen(c, j) /\ old[j].row.barcode = Row(c, j).barcode
              /\ old[j].row.values = Row(c, j).values
              /\ old[j].row.sku \in mem[c].reserved
              /\ \A e \in Existing(variants) : variants[e].sku # old[j].row.sku
              /\ \A i \in 1 .. n : i # j => old[i].row.sku # old[j].row.sku
        BY <3>1 DEF Numbered
      <4>2. \A j \in 1 .. n : rows[j] = old[j]
        BY <2>6
      <4> HIDE DEF rows, n, old
      <4> QED
        BY <4>1, <4>2
    <3>10. \A j \in 1 .. n + 1 :
            /\ rows[j].id = <<c, j>>
            /\ rows[j].row.name = Chosen(c, j) /\ rows[j].row.barcode = Row(c, j).barcode
            /\ rows[j].row.values = Row(c, j).values
            /\ rows[j].row.sku \in reserved
            /\ \A e \in Existing(variants) : variants[e].sku # rows[j].row.sku
            /\ \A i \in 1 .. n + 1 : i # j => rows[i].row.sku # rows[j].row.sku
      <4> HIDE DEF rows, n, sku, reserved
      <4> QED
        BY <2>8, <3>6, <3>7, <3>8, <3>9
    <3>11. Numbered(c)'
      <4>1. Len(mem'[c].rows) = n + 1 /\ mem'[c].rows = rows /\ mem'[c].reserved = reserved
            /\ mem'[c].old = <<>>
        <5> HIDE DEF rows, n, reserved
        <5> QED
          BY <2>6, <2>7, <3>5
      <4>2. variants' = variants
        BY <2>1
      <4> HIDE DEF rows, n, sku, reserved
      <4> QED
        BY <3>2, <3>3, <3>10, <4>1, <4>2 DEF Numbered
    <3> QED
      BY <3>4, <3>11
  <2>14. (Creates(c) /\ ServerNames(c))' => Creates(c) /\ ServerNames(c)
    BY <2>1 DEF Creates, ServerNames, Row, Asked
  <2>15. (Creates(c) /\ ServerNames(c))' => (Checked(c) /\ Numbered(c))'
    BY <2>13, <2>14
  <2> QED
    BY <1>1, <2>1, <2>12, <2>15, SerialSettles
<1> QED
  BY <1>3, <1>4 DEF PrepareVariant, Done

-----------------------------------------------------------------------------
(* The rows a commit would leave: the prepared ones and the others as they *)
(* were.                                                                   *)
LEMMA WrittenRow ==
  ASSUME RowsSound, NEW c, mem[c].rows = [k \in 1 .. Len(mem[c].rows) |-> mem[c].rows[k]],
         NEW v \in VariantId
  PROVE  \/ \E k \in 1 .. Len(mem[c].rows) :
              mem[c].rows[k].id = v /\ Written(c)[v] = mem[c].rows[k].row
         \/ /\ \A k \in 1 .. Len(mem[c].rows) : mem[c].rows[k].id # v
            /\ Written(c)[v] = variants[v]
<1> DEFINE rows == mem[c].rows
           K == {k \in DOMAIN rows : rows[k].id = v}
<1>1. DOMAIN rows = 1 .. Len(rows)
  OBVIOUS
<1>2. CASE \E k \in DOMAIN rows : rows[k].id = v
  <2> DEFINE k == CHOOSE k \in DOMAIN rows : rows[k].id = v
  <2>1. k \in DOMAIN rows /\ rows[k].id = v
    BY <1>2
  <2>2. Written(c)[v] = rows[k].row
    BY <1>2 DEF Written
  <2> QED
    BY <1>1, <2>1, <2>2
<1>3. CASE ~ \E k \in DOMAIN rows : rows[k].id = v
  BY <1>1, <1>3 DEF Written
<1> QED
  BY <1>2, <1>3

(* Of a request that leaves its names to the server they are unique.       *)
LEMMA WrittenUnique ==
  ASSUME RowsSound, NEW c \in Call, Prepared(c), Checked(c), Numbered(c),
         DOMAIN req[c].variants = 1 .. Len(mem[c].rows)
  PROVE  Unique(Written(c))
<1> DEFINE rows == mem[c].rows
           n == Len(rows)
<1>1. rows = [k \in 1 .. n |-> rows[k]]
  BY DEF Prepared
<1>2. DOMAIN Written(c) = VariantId
  BY DEF Written
<1>3. ASSUME NEW k \in 1 .. n
      PROVE  /\ rows[k].id = <<c, k>> /\ rows[k].row.product = mem[c].product
             /\ rows[k].row.name = Chosen(c, k) /\ rows[k].row.barcode = Row(c, k).barcode
             /\ \A e \in Existing(variants) :
                  /\ variants[e].sku # rows[k].row.sku
                  /\ variants[e].barcode # rows[k].row.barcode
                  /\ variants[e].product = mem[c].product => variants[e].name # rows[k].row.name
  BY DEF Numbered, Prepared, Checked
<1>4. ASSUME NEW k \in 1 .. n, NEW j \in 1 .. n, j # k
      PROVE  /\ rows[j].row.sku # rows[k].row.sku /\ rows[j].row.barcode # rows[k].row.barcode
             /\ rows[j].row.name # rows[k].row.name
  <2>1. rows[j].row.sku # rows[k].row.sku
    BY <1>4 DEF Numbered
  <2>2. Row(c, j).barcode # Row(c, k).barcode /\ Chosen(c, j) # Chosen(c, k)
    BY <1>4 DEF Checked
  <2> HIDE DEF rows, n
  <2> QED
    BY <1>3, <2>1, <2>2
<1>5. ASSUME NEW v \in Existing(Written(c)), NEW w \in Existing(Written(c)), v # w
      PROVE  /\ Written(c)[v].sku # Written(c)[w].sku
             /\ Written(c)[v].barcode # Written(c)[w].barcode
             /\ Written(c)[v].product = Written(c)[w].product => Written(c)[v].name # Written(c)[w].name
  <2> DEFINE New(x) == \E k \in 1 .. n : rows[k].id = x /\ Written(c)[x] = rows[k].row
             Old(x) == x \in Existing(variants) /\ Written(c)[x] = variants[x]
  <2>1. ASSUME NEW x \in Existing(Written(c)) PROVE New(x) \/ Old(x)
    <3>1. x \in VariantId /\ Written(c)[x] # Absent /\ DOMAIN variants = VariantId
      BY <1>2 DEF Existing, RowsSound
    <3>2. New(x) \/ Written(c)[x] = variants[x]
      BY <1>1, <3>1, WrittenRow
    <3> QED
      BY <3>1, <3>2 DEF Existing
  <2>2. CASE New(v) /\ New(w)
    <3>1. PICK k \in 1 .. n : rows[k].id = v /\ Written(c)[v] = rows[k].row
      BY <2>2
    <3>2. PICK j \in 1 .. n : rows[j].id = w /\ Written(c)[w] = rows[j].row
      BY <2>2
    <3>3. j # k
      BY <1>5, <3>1, <3>2
    <3> HIDE DEF n, rows
    <3> QED
      BY <1>4, <3>1, <3>2, <3>3
  <2>3. CASE New(v) /\ Old(w)
    <3>1. PICK k \in 1 .. n : rows[k].id = v /\ Written(c)[v] = rows[k].row
      BY <2>3
    <3> HIDE DEF n, rows
    <3> QED
      BY <1>3, <2>3, <3>1
  <2>4. CASE Old(v) /\ New(w)
    <3>1. PICK k \in 1 .. n : rows[k].id = w /\ Written(c)[w] = rows[k].row
      BY <2>4
    <3> HIDE DEF n, rows
    <3> QED
      BY <1>3, <2>4, <3>1
  <2>5. CASE Old(v) /\ Old(w)
    BY <1>5, <2>5 DEF RowsSound, Unique
  <2> HIDE DEF New, Old
  <2> QED
    BY <2>1, <2>2, <2>3, <2>4, <2>5
<1> QED
  BY <1>5 DEF Unique

LEMMA WrittenCarries ==
  ASSUME RowsSound, CarriedValuesExist, NEW c \in Call, Prepared(c), Checked(c), Numbered(c),
         DOMAIN req[c].variants = 1 .. Len(mem[c].rows)
  PROVE  ValuesExist(Written(c))
<1> SUFFICES ASSUME NEW v \in Existing(Written(c)) PROVE Written(c)[v].values \subseteq values
  BY DEF ValuesExist
<1>1. v \in VariantId /\ Written(c)[v] # Absent /\ DOMAIN variants = VariantId
  BY DEF Existing, Written, RowsSound
<1>2. CASE Written(c)[v] = variants[v]
  BY <1>1, <1>2 DEF CarriedValuesExist, Existing
<1>3. CASE \E k \in 1 .. Len(mem[c].rows) : Written(c)[v] = mem[c].rows[k].row
  <2>1. PICK k \in 1 .. Len(mem[c].rows) : Written(c)[v] = mem[c].rows[k].row
    BY <1>3
  <2>2. mem[c].rows[k].row.values = Row(c, k).values
    BY DEF Numbered
  <2>3. Row(c, k).values \subseteq values
    BY DEF Checked
  <2> QED
    BY <2>1, <2>2, <2>3
<1>4. mem[c].rows = [k \in 1 .. Len(mem[c].rows) |-> mem[c].rows[k]]
  BY DEF Prepared
<1> QED
  BY <1>1, <1>2, <1>3, <1>4, WrittenRow

LEMMA CommitVariantsSettles ==
  ASSUME VariantsInv, ~overlapped, NEW c \in Call, CommitVariants(c)
  PROVE  SerialVariants'
<1> DEFINE r == req[c]
           new == r.op = "createProduct"
           n == Len(mem[c].rows)
           Fits == /\ Unique(Written(c)) /\ ValuesExist(Written(c))
                   /\ new => \A p \in Existing(products) : products[p].sku # mem[c].sku
           created == [type |-> r.type, sku |-> mem[c].sku, name |-> r.name]
<1>1. at[c] = "variants" /\ at[c] \notin Over /\ at \in [Call -> Labels] /\ RowsSound
      /\ Labelled /\ n = Len(Asked(c)) /\ CarriedValuesExist
  BY DEF CommitVariants, Over, VariantsInv, ForestInv, ForestTypeOK, SerialVariants, Done
<1>2. /\ Prepared(c)
      /\ Creates(c) /\ ServerNames(c) => Checked(c) /\ Numbered(c)
  BY <1>1 DEF VariantsInv, SerialVariants
<1>3. r.op \in VariantOps
  BY <1>1 DEF Labelled, Serves, Operations
<1>4. Creates(c) => DOMAIN r.variants = 1 .. n
  <2>1. DOMAIN Asked(c) = 1 .. Len(Asked(c)) /\ (Creates(c) => Asked(c) = r.variants)
    BY <1>1, <1>3, RequestShape
  <2> QED
    BY <1>1, <2>1
<1>5. Creates(c) /\ ServerNames(c) => Fits
  <2> SUFFICES ASSUME Creates(c), ServerNames(c) PROVE Fits
    OBVIOUS
  <2>1. Checked(c) /\ Numbered(c) /\ DOMAIN r.variants = 1 .. n
    BY <1>2, <1>4
  <2>2. Unique(Written(c)) /\ ValuesExist(Written(c))
    BY <1>1, <1>2, <2>1, WrittenUnique, WrittenCarries
  <2>3. new => \A p \in Existing(products) : products[p].sku # mem[c].sku
    BY <2>1 DEF Checked
  <2> QED
    BY <2>2, <2>3
<1>6. CASE ~Fits /\ Conflict(c)
  <2>1. Go(c, "conflict") /\ UNCHANGED <<variants, products, mem>>
    BY <1>6 DEF Conflict, tables
  <2>2. RowsSound'
    BY <1>1, <2>1, RowsKept DEF Go
  <2> QED
    BY <1>1, <1>5, <1>6, <2>1, <2>2, SerialSettles
<1>7. CASE /\ Fits
           /\ variants' = Written(c)
           /\ products' = IF new THEN [products EXCEPT ![c] = created]
                          ELSE IF r.op = "updateProduct"
                          THEN [products EXCEPT ![r.product].name = Given(r.name, @)] ELSE products
           /\ Go(c, "done") /\ UNCHANGED mem
  <2>1. \A d \in Call : at'[d] = "done" <=> d = c \/ at[d] = "done"
    BY <1>1, <1>7 DEF Go
  <2>2. DOMAIN variants' = VariantId /\ DOMAIN products' = ProductId /\ DOMAIN mem' = Call
    BY <1>1, <1>7 DEF Written, RowsSound
  <2>3. Unique(variants)'
    BY <1>7 DEF Unique, Existing
  <2>4. ASSUME NEW p \in Existing(products)'
        PROVE  IsProduct(products'[p]) /\ (p \in Call => at'[p] = "done")
    <3>1. p \in ProductId /\ products'[p] # Absent /\ DOMAIN products = ProductId
      BY <1>1, <2>2 DEF Existing, RowsSound
    <3>2. CASE new
      <4>1. CASE p = c
        <5>1. products'[p] = created /\ IsSku(mem[c].sku)
          BY <1>2, <1>7, <3>1, <3>2, <4>1 DEF Prepared
        <5> QED
          BY <2>1, <4>1, <5>1 DEF IsProduct
      <4>2. CASE p # c
        BY <1>1, <1>7, <2>1, <3>1, <3>2, <4>2 DEF RowsSound, Existing
      <4> QED
        BY <4>1, <4>2
    <3>3. CASE ~new
      <4>0. r.product \in ProductId /\ products[r.product] # Absent
        BY <1>1, <1>2, <1>3, <3>3, RequestShape DEF Prepared
      <4>1. p \in Existing(products)
        BY <1>7, <3>1, <3>3, <4>0 DEF Existing
      <4>2. IsProduct(products[p]) /\ (p \in Call => at[p] = "done")
        BY <1>1, <4>1 DEF RowsSound
      <4>3. products'[p] = products[p] \/ \E x : products'[p] = [products[p] EXCEPT !.name = x]
        BY <1>7, <3>1, <3>3
      <4>4. IsProduct(products'[p])
        BY <4>2, <4>3 DEF IsProduct
      <4> QED
        BY <2>1, <4>2, <4>4
    <3> QED
      BY <3>2, <3>3
  <2>5. ASSUME NEW v \in Existing(variants)'
        PROVE  /\ IsVariant(variants'[v])
               /\ variants'[v].product \in Call => at'[variants'[v].product] = "done"
               /\ v \notin Variant => at'[v[1]] = "done"
    <3>1. v \in VariantId /\ Written(c)[v] # Absent /\ variants'[v] = Written(c)[v]
          /\ DOMAIN variants = VariantId
      BY <1>1, <1>7, <2>2 DEF Existing, RowsSound
    <3>2. ASSUME v \in Existing(variants), v \notin Variant PROVE at'[v[1]] = "done"
      <4>1. at[v[1]] = "done" /\ v[1] \in Call
        BY <1>1, <3>2 DEF RowsSound, Existing, VariantId
      <4> QED
        BY <2>1, <4>1
    <3>3. CASE \E k \in 1 .. n : mem[c].rows[k].id = v /\ Written(c)[v] = mem[c].rows[k].row
      <4>1. PICK k \in 1 .. n : mem[c].rows[k].id = v /\ Written(c)[v] = mem[c].rows[k].row
        BY <3>3
      <4>2. /\ IsVariant(mem[c].rows[k].row) /\ mem[c].rows[k].row.product = mem[c].product
            /\ v \in Existing(variants) \cup {<<c, k>>}
        BY <1>2, <4>1 DEF Prepared
      <4>3. mem[c].product \in Call => at'[mem[c].product] = "done"
        <5>1. CASE new
          BY <1>2, <2>1, <5>1 DEF Prepared
        <5>2. CASE ~new
          <6>1. mem[c].product = r.product /\ r.product \in ProductId /\ products[r.product] # Absent
            BY <1>1, <1>2, <1>3, <5>2, RequestShape DEF Prepared
          <6>2. mem[c].product \in Existing(products)
            BY <1>1, <6>1 DEF Existing, RowsSound
          <6> QED
            BY <1>1, <2>1, <6>2 DEF RowsSound
        <5> QED
          BY <5>1, <5>2
      <4>4. v = <<c, k>> => at'[v[1]] = "done"
        BY <2>1
      <4> HIDE DEF n
      <4> QED
        BY <3>1, <3>2, <4>1, <4>2, <4>3, <4>4
    <3>4. CASE Written(c)[v] = variants[v]
      <4>1. v \in Existing(variants) /\ variants'[v] = variants[v]
        BY <3>1, <3>4 DEF Existing
      <4>2. IsVariant(variants[v]) /\ (variants[v].product \in Call => at[variants[v].product] = "done")
        BY <1>1, <4>1 DEF RowsSound
      <4> QED
        BY <2>1, <3>2, <4>1, <4>2
    <3>5. mem[c].rows = [k \in 1 .. Len(mem[c].rows) |-> mem[c].rows[k]]
      BY <1>2 DEF Prepared
    <3> QED
      BY <1>1, <3>1, <3>3, <3>4, <3>5, WrittenRow
  <2>6. RowsSound'
    BY <2>2, <2>3, <2>4, <2>5 DEF RowsSound
  <2> QED
    BY <1>1, <1>7, <2>6, SerialSettles
<1> QED
  BY <1>6, <1>7 DEF CommitVariants

LEMMA UpdateVariantSettles ==
  ASSUME VariantsInv, ~overlapped, NEW c \in Call, UpdateVariant(c)
  PROVE  SerialVariants'
<1>1. at[c] = "updateVariant" /\ at[c] \notin Over /\ at \in [Call -> Labels] /\ RowsSound
  BY DEF UpdateVariant, Over, VariantsInv, ForestInv, ForestTypeOK, SerialVariants
<1>2. CASE Refuse(c)
  BY <1>1, <1>2, RefusalSettles
<1>3. CASE variants[req[c].variant] # Absent /\ \E m : Remember(c, m, "writeVariant")
  <2>1. PICK m : Remember(c, m, "writeVariant")
    BY <1>3
  <2>2. RowsSound' /\ Go(c, "writeVariant") /\ UNCHANGED <<req, variants>>
    BY <1>1, <2>1, RememberRows DEF Over
  <2>3. (variants[req[c].variant] # Absent)'
    BY <1>3, <2>2
  <2> QED
    BY <1>1, <2>2, <2>3, SerialSettles
<1> QED
  BY <1>2, <1>3 DEF UpdateVariant

LEMMA RowChanged ==
  ASSUME NEW row, row = [product |-> row.product, name |-> row.name, sku |-> row.sku,
                         barcode |-> row.barcode, values |-> row.values],
         NEW n, NEW s, NEW b, NEW vs, NEW new,
         new = [row EXCEPT !.name = n, !.sku = s, !.barcode = b, !.values = vs]
  PROVE  new = [product |-> row.product, name |-> n, sku |-> s, barcode |-> b, values |-> vs]
OBVIOUS

LEMMA WriteVariantSettles ==
  ASSUME VariantsInv, ~overlapped, NEW c \in Call, WriteVariant(c)
  PROVE  SerialVariants'
<1> DEFINE v == req[c].variant
           r == req[c]
           old == variants[v]
           new == [old EXCEPT !.name = Given(mem[c].name, @), !.sku = Given(r.sku, @),
                              !.barcode = Given(r.barcode, @), !.values = Given(r.values, @)]
<1>1. at[c] = "writeVariant" /\ at[c] \notin Over /\ at \in [Call -> Labels] /\ RowsSound
      /\ Labelled /\ variants[v] # Absent
  BY DEF WriteVariant, Over, VariantsInv, ForestInv, ForestTypeOK, SerialVariants
<1>2. r.op = "updateVariant" /\ r \in Request
  BY <1>1 DEF Labelled, Serves, Operations
<1>3. v \in Existing(variants) /\ (r.sku # Keep => IsSku(r.sku)) /\ ~Creates(c)
  BY <1>1, <1>2, RequestAssumption DEF RowsSound, Existing, Creates
<1>4. CASE Conflict(c)
  <2>1. Go(c, "conflict") /\ UNCHANGED <<variants, products, mem>>
    BY <1>4 DEF Conflict, tables
  <2> QED
    BY <1>1, <1>3, <2>1, UnrelatedSettles
<1>5. CASE /\ Unique(Updated(c)) /\ variants' = Updated(c) /\ Go(c, "done")
           /\ UNCHANGED <<products, mem>>
  <2>1. IsVariant(old)
    BY <1>1, <1>3 DEF RowsSound
  <2>2. Updated(c) = [variants EXCEPT ![v] = new]
    BY <1>3, <2>1 DEF Updated, Existing, IsVariant
  <2>3. new = [product |-> old.product, name |-> Given(mem[c].name, old.name),
               sku |-> Given(r.sku, old.sku), barcode |-> Given(r.barcode, old.barcode),
               values |-> Given(r.values, old.values)]
    <3>1. old = [product |-> old.product, name |-> old.name, sku |-> old.sku,
                 barcode |-> old.barcode, values |-> old.values]
      BY <2>1 DEF IsVariant
    <3> DEFINE n == Given(mem[c].name, old.name)
               s == Given(r.sku, old.sku)
               b == Given(r.barcode, old.barcode)
               vs == Given(r.values, old.values)
    <3>2. new = [old EXCEPT !.name = n, !.sku = s, !.barcode = b, !.values = vs]
      OBVIOUS
    <3>3. new = [product |-> old.product, name |-> n, sku |-> s, barcode |-> b, values |-> vs]
      <4> HIDE DEF old, new, n, s, b, vs
      <4> QED
        BY ONLY <3>1, <3>2, RowChanged
    <3> QED
      BY <3>3
  <2>4. IsVariant(new) /\ new.product = old.product
    BY <1>3, <2>1, <2>3 DEF IsVariant, Given
  <2>5. \A d \in Call : at'[d] = "done" <=> d = c \/ at[d] = "done"
    BY <1>1, <1>5 DEF Go
  <2>6. \A w \in Existing(variants)' :
          /\ w \in Existing(variants)
          /\ IsVariant(variants'[w]) /\ variants'[w].product = variants[w].product
    <3> HIDE DEF new, v
    <3> QED
      BY <1>1, <1>3, <1>5, <2>2, <2>4 DEF RowsSound, Existing
  <2>7. DOMAIN variants' = VariantId /\ DOMAIN products' = ProductId /\ DOMAIN mem' = Call
        /\ Existing(products)' = Existing(products)
    BY <1>1, <1>5, <2>2 DEF RowsSound, Existing
  <2>8. Unique(variants)'
    BY <1>5 DEF Unique, Existing
  <2>9. \A w \in Existing(variants)' :
          /\ variants'[w].product \in Call => at'[variants'[w].product] = "done"
          /\ w \notin Variant => at'[w[1]] = "done"
    <3>1. \A w \in Existing(variants) : w \notin Variant => w[1] \in Call
      BY <1>1 DEF RowsSound, Existing, VariantId
    <3> QED
      BY <1>1, <2>5, <2>6, <3>1 DEF RowsSound
  <2>10. \A p \in Existing(products)' : IsProduct(products'[p]) /\ (p \in Call => at'[p] = "done")
    BY <1>1, <1>5, <2>5, <2>7 DEF RowsSound
  <2>11. RowsSound'
    BY <2>6, <2>7, <2>8, <2>9, <2>10 DEF RowsSound
  <2> QED
    BY <1>1, <1>5, <2>11, SerialSettles
<1> QED
  BY <1>4, <1>5 DEF WriteVariant

-----------------------------------------------------------------------------
LEMMA ArriveSettles ==
  ASSUME VariantsInv, ~overlapped', NEW c \in Call, NEW r \in Request, Arrive(c, r)
  PROVE  SerialVariants'
<1>1. ~overlapped /\ (\A d \in Call : at[d] \in Over) /\ at \in [Call -> Labels] /\ DOMAIN req = Call
  BY DEF Arrive, VariantsInv, ForestInv, ForestTypeOK, Labelled
<1>2. UNCHANGED <<variants, products, mem>> /\ at[c] = "idle" /\ at' = [at EXCEPT ![c] = r.op]
      /\ req' = [req EXCEPT ![c] = r]
  BY DEF Arrive, tables
<1>3. SerialVariants
  BY <1>1 DEF VariantsInv
<1>4. RowsSound'
  BY <1>1, <1>2, <1>3, RowsKept DEF SerialVariants
<1>5. r.op \notin {"variants", "writeVariant", "conflict"}
  BY CatalogAssumption DEF Operations
<1>6. \A d \in Call : at'[d] \notin {"variants", "writeVariant"}
  BY <1>1, <1>2, <1>5 DEF Over
<1>7. ASSUME NEW d \in Call, at'[d] = "conflict"
      PROVE  Creates(d)' => ~ServerNames(d)'
  <2>1. d # c /\ at[d] = "conflict" /\ req'[d] = req[d]
    BY <1>1, <1>2, <1>5, <1>7
  <2>2. (Creates(d)' <=> Creates(d)) /\ (ServerNames(d)' <=> ServerNames(d))
    BY <2>1 DEF Creates, ServerNames, Row, Asked
  <2> QED
    BY <1>3, <2>1, <2>2 DEF SerialVariants
<1> QED
  BY <1>4, <1>6, <1>7 DEF SerialVariants

LEMMA VariantsInit == Init => VariantsInv
<1> SUFFICES ASSUME Init PROVE VariantsInv
  OBVIOUS
<1>1. /\ DOMAIN products = ProductId /\ DOMAIN variants = VariantId
      /\ DOMAIN mem = Call /\ DOMAIN req = Call /\ \A c \in Call : at[c] = "idle"
  BY DEF Init
<1>2. \A p \in Existing(products) : p \in Product /\ products[p] = Products[p] /\ Products[p] # Absent
  BY DEF Init, Existing
<1>3. \A v \in Existing(variants) : v \in Variant /\ variants[v] = Variants[v] /\ Variants[v] # Absent
  BY DEF Init, Existing
<1>4. Unique(variants)
  BY <1>3, RowsAssumption DEF Unique
<1>5. \A p \in Existing(products) : IsProduct(products[p]) /\ (p \in Call => at[p] = "done")
  BY <1>2, RowsAssumption
<1>6. \A v \in Existing(variants) :
        /\ IsVariant(variants[v])
        /\ variants[v].product \in Call => at[variants[v].product] = "done"
        /\ v \notin Variant => at[v[1]] = "done"
  BY <1>3, RowsAssumption
<1>7. RowsSound
  BY <1>1, <1>4, <1>5, <1>6 DEF RowsSound
<1>8. SerialVariants /\ Labelled
  BY <1>1, <1>7 DEF SerialVariants, Labelled
<1> QED
  BY <1>8, ForestInit, CarriedValuesInit DEF VariantsInv

LEMMA ProductStepSettles ==
  ASSUME VariantsInv, ~overlapped, NEW c \in Call, ProductStep(c)
  PROVE  SerialVariants'
BY CreateProductSettles, UpdateProductSettles, AddVariantSettles, PrepareVariantSettles,
   CommitVariantsSettles, UpdateVariantSettles, WriteVariantSettles DEF ProductStep

(* The rows in the tables pass the unique indexes, what an open create has *)
(* checked still holds, and the SKUs it was given are in nobody's use: of  *)
(* any products, variants and requests, while calls do not overlap.        *)
THEOREM CatalogVariants == Spec => []VariantsInv
<1>1. VariantsInv /\ ForestInv' /\ CarriedValuesExist' /\ [Next]_vars => VariantsInv'
  <2> SUFFICES ASSUME VariantsInv, ForestInv', CarriedValuesExist', [Next]_vars PROVE VariantsInv'
    OBVIOUS
  <2>1. ASSUME NEW c \in Call, NEW r \in Request, Arrive(c, r) PROVE VariantsInv'
    <3>1. Labelled'
      BY <2>1, ArriveLabelled DEF VariantsInv
    <3>2. ~overlapped' => SerialVariants'
      BY <2>1, ArriveSettles
    <3> QED
      BY <3>1, <3>2 DEF VariantsInv
  <2>2. ASSUME NEW c \in Call, CategoryStep(c) \/ ProductStep(c) \/ OtherStep(c) PROVE VariantsInv'
    <3>1. Labelled' /\ overlapped' = overlapped
      BY <2>2, StepLabelled, StepServes DEF VariantsInv, Go
    <3>2. ~overlapped => SerialVariants'
      BY <2>2, CategoryStepSettles, ProductStepSettles, OtherStepSettles
    <3> QED
      BY <3>1, <3>2 DEF VariantsInv
  <2>3. CASE UNCHANGED vars
    <3>1. UNCHANGED <<variants, products, values, req, at, mem, overlapped>>
      BY <2>3 DEF vars, tables
    <3>2. Labelled'
      BY <3>1 DEF VariantsInv, Labelled
    <3>3. SerialVariants => SerialVariants'
      <4>1. RowsSound => RowsSound'
        BY <3>1 DEF RowsSound, Unique, Existing
      <4>2. \A c \in Call : /\ Prepared(c) => Prepared(c)'
                            /\ Creates(c)' => Creates(c)
                            /\ ServerNames(c)' <=> ServerNames(c)
                            /\ Checked(c) => Checked(c)'
                            /\ Numbered(c) => Numbered(c)'
        BY <3>1 DEF Prepared, Creates, ServerNames, Checked, Numbered, Chosen, Row, Asked, Existing
      <4> QED
        BY <3>1, <4>1, <4>2 DEF SerialVariants
    <3> QED
      BY <3>1, <3>2, <3>3 DEF VariantsInv
  <2> QED
    BY <2>1, <2>2, <2>3 DEF Next, Terminating
<1> QED
  BY <1>1, VariantsInit, CatalogForest, CatalogValues, PTL DEF Spec

(* A create or an added variant whose checks passed is not turned away by  *)
(* the unique indexes when the server names the SKUs and nothing overlaps. *)
THEOREM CatalogChecks == Spec => []ChecksPreventConflicts
<1>1. VariantsInv => ChecksPreventConflicts
  BY DEF VariantsInv, SerialVariants, ChecksPreventConflicts, Creates, ServerNames
<1> QED
  BY <1>1, CatalogVariants, PTL
=============================================================================
