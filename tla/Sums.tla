-------------------------------- MODULE Sums --------------------------------
(***************************************************************************)
(* What the sums of the model are: SumFunctionOnSet of the module          *)
(* Functions over a finite set, whatever order its definition adds the     *)
(* elements in.  Totals of an order, of its refunds, of what a delivery    *)
(* brought and of what the ledger records are such sums.                   *)
(*                                                                         *)
(* Each fact is shown by induction on the subsets of a finite set, which   *)
(* is the well-foundedness of strict inclusion there.                      *)
(***************************************************************************)
EXTENDS Integers, FiniteSets, Functions, FiniteSetTheorems, WellFoundedInduction, TLAPS

(* Every non-empty set of subsets of a finite set has a minimal member.    *)
LEMMA MinimalSubset ==
  ASSUME NEW S, IsFiniteSet(S), NEW B \in SUBSET (SUBSET S), B # {}
  PROVE  \E s \in B : \A r \in B : ~(r \subseteq s /\ r # s)
<1>1. B \subseteq FiniteSubsetsOf(S)
  BY FS_Subset DEF FiniteSubsetsOf
<1>2. PICK s \in B : \A r \in B : <<r, s>> \notin StrictSubsetOrdering(S)
  BY <1>1, FS_StrictSubsetOrderingWellFounded, WFMin
<1> QED
  BY <1>1, <1>2 DEF StrictSubsetOrdering, FiniteSubsetsOf

(* So what holds of the empty set and survives the addition of one element *)
(* holds of every subset; G is the set of subsets it holds of.             *)
LEMMA SubsetInduction ==
  ASSUME NEW S, IsFiniteSet(S), NEW G, {} \in G,
         \A T \in SUBSET S : \A x \in S \ T : T \in G => T \cup {x} \in G
  PROVE  SUBSET S \subseteq G
<1> DEFINE B == (SUBSET S) \ G
<1> SUFFICES ASSUME B # {} PROVE FALSE
  OBVIOUS
<1>0. B \in SUBSET (SUBSET S)
  OBVIOUS
<1>1. PICK s \in B : \A r \in B : ~(r \subseteq s /\ r # s)
  <2> HIDE DEF B
  <2> QED
    BY <1>0, MinimalSubset
<1>2. PICK x \in s : TRUE
  BY <1>1
<1>3. s \ {x} \in G /\ s \ {x} \in SUBSET S /\ x \in S \ (s \ {x})
  BY <1>1, <1>2
<1>4. (s \ {x}) \cup {x} = s
  BY <1>2
<1> QED
  BY <1>1, <1>3, <1>4

(* The image of a finite set is finite.                                    *)
LEMMA ImageFinite ==
  ASSUME NEW S, IsFiniteSet(S), NEW f
  PROVE  IsFiniteSet({f[x] : x \in S})
<1> DEFINE G == {T \in SUBSET S : IsFiniteSet({f[x] : x \in T})}
<1>1. {} \in G
  <2>1. {f[x] : x \in {}} = {}
    OBVIOUS
  <2> QED
    BY <2>1, FS_EmptySet
<1>2. \A T \in SUBSET S : \A x \in S \ T : T \in G => T \cup {x} \in G
  <2> SUFFICES ASSUME NEW T \in SUBSET S, NEW x \in S \ T, T \in G PROVE T \cup {x} \in G
    OBVIOUS
  <2>1. {f[y] : y \in T \cup {x}} = {f[y] : y \in T} \cup {f[x]}
    OBVIOUS
  <2>2. IsFiniteSet({f[y] : y \in T} \cup {f[x]})
    BY FS_AddElement
  <2> QED
    BY <2>1, <2>2
<1> HIDE DEF G
<1>3. S \in G
  BY <1>1, <1>2, SubsetInduction
<1> QED
  BY <1>3 DEF G

(* The same on the natural numbers.                                        *)
LEMMA NatSetInduction ==
  ASSUME NEW G, 0 \in G, \A n \in Nat : n \in G => n + 1 \in G
  PROVE  Nat \subseteq G
<1> DEFINE B == Nat \ G
<1> SUFFICES ASSUME B # {} PROVE FALSE
  OBVIOUS
<1>1. PICK m \in B : \A n \in B : <<n, m>> \notin OpToRel(<, Nat)
  <2>1. B \in SUBSET Nat
    OBVIOUS
  <2> HIDE DEF B
  <2> QED
    BY <2>1, NatLessThanWellFounded, WFMin
<1>2. \A n \in B : ~(n < m)
  BY <1>1 DEF OpToRel
<1>3. m \in Nat /\ m \notin G
  OBVIOUS
<1>4. m # 0
  BY <1>3
<1>5. m - 1 \in Nat /\ m - 1 < m /\ (m - 1) + 1 = m
  BY <1>3, <1>4
<1>6. m - 1 \in G
  BY <1>2, <1>5
<1> QED
  BY <1>3, <1>5, <1>6

-----------------------------------------------------------------------------
(* The definition of the sum.                                              *)
First(s) == CHOOSE x \in s : TRUE
Recursion(g, f, S) ==
  g = [s \in SUBSET S |-> IF s = {} THEN 0 ELSE f[First(s)] + g[s \ {First(s)}]]

LEMMA Unfold ==
  ASSUME NEW f, NEW S
  PROVE  SumFunctionOnSet(f, S) = (CHOOSE g : Recursion(g, f, S))[S]
BY DEF SumFunctionOnSet, FoldFunctionOnSet, MapThenFoldSet, Recursion, First

(* A function on the subsets of S that adds the elements up.               *)
Additive(g, f, S) ==
  /\ g \in [SUBSET S -> Int]
  /\ g[{}] = 0
  /\ \A T \in SUBSET S : \A x \in S \ T : g[T \cup {x}] = f[x] + g[T]

IntValued(f, S) == \A x \in S : f[x] \in Int

LEMMA AdditiveExists ==
  ASSUME NEW S, IsFiniteSet(S), NEW f, IntValued(f, S)
  PROVE  \E g : Additive(g, f, S)
<1> DEFINE G == {T \in SUBSET S : \E g : Additive(g, f, T)}
<1>1. {} \in G
  <2>1. Additive([T \in SUBSET {} |-> 0], f, {})
    BY DEF Additive
  <2> QED
    BY <2>1
<1>2. ASSUME NEW T \in SUBSET S, NEW x \in S \ T, T \in G PROVE T \cup {x} \in G
  <2>1. PICK g : Additive(g, f, T)
    BY <1>2
  <2> DEFINE U == T \cup {x}
             h == [s \in SUBSET U |-> IF x \in s THEN f[x] + g[s \ {x}] ELSE g[s]]
  <2>2. \A s \in SUBSET U : s \ {x} \in SUBSET T /\ (x \notin s => s \in SUBSET T)
    OBVIOUS
  <2>3. f[x] \in Int /\ \A s \in SUBSET T : g[s] \in Int
    BY <2>1 DEF IntValued, Additive
  <2>4. h \in [SUBSET U -> Int]
    BY <2>2, <2>3
  <2>5. h[{}] = 0
    BY <2>1 DEF Additive
  <2>6. ASSUME NEW s \in SUBSET U, NEW y \in U \ s PROVE h[s \cup {y}] = f[y] + h[s]
    <3>0. s \cup {y} \in SUBSET U
      OBVIOUS
    <3>1. CASE y = x
      <4>1. (s \cup {x}) \ {x} = s /\ x \notin s
        BY <2>6, <3>1
      <4> QED
        BY <3>0, <3>1, <4>1
    <3>2. CASE y # x /\ x \in s
      <4>1. (s \cup {y}) \ {x} = (s \ {x}) \cup {y} /\ y \in T \ (s \ {x})
        BY <2>6, <3>2
      <4>2. g[(s \ {x}) \cup {y}] = f[y] + g[s \ {x}]
        BY <2>1, <2>2, <4>1 DEF Additive
      <4>3. f[y] \in Int /\ f[x] \in Int /\ g[s \ {x}] \in Int
        BY <2>2, <2>3 DEF IntValued
      <4>4. h[s \cup {y}] = f[x] + g[(s \cup {y}) \ {x}] /\ h[s] = f[x] + g[s \ {x}]
        BY <3>0, <3>2
      <4>5. g[(s \cup {y}) \ {x}] = f[y] + g[s \ {x}]
        BY <4>1, <4>2, Zenon
      <4> HIDE DEF h
      <4> QED
        BY <4>3, <4>4, <4>5
    <3>3. CASE y # x /\ x \notin s
      <4>1. s \in SUBSET T /\ y \in T \ s
        BY <2>6, <3>3
      <4>2. g[s \cup {y}] = f[y] + g[s]
        BY <2>1, <4>1 DEF Additive
      <4> QED
        BY <3>0, <3>3, <4>2
    <3> QED
      BY <3>1, <3>2, <3>3
  <2>7. Additive(h, f, U)
    <3> HIDE DEF h
    <3> QED
      BY <2>4, <2>5, <2>6 DEF Additive
  <2> QED
    BY <2>7
<1>3. SUBSET S \subseteq G
  <2> HIDE DEF G
  <2> QED
    BY <1>1, <1>2, SubsetInduction
<1> QED
  BY <1>3

LEMMA AdditiveRecursion ==
  ASSUME NEW S, NEW f, NEW g, Additive(g, f, S)
  PROVE  Recursion(g, f, S)
<1> DEFINE h == [s \in SUBSET S |-> IF s = {} THEN 0 ELSE f[First(s)] + g[s \ {First(s)}]]
<1>1. ASSUME NEW s \in SUBSET S PROVE g[s] = h[s]
  <2>1. CASE s = {}
    BY <2>1 DEF Additive
  <2>2. CASE s # {}
    <3>1. First(s) \in s
      BY <2>2 DEF First
    <3>2. (s \ {First(s)}) \cup {First(s)} = s
      BY <3>1
    <3>3. First(s) \in S \ (s \ {First(s)}) /\ s \ {First(s)} \in SUBSET S
      BY <3>1
    <3> QED
      BY <2>2, <3>2, <3>3 DEF Additive
  <2> QED
    BY <2>1, <2>2
<1>2. g = [s \in SUBSET S |-> g[s]]
  BY DEF Additive
<1> HIDE DEF h
<1>3. g = h
  BY <1>1, <1>2 DEF h
<1> QED
  BY <1>3 DEF Recursion, h

(* The sum over any subset is what an additive function says of it.        *)
LEMMA SumAdditive ==
  ASSUME NEW S, IsFiniteSet(S), NEW f, NEW g, Additive(g, f, S)
  PROVE  SumFunctionOnSet(f, S) = g[S]
<1> DEFINE c == CHOOSE h : Recursion(h, f, S)
<1>1. Recursion(c, f, S)
  BY AdditiveRecursion
<1> HIDE DEF c
<1> DEFINE G == {T \in SUBSET S : c[T] = g[T]}
<1>2. Recursion(g, f, S)
  BY AdditiveRecursion
<1>3. SUBSET S \subseteq G
  <2> DEFINE B == (SUBSET S) \ G
  <2> SUFFICES ASSUME B # {} PROVE FALSE
    OBVIOUS
  <2>0. B \in SUBSET (SUBSET S)
    OBVIOUS
  <2>1. PICK s \in B : \A r \in B : ~(r \subseteq s /\ r # s)
    <3> HIDE DEF B
    <3> QED
      BY <2>0, MinimalSubset
  <2>2. CASE s = {}
    BY <1>1, <1>2, <2>1, <2>2 DEF Recursion
  <2>3. CASE s # {}
    <3>1. First(s) \in s
      BY <2>3 DEF First
    <3>2. s \ {First(s)} \in G
      BY <2>1, <3>1
    <3> QED
      BY <1>1, <1>2, <2>1, <2>3, <3>2 DEF Recursion
  <2> QED
    BY <2>2, <2>3
<1>4. c[S] = g[S]
  BY <1>3
<1> QED
  BY <1>4, Unfold DEF c

-----------------------------------------------------------------------------
(* The facts the other proofs use.                                         *)

LEMMA SumEmpty ==
  ASSUME NEW f
  PROVE  SumFunctionOnSet(f, {}) = 0
<1>1. PICK g : Additive(g, f, {})
  BY AdditiveExists, FS_EmptySet DEF IntValued
<1> QED
  BY <1>1, SumAdditive, FS_EmptySet DEF Additive

LEMMA SumAdd ==
  ASSUME NEW S, IsFiniteSet(S), NEW x, x \notin S, NEW f, IntValued(f, S \cup {x})
  PROVE  /\ SumFunctionOnSet(f, S \cup {x}) = f[x] + SumFunctionOnSet(f, S)
         /\ SumFunctionOnSet(f, S) \in Int
<1> DEFINE U == S \cup {x}
<1>1. IsFiniteSet(U)
  BY FS_AddElement
<1>2. PICK g : Additive(g, f, U)
  BY <1>1, AdditiveExists
<1>3. SumFunctionOnSet(f, U) = g[U]
  BY <1>1, <1>2, SumAdditive
<1> DEFINE h == [s \in SUBSET S |-> g[s]]
<1>4. Additive(h, f, S)
  <2>1. SUBSET S \subseteq SUBSET U
    OBVIOUS
  <2>2. h \in [SUBSET S -> Int]
    BY <1>2, <2>1 DEF Additive
  <2>3. \A T \in SUBSET S : h[T] = g[T]
    OBVIOUS
  <2>4. \A T \in SUBSET S : \A y \in S \ T : T \cup {y} \in SUBSET S /\ y \in U \ T
    OBVIOUS
  <2> HIDE DEF h
  <2> QED
    BY <1>2, <2>1, <2>2, <2>3, <2>4 DEF Additive
<1>5. SumFunctionOnSet(f, S) = h[S]
  BY <1>4, SumAdditive
<1>6. h[S] = g[S] /\ g[S] \in Int /\ g[U] = f[x] + g[S]
  BY <1>2 DEF Additive
<1> QED
  BY <1>3, <1>5, <1>6

LEMMA SumInt ==
  ASSUME NEW S, IsFiniteSet(S), NEW f, IntValued(f, S)
  PROVE  SumFunctionOnSet(f, S) \in Int
<1>1. PICK g : Additive(g, f, S)
  BY AdditiveExists
<1>2. SumFunctionOnSet(f, S) = g[S]
  BY <1>1, SumAdditive
<1>3. S \in SUBSET S /\ g \in [SUBSET S -> Int]
  BY <1>1 DEF Additive
<1> QED
  BY <1>2, <1>3

(* The sum of a set is that of a part and that of the rest.                *)
LEMMA SumUnion ==
  ASSUME NEW S, IsFiniteSet(S), NEW R, IsFiniteSet(R), S \cap R = {},
         NEW f, IntValued(f, S), IntValued(f, R)
  PROVE  SumFunctionOnSet(f, S \cup R) = SumFunctionOnSet(f, S) + SumFunctionOnSet(f, R)
<1> DEFINE sum(U) == SumFunctionOnSet(f, U)
           G == {U \in SUBSET R : sum(S \cup U) = sum(S) + sum(U)}
<1>0. sum(S) \in Int
  BY SumInt
<1>1. {} \in G
  <2>1. sum({}) = 0
    BY SumEmpty
  <2>2. S \cup {} = S
    OBVIOUS
  <2>3. sum(S \cup {}) = sum(S)
    BY <2>2, Zenon
  <2> HIDE DEF sum
  <2> QED
    BY <1>0, <2>1, <2>3
<1>2. ASSUME NEW U \in SUBSET R, NEW x \in R \ U, U \in G PROVE U \cup {x} \in G
  <2>1. IsFiniteSet(U) /\ IsFiniteSet(S \cup U)
    BY FS_Subset, FS_Union
  <2>2. sum(U \cup {x}) = f[x] + sum(U) /\ sum(U) \in Int /\ f[x] \in Int
    BY <2>1, SumAdd DEF IntValued
  <2>3. sum((S \cup U) \cup {x}) = f[x] + sum(S \cup U)
    BY <2>1, SumAdd DEF IntValued
  <2>4. (S \cup U) \cup {x} = S \cup (U \cup {x})
    OBVIOUS
  <2>5. sum((S \cup U) \cup {x}) = sum(S \cup (U \cup {x}))
    BY <2>4, Zenon
  <2>6. sum(S \cup U) = sum(S) + sum(U) /\ U \cup {x} \in SUBSET R
    BY <1>2
  <2> HIDE DEF sum
  <2> QED
    BY <1>0, <2>2, <2>3, <2>5, <2>6
<1>3. SUBSET R \subseteq G
  <2>1. \A U \in SUBSET R : \A x \in R \ U : U \in G => U \cup {x} \in G
    BY <1>2
  <2> HIDE DEF G, sum
  <2> QED
    BY ONLY IsFiniteSet(R), <1>1, <2>1, SubsetInduction
<1> QED
  BY <1>3

LEMMA SumOne ==
  ASSUME NEW x, NEW f, f[x] \in Int
  PROVE  SumFunctionOnSet(f, {x}) = f[x]
<1>1. {} \cup {x} = {x} /\ IsFiniteSet({}) /\ x \notin {} /\ IntValued(f, {x})
  BY FS_EmptySet DEF IntValued
<1>2. SumFunctionOnSet(f, {} \cup {x}) = f[x] + SumFunctionOnSet(f, {})
  BY <1>1, SumAdd
<1>3. SumFunctionOnSet(f, {} \cup {x}) = SumFunctionOnSet(f, {x})
  BY <1>1, Zenon
<1> QED
  BY <1>2, <1>3, SumEmpty

(* One element and the rest.                                               *)
LEMMA SumSplit ==
  ASSUME NEW S, IsFiniteSet(S), NEW x \in S, NEW f, IntValued(f, S)
  PROVE  /\ SumFunctionOnSet(f, S) = f[x] + SumFunctionOnSet(f, S \ {x})
         /\ SumFunctionOnSet(f, S \ {x}) \in Int /\ f[x] \in Int
         /\ IsFiniteSet(S \ {x}) /\ IntValued(f, S \ {x})
<1>1. IsFiniteSet(S \ {x}) /\ IntValued(f, S \ {x}) /\ f[x] \in Int
  BY FS_Subset DEF IntValued
<1>2. (S \ {x}) \cup {x} = S
  OBVIOUS
<1>3. IntValued(f, (S \ {x}) \cup {x})
  BY <1>2, Zenon
<1>4. SumFunctionOnSet(f, (S \ {x}) \cup {x}) = f[x] + SumFunctionOnSet(f, S \ {x})
  BY <1>1, <1>3, SumAdd
<1>5. SumFunctionOnSet(f, (S \ {x}) \cup {x}) = SumFunctionOnSet(f, S)
  BY <1>2, Zenon
<1> QED
  BY <1>1, <1>4, <1>5, SumInt

(* Pointwise larger values have a larger sum.                              *)
LEMMA SumOrder ==
  ASSUME NEW S, IsFiniteSet(S), NEW f, NEW g, IntValued(f, S), IntValued(g, S),
         \A x \in S : f[x] <= g[x]
  PROVE  SumFunctionOnSet(f, S) <= SumFunctionOnSet(g, S)
<1> DEFINE G == {U \in SUBSET S : SumFunctionOnSet(f, U) <= SumFunctionOnSet(g, U)}
<1>1. {} \in G
  BY SumEmpty
<1>2. ASSUME NEW U \in SUBSET S, NEW x \in S \ U, U \in G PROVE U \cup {x} \in G
  <2>1. IsFiniteSet(U) /\ IntValued(f, U \cup {x}) /\ IntValued(g, U \cup {x})
    BY FS_Subset DEF IntValued
  <2>2. /\ SumFunctionOnSet(f, U \cup {x}) = f[x] + SumFunctionOnSet(f, U)
        /\ SumFunctionOnSet(f, U) \in Int
    BY <2>1, SumAdd
  <2>3. /\ SumFunctionOnSet(g, U \cup {x}) = g[x] + SumFunctionOnSet(g, U)
        /\ SumFunctionOnSet(g, U) \in Int
    BY <2>1, SumAdd
  <2> QED
    BY <1>2, <2>2, <2>3 DEF IntValued
<1>3. SUBSET S \subseteq G
  <2> HIDE DEF G
  <2> QED
    BY <1>1, <1>2, SubsetInduction
<1> QED
  BY <1>3

LEMMA SumSame ==
  ASSUME NEW S, IsFiniteSet(S), NEW f, NEW g, IntValued(f, S), \A x \in S : f[x] = g[x]
  PROVE  SumFunctionOnSet(f, S) = SumFunctionOnSet(g, S)
<1>1. IntValued(g, S) /\ (\A x \in S : f[x] <= g[x]) /\ (\A x \in S : g[x] <= f[x])
  BY DEF IntValued
<1>2. SumFunctionOnSet(f, S) <= SumFunctionOnSet(g, S)
  BY <1>1, SumOrder
<1>3. SumFunctionOnSet(g, S) <= SumFunctionOnSet(f, S)
  BY <1>1, SumOrder
<1> QED
  BY <1>1, <1>2, <1>3, SumInt

LEMMA SumZero ==
  ASSUME NEW S, IsFiniteSet(S), NEW f, \A x \in S : f[x] = 0
  PROVE  SumFunctionOnSet(f, S) = 0
<1> DEFINE G == {U \in SUBSET S : SumFunctionOnSet(f, U) = 0}
<1>1. {} \in G
  BY SumEmpty
<1>2. ASSUME NEW U \in SUBSET S, NEW x \in S \ U, U \in G PROVE U \cup {x} \in G
  <2>1. IsFiniteSet(U) /\ IntValued(f, U \cup {x}) /\ f[x] = 0
    BY FS_Subset DEF IntValued
  <2>2. SumFunctionOnSet(f, U \cup {x}) = f[x] + SumFunctionOnSet(f, U)
    BY <2>1, SumAdd
  <2> QED
    BY <1>2, <2>1, <2>2
<1>3. SUBSET S \subseteq G
  <2> HIDE DEF G
  <2> QED
    BY <1>1, <1>2, SubsetInduction
<1> QED
  BY <1>3

(* Natural numbers have a natural sum, of which a part is not more than    *)
(* the whole.                                                              *)
NatValued(f, S) == \A x \in S : f[x] \in Nat

LEMMA SumNat ==
  ASSUME NEW S, IsFiniteSet(S), NEW f, NatValued(f, S)
  PROVE  SumFunctionOnSet(f, S) \in Nat
<1> DEFINE zero == [x \in S |-> 0]
<1>1. IntValued(f, S) /\ IntValued(zero, S) /\ \A x \in S : zero[x] <= f[x] /\ zero[x] = 0
  BY DEF IntValued, NatValued
<1> HIDE DEF zero
<1>2. SumFunctionOnSet(zero, S) <= SumFunctionOnSet(f, S) /\ SumFunctionOnSet(zero, S) = 0
  BY <1>1, SumOrder, SumZero
<1> QED
  BY <1>1, <1>2, SumInt

LEMMA SumPart ==
  ASSUME NEW S, IsFiniteSet(S), NEW T \in SUBSET S, NEW f, NatValued(f, S)
  PROVE  SumFunctionOnSet(f, T) <= SumFunctionOnSet(f, S)
<1>1. IsFiniteSet(T) /\ IsFiniteSet(S \ T)
  BY FS_Subset
<1>2. NatValued(f, T) /\ NatValued(f, S \ T) /\ IntValued(f, T) /\ IntValued(f, S \ T)
  BY DEF NatValued, IntValued
<1>3. T \cup (S \ T) = S /\ T \cap (S \ T) = {}
  OBVIOUS
<1>4. SumFunctionOnSet(f, T \cup (S \ T)) = SumFunctionOnSet(f, T) + SumFunctionOnSet(f, S \ T)
  BY <1>1, <1>2, <1>3, SumUnion
<1>5. SumFunctionOnSet(f, T \cup (S \ T)) = SumFunctionOnSet(f, S)
  BY <1>3, Zenon
<1>6. SumFunctionOnSet(f, T) \in Nat /\ SumFunctionOnSet(f, S \ T) \in Nat
  BY <1>1, <1>2, SumNat
<1> QED
  BY <1>4, <1>5, <1>6

LEMMA SumAtLeast ==
  ASSUME NEW S, IsFiniteSet(S), NEW x \in S, NEW f, NatValued(f, S)
  PROVE  f[x] <= SumFunctionOnSet(f, S)
<1>1. IntValued(f, S) /\ NatValued(f, S \ {x}) /\ IsFiniteSet(S \ {x})
  BY FS_Subset DEF IntValued, NatValued
<1>2. SumFunctionOnSet(f, S) = f[x] + SumFunctionOnSet(f, S \ {x}) /\ f[x] \in Int
  BY <1>1, SumSplit
<1>3. SumFunctionOnSet(f, S \ {x}) \in Nat
  BY <1>1, SumNat
<1> QED
  BY <1>2, <1>3

(* Another value at one element changes the sum by the difference.         *)
LEMMA SumChange ==
  ASSUME NEW S, IsFiniteSet(S), NEW x \in S, NEW f, NEW g, IntValued(f, S), IntValued(g, S),
         \A y \in S \ {x} : f[y] = g[y]
  PROVE  SumFunctionOnSet(g, S) = SumFunctionOnSet(f, S) + g[x] - f[x]
<1>1. /\ SumFunctionOnSet(f, S) = f[x] + SumFunctionOnSet(f, S \ {x})
      /\ SumFunctionOnSet(f, S \ {x}) \in Int /\ f[x] \in Int
      /\ IsFiniteSet(S \ {x}) /\ IntValued(f, S \ {x})
  BY SumSplit
<1>2. SumFunctionOnSet(g, S) = g[x] + SumFunctionOnSet(g, S \ {x}) /\ g[x] \in Int
  BY SumSplit
<1>3. SumFunctionOnSet(f, S \ {x}) = SumFunctionOnSet(g, S \ {x})
  BY <1>1, SumSame
<1> QED
  BY <1>1, <1>2, <1>3

(* A new element adds its value, whatever names the function.              *)
LEMMA SumGrow ==
  ASSUME NEW S, IsFiniteSet(S), NEW x, x \notin S, NEW f, NEW g, IntValued(f, S),
         \A y \in S : g[y] = f[y], g[x] \in Int
  PROVE  SumFunctionOnSet(g, S \cup {x}) = SumFunctionOnSet(f, S) + g[x]
<1>1. IntValued(g, S \cup {x})
  BY DEF IntValued
<1>2. SumFunctionOnSet(g, S \cup {x}) = g[x] + SumFunctionOnSet(g, S) /\ SumFunctionOnSet(g, S) \in Int
  BY <1>1, SumAdd
<1>3. SumFunctionOnSet(f, S) = SumFunctionOnSet(g, S)
  BY SumSame
<1> QED
  BY <1>2, <1>3

(* The sum over a part is a sum over the whole, with nothing elsewhere.    *)
LEMMA SumWhere ==
  ASSUME NEW S, IsFiniteSet(S), NEW T \in SUBSET S, NEW f, NEW g, IntValued(f, T),
         \A x \in T : g[x] = f[x], \A x \in S \ T : g[x] = 0
  PROVE  SumFunctionOnSet(g, S) = SumFunctionOnSet(f, T)
<1>1. IsFiniteSet(T) /\ IsFiniteSet(S \ T)
  BY FS_Subset
<1>2. IntValued(g, T) /\ IntValued(g, S \ T)
  BY DEF IntValued
<1>3. T \cup (S \ T) = S /\ T \cap (S \ T) = {}
  OBVIOUS
<1>4. SumFunctionOnSet(g, T \cup (S \ T)) = SumFunctionOnSet(g, T) + SumFunctionOnSet(g, S \ T)
  BY <1>1, <1>2, <1>3, SumUnion
<1>5. SumFunctionOnSet(g, T \cup (S \ T)) = SumFunctionOnSet(g, S)
  BY <1>3, Zenon
<1>6. SumFunctionOnSet(g, T) = SumFunctionOnSet(f, T) /\ SumFunctionOnSet(g, S \ T) = 0
  BY <1>1, <1>2, SumSame, SumZero
<1> QED
  BY <1>1, <1>2, <1>4, <1>5, <1>6, SumInt

LEMMA SumPlus ==
  ASSUME NEW S, IsFiniteSet(S), NEW f, NEW g, NEW h, IntValued(f, S), IntValued(g, S),
         \A x \in S : h[x] = f[x] + g[x]
  PROVE  SumFunctionOnSet(h, S) = SumFunctionOnSet(f, S) + SumFunctionOnSet(g, S)
<1> DEFINE G == {U \in SUBSET S : SumFunctionOnSet(h, U) =
                                    SumFunctionOnSet(f, U) + SumFunctionOnSet(g, U)}
<1>1. {} \in G
  BY SumEmpty
<1>2. ASSUME NEW U \in SUBSET S, NEW x \in S \ U, U \in G PROVE U \cup {x} \in G
  <2>1. /\ IsFiniteSet(U) /\ IntValued(f, U \cup {x}) /\ IntValued(g, U \cup {x})
        /\ IntValued(h, U \cup {x}) /\ f[x] \in Int /\ g[x] \in Int
    BY FS_Subset DEF IntValued
  <2>2. /\ SumFunctionOnSet(f, U \cup {x}) = f[x] + SumFunctionOnSet(f, U)
        /\ SumFunctionOnSet(f, U) \in Int
    BY <2>1, SumAdd
  <2>3. /\ SumFunctionOnSet(g, U \cup {x}) = g[x] + SumFunctionOnSet(g, U)
        /\ SumFunctionOnSet(g, U) \in Int
    BY <2>1, SumAdd
  <2>4. SumFunctionOnSet(h, U \cup {x}) = h[x] + SumFunctionOnSet(h, U)
    BY <2>1, SumAdd
  <2>5. h[x] = f[x] + g[x] /\ U \cup {x} \in SUBSET S
    OBVIOUS
  <2>6. SumFunctionOnSet(h, U) = SumFunctionOnSet(f, U) + SumFunctionOnSet(g, U)
    BY <1>2
  <2> QED
    BY <2>1, <2>2, <2>3, <2>4, <2>5, <2>6
<1>3. SUBSET S \subseteq G
  <2> HIDE DEF G
  <2> QED
    BY <1>1, <1>2, SubsetInduction
<1> QED
  BY <1>3

LEMMA SumTimes ==
  ASSUME NEW S, IsFiniteSet(S), NEW f, NEW h, NEW c \in Int, IntValued(f, S),
         \A x \in S : h[x] = f[x] * c
  PROVE  SumFunctionOnSet(h, S) = SumFunctionOnSet(f, S) * c
<1> DEFINE G == {U \in SUBSET S : SumFunctionOnSet(h, U) = SumFunctionOnSet(f, U) * c}
<1>1. {} \in G
  BY SumEmpty
<1>2. ASSUME NEW U \in SUBSET S, NEW x \in S \ U, U \in G PROVE U \cup {x} \in G
  <2>0. h[x] = f[x] * c /\ f[x] \in Int /\ U \cup {x} \in SUBSET S
    BY DEF IntValued
  <2>1. IsFiniteSet(U) /\ IntValued(f, U \cup {x})
    BY FS_Subset DEF IntValued
  <2>2. /\ SumFunctionOnSet(f, U \cup {x}) = f[x] + SumFunctionOnSet(f, U)
        /\ SumFunctionOnSet(f, U) \in Int
    BY <2>1, SumAdd
  <2>3. IntValued(h, U \cup {x})
    <3>1. \A m, n \in Int : m * n \in Int
      OBVIOUS
    <3> QED
      BY <3>1 DEF IntValued
  <2>4. SumFunctionOnSet(h, U \cup {x}) = h[x] + SumFunctionOnSet(h, U)
    BY <2>1, <2>3, SumAdd
  <2>5. SumFunctionOnSet(h, U) = SumFunctionOnSet(f, U) * c
    BY <1>2
  <2>6. \A m, n \in Int : (m + n) * c = m * c + n * c
    OBVIOUS
  <2> QED
    BY <2>0, <2>2, <2>4, <2>5, <2>6
<1>3. SUBSET S \subseteq G
  <2> HIDE DEF G
  <2> QED
    BY <1>1, <1>2, SubsetInduction
<1> QED
  BY <1>3

(* The order of summation does not matter.                                 *)
LEMMA SumSwap ==
  ASSUME NEW S, IsFiniteSet(S), NEW T, IsFiniteSet(T), NEW f \in [S -> [T -> Int]]
  PROVE  SumFunctionOnSet([x \in S |-> SumFunctionOnSet(f[x], T)], S)
       = SumFunctionOnSet([y \in T |-> SumFunctionOnSet([x \in S |-> f[x][y]], S)], T)
<1> DEFINE row == [x \in S |-> SumFunctionOnSet(f[x], T)]
           slice(y) == [x \in S |-> f[x][y]]
           column(U) == [y \in T |-> SumFunctionOnSet(slice(y), U)]
           G == {U \in SUBSET S : SumFunctionOnSet(row, U) = SumFunctionOnSet(column(U), T)}
<1>0. /\ IntValued(row, S)
      /\ \A x \in S : IntValued(f[x], T)
      /\ \A y \in T : IntValued(slice(y), S)
  <2>1. \A x \in S : IntValued(f[x], T)
    BY DEF IntValued
  <2> QED
    BY <2>1, SumInt DEF IntValued
<1>1. {} \in G
  <2>1. \A y \in T : column({})[y] = 0
    BY SumEmpty
  <2>2. SumFunctionOnSet(column({}), T) = 0
    <3> HIDE DEF column
    <3> QED
      BY <2>1, SumZero
  <2> QED
    BY <2>2, SumEmpty
<1>2. ASSUME NEW U \in SUBSET S, NEW x \in S \ U, U \in G PROVE U \cup {x} \in G
  <2> DEFINE V == U \cup {x}
  <2>1. IsFiniteSet(U) /\ IsFiniteSet(V) /\ V \in SUBSET S
    BY FS_Subset
  <2>2. IntValued(row, V) /\ \A y \in T : IntValued(slice(y), V) /\ IntValued(slice(y), U)
    BY <1>0 DEF IntValued
  <2>3. SumFunctionOnSet(row, V) = row[x] + SumFunctionOnSet(row, U)
    BY <2>1, <2>2, SumAdd
  <2>4. \A y \in T : /\ SumFunctionOnSet(slice(y), V) = slice(y)[x] + SumFunctionOnSet(slice(y), U)
                     /\ SumFunctionOnSet(slice(y), U) \in Int
    <3> HIDE DEF slice
    <3> QED
      BY <2>1, <2>2, SumAdd
  <2>5. \A y \in T : column(V)[y] = f[x][y] + column(U)[y] /\ column(U)[y] \in Int
    BY <2>4
  <2>6. SumFunctionOnSet(column(V), T) = SumFunctionOnSet(f[x], T) + SumFunctionOnSet(column(U), T)
    <3> DEFINE old == column(U)
               new == column(V)
    <3>1. IntValued(f[x], T) /\ IntValued(old, T) /\ \A y \in T : new[y] = f[x][y] + old[y]
      BY <1>0, <2>5 DEF IntValued
    <3> HIDE DEF old, new
    <3>2. SumFunctionOnSet(new, T) = SumFunctionOnSet(f[x], T) + SumFunctionOnSet(old, T)
      BY <3>1, SumPlus
    <3> QED
      BY <3>2 DEF old, new
  <2>7. row[x] = SumFunctionOnSet(f[x], T) /\ SumFunctionOnSet(row, U) = SumFunctionOnSet(column(U), T)
    BY <1>2
  <2> HIDE DEF row, column
  <2> QED
    BY <2>1, <2>3, <2>6, <2>7
<1>3. SUBSET S \subseteq G
  <2> HIDE DEF G
  <2> QED
    BY <1>1, <1>2, SubsetInduction
<1>4. SumFunctionOnSet(row, S) = SumFunctionOnSet(column(S), T)
  BY <1>3
<1> QED
  BY <1>4

(* Summing over other names of the same elements.                          *)
LEMMA SumRenamed ==
  ASSUME NEW S, IsFiniteSet(S), NEW b, NEW f, NEW g, IntValued(f, S),
         \A x \in S : f[x] = g[b[x]],
         \A x, y \in S : b[x] = b[y] => x = y
  PROVE  SumFunctionOnSet(f, S) = SumFunctionOnSet(g, {b[x] : x \in S})
<1> DEFINE image(U) == {b[x] : x \in U}
           G == {U \in SUBSET S : SumFunctionOnSet(f, U) = SumFunctionOnSet(g, image(U))}
<1>1. {} \in G
  <2>1. image({}) = {}
    OBVIOUS
  <2>2. SumFunctionOnSet(g, image({})) = SumFunctionOnSet(g, {})
    BY <2>1, Zenon
  <2> HIDE DEF image
  <2> QED
    BY <2>2, SumEmpty
<1>2. ASSUME NEW U \in SUBSET S, NEW x \in S \ U, U \in G PROVE U \cup {x} \in G
  <2>1. IsFiniteSet(U) /\ IntValued(f, U \cup {x}) /\ IsFiniteSet(image(U))
    <3>1. IsFiniteSet(U) /\ \A y \in U \cup {x} : y \in S
      BY FS_Subset
    <3>2. IntValued(f, U \cup {x})
      BY <3>1 DEF IntValued
    <3>3. IsFiniteSet(image(U))
      <4> DEFINE c == [y \in U |-> b[y]]
      <4>1. image(U) = {c[y] : y \in U} /\ c \in [U -> image(U)]
        OBVIOUS
      <4>2. c \in Surjection(U, image(U))
        BY <4>1 DEF Surjection
      <4> HIDE DEF c, image
      <4> QED
        BY <3>1, <4>2, FS_Surjection
    <3> QED
      BY <3>1, <3>2, <3>3
  <2>2. image(U \cup {x}) = image(U) \cup {b[x]} /\ b[x] \notin image(U)
    OBVIOUS
  <2>3. IntValued(g, image(U) \cup {b[x]})
    BY DEF IntValued
  <2>4. SumFunctionOnSet(f, U \cup {x}) = f[x] + SumFunctionOnSet(f, U)
    BY <2>1, SumAdd
  <2>5. SumFunctionOnSet(g, image(U) \cup {b[x]}) = g[b[x]] + SumFunctionOnSet(g, image(U))
    BY <2>1, <2>2, <2>3, SumAdd
  <2>6. SumFunctionOnSet(g, image(U) \cup {b[x]}) = SumFunctionOnSet(g, image(U \cup {x}))
    BY <2>2, Zenon
  <2>7. f[x] = g[b[x]] /\ SumFunctionOnSet(f, U) = SumFunctionOnSet(g, image(U))
    BY <1>2
  <2> HIDE DEF image
  <2> QED
    BY <2>4, <2>5, <2>6, <2>7
<1>3. SUBSET S \subseteq G
  <2> HIDE DEF G
  <2> QED
    BY <1>1, <1>2, SubsetInduction
<1>4. S \in G
  BY <1>3
<1> QED
  BY <1>4

-----------------------------------------------------------------------------
(* Sums over the positions of a sequence.                                  *)
LEMMA Positions ==
  ASSUME NEW m \in Nat, NEW n \in Nat
  PROVE  /\ IsFiniteSet(1 .. n) /\ IsFiniteSet(m + 1 .. m + n)
         /\ 1 .. m + n = (1 .. m) \cup (m + 1 .. m + n)
         /\ (1 .. m) \cap (m + 1 .. m + n) = {}
<1>1. IsFiniteSet(1 .. n) /\ IsFiniteSet(m + 1 .. m + n)
  BY FS_Interval
<1> QED
  BY <1>1

(* The positions of one sequence after those of another.                   *)
LEMMA SumConcat ==
  ASSUME NEW m \in Nat, NEW n \in Nat, NEW f, NEW g, NEW h,
         IntValued(f, 1 .. m), IntValued(g, 1 .. n),
         \A i \in 1 .. m : h[i] = f[i], \A i \in 1 .. n : h[m + i] = g[i]
  PROVE  SumFunctionOnSet(h, 1 .. m + n)
           = SumFunctionOnSet(f, 1 .. m) + SumFunctionOnSet(g, 1 .. n)
<1> DEFINE L == 1 .. m
           R == m + 1 .. m + n
           shift == [i \in 1 .. n |-> m + i]
<1>1. IsFiniteSet(L) /\ IsFiniteSet(R) /\ 1 .. m + n = L \cup R /\ L \cap R = {}
  BY Positions
<1>2. IntValued(h, L) /\ IntValued(h, R)
  <2>1. \A j \in R : j - m \in 1 .. n /\ j = m + (j - m)
    OBVIOUS
  <2>2. \A j \in R : h[j] = g[j - m]
    BY <2>1
  <2> QED
    BY <2>1, <2>2 DEF IntValued
<1>3. R = {shift[i] : i \in 1 .. n}
  <2>1. \A j \in R : j - m \in 1 .. n /\ shift[j - m] = j
    OBVIOUS
  <2>2. \A i \in 1 .. n : shift[i] \in R
    OBVIOUS
  <2> HIDE DEF R, shift
  <2> QED
    BY <2>1, <2>2
<1>4. SumFunctionOnSet(g, 1 .. n) = SumFunctionOnSet(h, {shift[i] : i \in 1 .. n})
  <2> DEFINE N == 1 .. n
  <2>1. /\ \A i \in N : shift[i] = m + i
        /\ IsFiniteSet(N)
    BY Positions
  <2> HIDE DEF shift
  <2>2. \A i, j \in N : shift[i] = shift[j] => i = j
    BY <2>1
  <2>3. \A i \in N : g[i] = h[shift[i]]
    BY <2>1
  <2>4. IntValued(g, N)
    OBVIOUS
  <2> HIDE DEF N
  <2>5. SumFunctionOnSet(g, N) = SumFunctionOnSet(h, {shift[i] : i \in N})
    BY <2>1, <2>2, <2>3, <2>4, SumRenamed
  <2> QED
    BY <2>5 DEF N
<1>5. SumFunctionOnSet(f, L) = SumFunctionOnSet(h, L)
  BY <1>1, SumSame
<1>6. SumFunctionOnSet(h, L \cup R) = SumFunctionOnSet(h, L) + SumFunctionOnSet(h, R)
  <2> HIDE DEF L, R
  <2> QED
    BY <1>1, <1>2, SumUnion
<1>7. SumFunctionOnSet(h, R) = SumFunctionOnSet(g, 1 .. n)
  <2> HIDE DEF R, shift
  <2> QED
    BY <1>3, <1>4, Zenon
<1>8. SumFunctionOnSet(h, 1 .. m + n) = SumFunctionOnSet(h, L \cup R)
  <2> HIDE DEF L, R
  <2> QED
    BY <1>1, Zenon
<1> QED
  BY <1>5, <1>6, <1>7, <1>8

(* The last position and those before it.                                  *)
LEMMA SumLast ==
  ASSUME NEW n \in Nat, NEW f, IntValued(f, 1 .. n + 1)
  PROVE  SumFunctionOnSet(f, 1 .. n + 1) = SumFunctionOnSet(f, 1 .. n) + f[n + 1]
<1>1. IsFiniteSet(1 .. n) /\ n + 1 \notin 1 .. n /\ 1 .. n + 1 = (1 .. n) \cup {n + 1}
  BY FS_Interval
<1>2. IntValued(f, (1 .. n) \cup {n + 1}) /\ f[n + 1] \in Int
  BY DEF IntValued
<1>3. SumFunctionOnSet(f, (1 .. n) \cup {n + 1}) = f[n + 1] + SumFunctionOnSet(f, 1 .. n)
  BY <1>1, <1>2, SumAdd
<1>4. SumFunctionOnSet(f, (1 .. n) \cup {n + 1}) = SumFunctionOnSet(f, 1 .. n + 1)
  BY <1>1, Zenon
<1>5. SumFunctionOnSet(f, 1 .. n) \in Int
  BY <1>1, <1>2, SumAdd
<1> QED
  BY <1>2, <1>3, <1>4, <1>5

LEMMA SumDomain ==
  ASSUME NEW f
  PROVE  SumFunction(f) = SumFunctionOnSet(f, DOMAIN f)
BY DEF SumFunction

(* Sums over disjoint sets of a family add up to the sum over their union. *)
LEMMA SumFamily ==
  ASSUME NEW I, IsFiniteSet(I), NEW S, IsFiniteSet(S), NEW F, \A i \in I : F[i] \in SUBSET S,
         \A i, j \in I : i # j => F[i] \cap F[j] = {}, NEW f, IntValued(f, S)
  PROVE  SumFunctionOnSet([i \in I |-> SumFunctionOnSet(f, F[i])], I)
           = SumFunctionOnSet(f, UNION {F[i] : i \in I})
<1> DEFINE h == [i \in I |-> SumFunctionOnSet(f, F[i])]
           Whole(J) == UNION {F[i] : i \in J}
           G == {J \in SUBSET I : SumFunctionOnSet(h, J) = SumFunctionOnSet(f, Whole(J))}
<1>1. \A T \in SUBSET S : IsFiniteSet(T) /\ IntValued(f, T)
  BY FS_Subset DEF IntValued
<1>2. IntValued(h, I)
  BY <1>1, SumInt DEF IntValued
<1>3. {} \in G
  <2>1. Whole({}) = {}
    OBVIOUS
  <2>2. SumFunctionOnSet(h, {}) = 0 /\ SumFunctionOnSet(f, {}) = 0
    BY SumEmpty
  <2> QED
    BY <2>1, <2>2
<1>4. \A J \in SUBSET I : \A x \in I \ J : J \in G => J \cup {x} \in G
  <2> SUFFICES ASSUME NEW J \in SUBSET I, NEW x \in I \ J, J \in G PROVE J \cup {x} \in G
    OBVIOUS
  <2>1. Whole(J \cup {x}) = F[x] \cup Whole(J) /\ F[x] \cap Whole(J) = {}
    OBVIOUS
  <2>2. Whole(J) \in SUBSET S /\ F[x] \in SUBSET S
    OBVIOUS
  <2>3. SumFunctionOnSet(f, F[x] \cup Whole(J))
          = SumFunctionOnSet(f, F[x]) + SumFunctionOnSet(f, Whole(J))
    <3> HIDE DEF Whole
    <3> QED
      BY <1>1, <2>1, <2>2, SumUnion
  <2>4. SumFunctionOnSet(h, J \cup {x}) = h[x] + SumFunctionOnSet(h, J)
    <3>1. IsFiniteSet(J) /\ IntValued(h, J \cup {x})
      <4> HIDE DEF h
      <4> QED
        BY <1>2, FS_Subset DEF IntValued
    <3> HIDE DEF h
    <3> QED
      BY <3>1, SumAdd
  <2>5. h[x] = SumFunctionOnSet(f, F[x])
    OBVIOUS
  <2>6. SumFunctionOnSet(h, J) = SumFunctionOnSet(f, Whole(J))
    OBVIOUS
  <2> HIDE DEF h, Whole
  <2> QED
    BY <2>1, <2>3, <2>4, <2>5, <2>6
<1>5. I \in G
  <2> HIDE DEF G
  <2> QED
    BY <1>3, <1>4, SubsetInduction
<1> QED
  BY <1>5

(* The sum of a difference is the difference of the sums.                  *)
LEMMA SumMinus ==
  ASSUME NEW S, IsFiniteSet(S), NEW f, NEW g, NEW h, IntValued(f, S), IntValued(g, S),
         \A x \in S : h[x] = f[x] - g[x]
  PROVE  SumFunctionOnSet(h, S) = SumFunctionOnSet(f, S) - SumFunctionOnSet(g, S)
<1>1. IntValued(h, S) /\ \A x \in S : f[x] = h[x] + g[x]
  BY DEF IntValued
<1>2. SumFunctionOnSet(f, S) = SumFunctionOnSet(h, S) + SumFunctionOnSet(g, S)
  BY <1>1, SumPlus
<1> QED
  BY <1>1, <1>2, SumInt

(* A sum by groups is the sum of the whole. *)
LEMMA SumGroups ==
  ASSUME NEW S, IsFiniteSet(S), NEW G, IsFiniteSet(G), NEW key, \A x \in S : key[x] \in G,
         NEW F, \A g \in G : F[g] = {x \in S : key[x] = g},
         NEW f, IntValued(f, S), NEW h, \A g \in G : h[g] = SumFunctionOnSet(f, F[g])
  PROVE  /\ SumFunctionOnSet(h, G) = SumFunctionOnSet(f, S)
         /\ IntValued(h, G)
<1> DEFINE sums == [g \in G |-> SumFunctionOnSet(f, F[g])]
<1>1. /\ \A g \in G : F[g] \in SUBSET S
      /\ \A g, k \in G : g # k => F[g] \cap F[k] = {}
      /\ UNION {F[g] : g \in G} = S
  OBVIOUS
<1>2. \A g \in G : h[g] = sums[g]
  OBVIOUS
<1>3. IntValued(sums, G)
  <2>1. \A T \in SUBSET S : IsFiniteSet(T) /\ IntValued(f, T)
    BY FS_Subset DEF IntValued
  <2>2. \A T \in SUBSET S : SumFunctionOnSet(f, T) \in Int
    BY <2>1, SumInt
  <2>3. \A g \in G : sums[g] = SumFunctionOnSet(f, F[g])
    OBVIOUS
  <2> HIDE DEF sums
  <2> QED
    BY <1>1, <2>2, <2>3 DEF IntValued
<1>4. SumFunctionOnSet(sums, G) = SumFunctionOnSet(f, UNION {F[g] : g \in G})
  BY <1>1, SumFamily
<1> HIDE DEF sums
<1>5. SumFunctionOnSet(h, G) = SumFunctionOnSet(sums, G) /\ IntValued(h, G)
  <2>1. IntValued(h, G)
    BY <1>2, <1>3 DEF IntValued
  <2> QED
    BY <1>2, <2>1, SumSame
<1> QED
  BY <1>1, <1>4, <1>5

(* The items I[d] of the documents d in D, as pairs.                       *)
Itemised(P, D, I) ==
  /\ IsFiniteSet(D) /\ \A d \in D : IsFiniteSet(I[d])
  /\ \A d \in D : \A i \in I[d] : <<d, i>> \in P
  /\ \A x \in P : \E d \in D : \E i \in I[d] : x = <<d, i>>
TotalsOf(h, g, f, D, I) ==
  \A d \in D : h[d] = SumFunctionOnSet(g[d], I[d]) /\ \A i \in I[d] : g[d][i] = f[<<d, i>>]

(* A sum over the items of documents is the sum of the sums over each.     *)
LEMMA SumItems ==
  ASSUME NEW D, NEW I, NEW P, Itemised(P, D, I), NEW f, IntValued(f, P),
         NEW g, NEW h, TotalsOf(h, g, f, D, I)
  PROVE  IsFiniteSet(P) /\ SumFunctionOnSet(f, P) = SumFunctionOnSet(h, D)
<1> USE DEF Itemised, TotalsOf
<1> DEFINE F == [d \in D |-> {<<d, i>> : i \in I[d]}]
           sums == [d \in D |-> SumFunctionOnSet(f, F[d])]
<1>1. \A d \in D : F[d] = {<<d, i>> : i \in I[d]}
  OBVIOUS
<1>2. \A d \in D : sums[d] = SumFunctionOnSet(f, F[d])
  OBVIOUS
<1> HIDE DEF F
<1>4. P = UNION {F[d] : d \in D}
  <2>1. \A x \in P : \E d \in D : x \in F[d]
    BY <1>1
  <2>2. \A d \in D : \A x \in F[d] : x \in P
    BY <1>1
  <2> QED
    BY <2>1, <2>2
<1>5. \A d \in D : F[d] \in SUBSET P
  BY <1>4
<1>6. \A d, e \in D : d # e => F[d] \cap F[e] = {}
  BY <1>1
<1>7. ASSUME NEW d \in D
      PROVE  IsFiniteSet(F[d]) /\ h[d] = sums[d]
  <2> DEFINE b == [i \in I[d] |-> <<d, i>>]
             G == g[d]
             J == I[d]
  <2>1. F[d] = {b[i] : i \in J}
    <3>1. \A i \in J : b[i] = <<d, i>>
      OBVIOUS
    <3>2. F[d] = {<<d, i>> : i \in J}
      BY <1>1
    <3> HIDE DEF b, J
    <3> QED
      BY ONLY <3>1, <3>2
  <2>2. \A i, j \in J : b[i] = b[j] => i = j
    OBVIOUS
  <2>3. \A i \in J : G[i] = f[b[i]] /\ b[i] \in F[d]
    BY <1>1
  <2>4. IntValued(G, J)
    BY <2>3, <1>5 DEF IntValued
  <2>5. h[d] = SumFunctionOnSet(G, J) /\ IsFiniteSet(J)
    OBVIOUS
  <2> HIDE DEF b, G, J, sums
  <2>6. IsFiniteSet({b[i] : i \in J})
    BY ONLY <2>5, ImageFinite
  <2>7. SumFunctionOnSet(G, J) = SumFunctionOnSet(f, {b[i] : i \in J})
    BY ONLY <2>2, <2>3, <2>4, <2>5, SumRenamed
  <2>8. SumFunctionOnSet(f, {b[i] : i \in J}) = SumFunctionOnSet(f, F[d])
    BY <2>1, Zenon
  <2> QED
    BY <1>2, <2>1, <2>5, <2>6, <2>7, <2>8
<1>8. IsFiniteSet(P)
  <2>1. IsFiniteSet({F[d] : d \in D})
    BY ONLY ImageFinite, IsFiniteSet(D)
  <2>2. \A T \in {F[d] : d \in D} : IsFiniteSet(T)
    BY <1>7
  <2> QED
    BY <1>4, <2>1, <2>2, FS_UNION
<1>9. SumFunctionOnSet(sums, D) = SumFunctionOnSet(f, UNION {F[d] : d \in D})
  <2>1. SumFunctionOnSet([d \in D |-> SumFunctionOnSet(f, F[d])], D)
          = SumFunctionOnSet(f, UNION {F[d] : d \in D})
    BY ONLY <1>5, <1>6, <1>8, SumFamily, IsFiniteSet(D), IntValued(f, P)
  <2> QED
    BY <2>1 DEF sums
<1> HIDE DEF sums
<1>10. SumFunctionOnSet(f, UNION {F[d] : d \in D}) = SumFunctionOnSet(f, P)
  BY <1>4, Zenon
<1>11. IntValued(sums, D)
  <2> SUFFICES ASSUME NEW d \in D PROVE sums[d] \in Int
    BY DEF IntValued
  <2>1. IntValued(f, F[d])
    BY <1>5 DEF IntValued
  <2>2. IsFiniteSet(F[d]) /\ sums[d] = SumFunctionOnSet(f, F[d])
    BY <1>2, <1>7
  <2> QED
    BY <2>1, <2>2, SumInt
<1>12. SumFunctionOnSet(sums, D) = SumFunctionOnSet(h, D)
  <2>1. \A d \in D : sums[d] = h[d]
    BY <1>7
  <2> QED
    BY ONLY <2>1, <1>11, SumSame, IsFiniteSet(D)
<1> QED
  BY <1>8, <1>9, <1>10, <1>12

(* As many ones as a set has elements.                                     *)
LEMMA SumOnes ==
  ASSUME NEW S, IsFiniteSet(S), NEW f, \A x \in S : f[x] = 1
  PROVE  SumFunctionOnSet(f, S) = Cardinality(S)
<1> DEFINE G == {U \in SUBSET S : SumFunctionOnSet(f, U) = Cardinality(U)}
<1>1. {} \in G
  BY SumEmpty, FS_EmptySet
<1>2. ASSUME NEW U \in SUBSET S, NEW x \in S \ U, U \in G PROVE U \cup {x} \in G
  <2>1. IsFiniteSet(U) /\ IntValued(f, U \cup {x}) /\ f[x] = 1
    BY FS_Subset DEF IntValued
  <2>2. SumFunctionOnSet(f, U \cup {x}) = 1 + SumFunctionOnSet(f, U)
    BY <2>1, SumAdd
  <2>3. Cardinality(U \cup {x}) = Cardinality(U) + 1 /\ Cardinality(U) \in Nat
    BY <2>1, FS_AddElement, FS_CardinalityType
  <2>4. SumFunctionOnSet(f, U) = Cardinality(U)
    BY <1>2
  <2> QED
    BY <2>2, <2>3, <2>4
<1>3. SUBSET S \subseteq G
  <2> HIDE DEF G
  <2> QED
    BY <1>1, <1>2, SubsetInduction
<1> QED
  BY <1>3

(* Values that are near each other, each within its own error, have sums   *)
(* that are near each other, within the sum of the errors.                 *)
Near(x, y, e) == x - y <= e /\ y - x <= e

LEMMA SumNear ==
  ASSUME NEW S, IsFiniteSet(S), NEW f, NEW g, NEW e,
         IntValued(f, S), IntValued(g, S), IntValued(e, S),
         \A x \in S : Near(f[x], g[x], e[x])
  PROVE  Near(SumFunctionOnSet(f, S), SumFunctionOnSet(g, S), SumFunctionOnSet(e, S))
<1> DEFINE over == [x \in S |-> g[x] + e[x]]
           under == [x \in S |-> f[x] + e[x]]
<1>1. /\ IntValued(over, S) /\ IntValued(under, S)
      /\ \A x \in S : over[x] = g[x] + e[x] /\ under[x] = f[x] + e[x]
  BY DEF IntValued
<1>2. \A x \in S : f[x] <= over[x] /\ g[x] <= under[x]
  BY DEF Near, IntValued
<1> HIDE DEF over, under
<1>3. /\ SumFunctionOnSet(over, S) = SumFunctionOnSet(g, S) + SumFunctionOnSet(e, S)
      /\ SumFunctionOnSet(under, S) = SumFunctionOnSet(f, S) + SumFunctionOnSet(e, S)
  BY <1>1, SumPlus
<1>4. /\ SumFunctionOnSet(f, S) <= SumFunctionOnSet(over, S)
      /\ SumFunctionOnSet(g, S) <= SumFunctionOnSet(under, S)
  BY <1>1, <1>2, SumOrder
<1>5. /\ SumFunctionOnSet(f, S) \in Int /\ SumFunctionOnSet(g, S) \in Int
      /\ SumFunctionOnSet(e, S) \in Int
  BY SumInt
<1> QED
  BY <1>3, <1>4, <1>5 DEF Near

LEMMA SumNearBy ==
  ASSUME NEW S, IsFiniteSet(S), NEW f, NEW g, NEW c \in Nat, IntValued(f, S), IntValued(g, S),
         \A x \in S : Near(f[x], g[x], c)
  PROVE  Near(SumFunctionOnSet(f, S), SumFunctionOnSet(g, S), c * Cardinality(S))
<1> DEFINE one == [x \in S |-> 1]
           e == [x \in S |-> c]
<1>1. IntValued(one, S) /\ IntValued(e, S)
  BY DEF IntValued
<1>2. (\A x \in S : e[x] = one[x] * c /\ one[x] = 1 /\ e[x] = c) /\ c \in Int
  OBVIOUS
<1> HIDE DEF one, e
<1>3. SumFunctionOnSet(e, S) = SumFunctionOnSet(one, S) * c
  BY <1>1, <1>2, SumTimes
<1>4. SumFunctionOnSet(one, S) = Cardinality(S) /\ Cardinality(S) \in Nat
  BY <1>2, SumOnes, FS_CardinalityType
<1>5. Near(SumFunctionOnSet(f, S), SumFunctionOnSet(g, S), SumFunctionOnSet(e, S))
  BY <1>1, <1>2, SumNear
<1>6. Cardinality(S) * c = c * Cardinality(S)
  BY <1>4
<1> QED
  BY <1>3, <1>4, <1>5, <1>6
=============================================================================
