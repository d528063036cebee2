--------------------------- MODULE CommerceSumsProofs ---------------------------
(***************************************************************************)
(* The invariants of CommerceLifecycle that speak of sums, for every value *)
(* of its constants: the stock and the movement ledger, the transactions   *)
(* of a payment attempt, the quantities that an order's shipments carry.   *)
(*                                                                         *)
(* A sum is a fold over a set.  What it adds up to is shown without an     *)
(* induction principle: of the subsets for which a lemma failed, a         *)
(* smallest one could not exist (SmallestSubset).                          *)
(***************************************************************************)
EXTENDS CommerceLifecycleProofs, FiniteSetTheorems, WellFoundedInduction

-----------------------------------------------------------------------------
(* Sums over finite sets. *)

(* A non-empty collection of subsets of a finite set has a smallest one. *)
LEMMA SmallestSubset ==
  ASSUME NEW S, IsFiniteSet(S), NEW W \in SUBSET SUBSET S, W # {}
  PROVE  \E V \in W : \A U \in W : U \subseteq V => U = V
<1>1. W \subseteq FiniteSubsetsOf(S)
  BY FS_FiniteSubsetsOfFinite
<1>2. PICK V \in W : \A U \in W : <<U, V>> \notin StrictSubsetOrdering(S)
  BY <1>1, FS_StrictSubsetOrderingWellFounded, WFMin
<1> QED
  BY <1>2 DEF StrictSubsetOrdering

(* The fold behind SumFunctionOnSet: Iter(f, S) is the recursive function   *)
(* that adds up f over every subset of S, one picked element at a time.    *)
Pick(s) == CHOOSE x \in s : TRUE

Defines(f, S, g) ==
  g = [s \in SUBSET S |-> IF s = {} THEN 0 ELSE f[Pick(s)] + g[s \ {Pick(s)}]]

Iter(f, S) == CHOOSE g : Defines(f, S, g)

LEMMA SumIsIter ==
  ASSUME NEW f, NEW S
  PROVE  SumFunctionOnSet(f, S) = Iter(f, S)[S]
BY DEF SumFunctionOnSet, FoldFunctionOnSet, MapThenFoldSet, Iter, Defines, Pick

LEMMA PickIn ==
  ASSUME NEW s, s # {}
  PROVE  Pick(s) \in s
BY DEF Pick

LEMMA BodyAt ==
  ASSUME NEW f, NEW S, NEW g, Defines(f, S, g), NEW U \in SUBSET S
  PROVE  g[U] = IF U = {} THEN 0 ELSE f[Pick(U)] + g[U \ {Pick(U)}]
<1>1. g = [s \in SUBSET S |-> IF s = {} THEN 0 ELSE f[Pick(s)] + g[s \ {Pick(s)}]]
  BY Zenon DEF Defines
<1> QED
  BY Zenon, <1>1

(* Two such functions agree where both are defined: a smallest set on      *)
(* which they differ cannot exist.                                         *)
LEMMA IterAgree ==
  ASSUME NEW f, NEW S, NEW T, NEW g, NEW h, Defines(f, S, g), Defines(f, T, h),
         NEW U \in SUBSET S, U \in SUBSET T, IsFiniteSet(U)
  PROVE  g[U] = h[U]
<1> DEFINE W == {V \in SUBSET U : g[V] # h[V]}
<1>1. SUFFICES ASSUME W # {} PROVE FALSE
  OBVIOUS
<1>2. PICK V \in W : \A X \in W : X \subseteq V => X = V
  <2>1. W \in SUBSET SUBSET U
    OBVIOUS
  <2> HIDE DEF W
  <2> QED
    BY <1>1, <2>1, SmallestSubset
<1>3. V \in SUBSET S /\ V \in SUBSET T
  OBVIOUS
<1>4. g[V] = IF V = {} THEN 0 ELSE f[Pick(V)] + g[V \ {Pick(V)}]
  BY <1>3, BodyAt
<1>5. h[V] = IF V = {} THEN 0 ELSE f[Pick(V)] + h[V \ {Pick(V)}]
  BY <1>3, BodyAt
<1>6. CASE V = {}
  BY <1>2, <1>4, <1>5, <1>6
<1>7. CASE V # {}
  <2>1. Pick(V) \in V
    BY <1>7, PickIn
  <2>2. V \ {Pick(V)} \in SUBSET U /\ V \ {Pick(V)} \subseteq V /\ V \ {Pick(V)} # V
    BY <2>1
  <2>3. V \ {Pick(V)} \notin W
    BY <1>2, <2>2
  <2>4. g[V \ {Pick(V)}] = h[V \ {Pick(V)}]
    BY <2>2, <2>3
  <2> QED
    BY <1>2, <1>4, <1>5, <1>7, <2>4
<1> QED
  BY <1>6, <1>7

(* Over a finite set there is one: for a smallest set without, it could be *)
(* put together from those of the smaller sets.                            *)
LEMMA IterExists ==
  ASSUME NEW f, NEW S, IsFiniteSet(S)
  PROVE  Defines(f, S, Iter(f, S))
<1>1. SUFFICES \E g : Defines(f, S, g)
  BY Zenon DEF Iter
<1> DEFINE W == {V \in SUBSET S : ~\E g : Defines(f, V, g)}
<1>2. SUFFICES ASSUME W # {} PROVE FALSE
  OBVIOUS
<1>3. PICK V \in W : \A X \in W : X \subseteq V => X = V
  <2>1. W \in SUBSET SUBSET S
    OBVIOUS
  <2> HIDE DEF W
  <2> QED
    BY <1>2, <2>1, SmallestSubset
<1>4. ASSUME NEW X \in SUBSET V, X # V
      PROVE  Defines(f, X, Iter(f, X))
  <2>1. \E g : Defines(f, X, g)
    BY <1>3, <1>4
  <2> QED
    BY Zenon, <2>1 DEF Iter
<1> DEFINE G(X) == Iter(f, X)[X]
           h == [s \in SUBSET V |-> IF s = {} THEN 0 ELSE f[Pick(s)] + G(s \ {Pick(s)})]
<1>5. ASSUME NEW X \in SUBSET V, X # V
      PROVE  G(X) = h[X]
  <2>1. Defines(f, X, Iter(f, X))
    BY <1>4, <1>5
  <2>2. G(X) = IF X = {} THEN 0 ELSE f[Pick(X)] + Iter(f, X)[X \ {Pick(X)}]
    BY <2>1, BodyAt
  <2>3. h[X] = IF X = {} THEN 0 ELSE f[Pick(X)] + G(X \ {Pick(X)})
    OBVIOUS
  <2>4. CASE X = {}
    BY <2>2, <2>3, <2>4
  <2>5. CASE X # {}
    <3> DEFINE Y == X \ {Pick(X)}
    <3>1. Pick(X) \in X
      BY <2>5, PickIn
    <3>2. Y \in SUBSET V /\ Y # V /\ Y \in SUBSET X
      BY <3>1
    <3>3. Defines(f, Y, Iter(f, Y))
      BY <1>4, <3>2
    <3>4. IsFiniteSet(Y)
      BY <3>2, FS_Subset
    <3>5. Iter(f, X)[Y] = Iter(f, Y)[Y]
      BY <2>1, <3>2, <3>3, <3>4, IterAgree
    <3> QED
      BY <2>2, <2>3, <2>5, <3>5
  <2> QED
    BY <2>4, <2>5
<1>6. Defines(f, V, h)
  <2>1. ASSUME NEW s \in SUBSET V, s # {}
        PROVE  G(s \ {Pick(s)}) = h[s \ {Pick(s)}]
    <3>1. Pick(s) \in s
      BY <2>1, PickIn
    <3>2. s \ {Pick(s)} \in SUBSET V /\ s \ {Pick(s)} # V
      BY <3>1
    <3> HIDE DEF G, h
    <3> QED
      BY <1>5, <3>2
  <2>2. \A s \in SUBSET V :
          (IF s = {} THEN 0 ELSE f[Pick(s)] + G(s \ {Pick(s)}))
            = (IF s = {} THEN 0 ELSE f[Pick(s)] + h[s \ {Pick(s)}])
    <3> HIDE DEF G, h
    <3> QED
      BY <2>1
  <2>3. h = [s \in SUBSET V |-> IF s = {} THEN 0 ELSE f[Pick(s)] + G(s \ {Pick(s)})]
    OBVIOUS
  <2>4. h = [s \in SUBSET V |-> IF s = {} THEN 0 ELSE f[Pick(s)] + h[s \ {Pick(s)}]]
    <3> HIDE DEF G, h
    <3> QED
      BY <2>2, <2>3
  <2> QED
    BY Zenon, <2>4 DEF Defines
<1> QED
  BY <1>3, <1>6

(* The sum over a finite set, by the element the fold picks first. *)
LEMMA SumUnfolds ==
  ASSUME NEW f, NEW S, IsFiniteSet(S)
  PROVE  SumFunctionOnSet(f, S) =
           IF S = {} THEN 0 ELSE f[Pick(S)] + SumFunctionOnSet(f, S \ {Pick(S)})
<1>1. Defines(f, S, Iter(f, S))
  BY IterExists
<1>2. Iter(f, S)[S] =
        IF S = {} THEN 0 ELSE f[Pick(S)] + Iter(f, S)[S \ {Pick(S)}]
  BY <1>1, BodyAt
<1> DEFINE R == S \ {Pick(S)}
<1>3. IsFiniteSet(R) /\ R \in SUBSET S
  BY FS_Subset
<1>4. Iter(f, S)[R] = Iter(f, R)[R]
  BY <1>1, <1>3, IterExists, IterAgree
<1> QED
  BY <1>2, <1>4, SumIsIter

(* Elements whose values are integers have an integer for their sum. *)
LEMMA SumIsInt ==
  ASSUME NEW f, NEW S, IsFiniteSet(S), \A x \in S : f[x] \in Int
  PROVE  SumFunctionOnSet(f, S) \in Int
<1> DEFINE W == {V \in SUBSET S : SumFunctionOnSet(f, V) \notin Int}
<1>1. SUFFICES ASSUME W # {} PROVE FALSE
  OBVIOUS
<1>2. PICK V \in W : \A X \in W : X \subseteq V => X = V
  <2>1. W \in SUBSET SUBSET S
    OBVIOUS
  <2> HIDE DEF W
  <2> QED
    BY <1>1, <2>1, SmallestSubset
<1>3. SumFunctionOnSet(f, V) =
        IF V = {} THEN 0 ELSE f[Pick(V)] + SumFunctionOnSet(f, V \ {Pick(V)})
  BY FS_Subset, SumUnfolds
<1>4. CASE V # {}
  <2>1. Pick(V) \in V
    BY <1>4, PickIn
  <2>2. V \ {Pick(V)} \in SUBSET S /\ V \ {Pick(V)} # V
    BY <2>1
  <2>3. SumFunctionOnSet(f, V \ {Pick(V)}) \in Int
    BY <1>2, <2>2
  <2> QED
    BY <1>2, <1>3, <1>4, <2>1, <2>3
<1> QED
  BY <1>2, <1>3, <1>4

(* Any element may be taken out first. *)
LEMMA SumTakesOut ==
  ASSUME NEW f, NEW S, IsFiniteSet(S), \A x \in S : f[x] \in Int, NEW e \in S
  PROVE  SumFunctionOnSet(f, S) = f[e] + SumFunctionOnSet(f, S \ {e})
<1> DEFINE Sum(T) == SumFunctionOnSet(f, T)
<1>1. \A T \in SUBSET S :
        /\ IsFiniteSet(T)
        /\ Sum(T) \in Int
        /\ Sum(T) = IF T = {} THEN 0 ELSE f[Pick(T)] + Sum(T \ {Pick(T)})
  BY FS_Subset, SumIsInt, SumUnfolds
<1> HIDE DEF Sum
<1> DEFINE W == {V \in SUBSET S : \E x \in V : Sum(V) # f[x] + Sum(V \ {x})}
<1>2. SUFFICES ASSUME W # {} PROVE FALSE
  BY DEF Sum
<1>3. PICK V \in W : \A X \in W : X \subseteq V => X = V
  <2>1. W \in SUBSET SUBSET S
    OBVIOUS
  <2> HIDE DEF W
  <2> QED
    BY <1>2, <2>1, SmallestSubset
<1>4. PICK x \in V : Sum(V) # f[x] + Sum(V \ {x})
  OBVIOUS
<1> DEFINE c == Pick(V)
<1>5. c \in V /\ Sum(V) = f[c] + Sum(V \ {c}) /\ V \in SUBSET S
  BY <1>1, <1>4, PickIn
<1>6. c # x
  BY <1>4, <1>5
<1>7. \A X \in SUBSET V : X # V => \A y \in X : Sum(X) = f[y] + Sum(X \ {y})
  BY <1>3
<1> DEFINE rest == V \ {c, x}
<1> HIDE DEF c, W
<1>8. Sum(V \ {c}) = f[x] + Sum(rest)
  <2>1. V \ {c} \in SUBSET V /\ V \ {c} # V /\ x \in V \ {c}
    BY <1>5, <1>6
  <2>2. (V \ {c}) \ {x} = rest
    OBVIOUS
  <2> QED
    BY <1>7, <2>1, <2>2
<1>9. Sum(V \ {x}) = f[c] + Sum(rest)
  <2>1. V \ {x} \in SUBSET V /\ V \ {x} # V /\ c \in V \ {x}
    BY <1>5, <1>6
  <2>2. (V \ {x}) \ {c} = rest
    OBVIOUS
  <2> QED
    BY <1>7, <2>1, <2>2
<1>10. f[c] \in Int /\ f[x] \in Int /\ Sum(rest) \in Int
  <2>1. c \in S /\ x \in S /\ rest \in SUBSET S
    BY <1>5
  <2> QED
    BY <1>1, <2>1
<1> HIDE DEF rest
<1> QED
  BY <1>4, <1>5, <1>8, <1>9, <1>10

(* Only the values on the set matter. *)
LEMMA SumOfEqualValues ==
  ASSUME NEW f, NEW g, NEW S, IsFiniteSet(S), \A x \in S : f[x] = g[x]
  PROVE  SumFunctionOnSet(f, S) = SumFunctionOnSet(g, S)
<1> DEFINE W == {V \in SUBSET S : SumFunctionOnSet(f, V) # SumFunctionOnSet(g, V)}
<1>1. SUFFICES ASSUME W # {} PROVE FALSE
  OBVIOUS
<1>2. PICK V \in W : \A X \in W : X \subseteq V => X = V
  <2>1. W \in SUBSET SUBSET S
    OBVIOUS
  <2> HIDE DEF W
  <2> QED
    BY <1>1, <2>1, SmallestSubset
<1>3. /\ SumFunctionOnSet(f, V) =
           IF V = {} THEN 0 ELSE f[Pick(V)] + SumFunctionOnSet(f, V \ {Pick(V)})
      /\ SumFunctionOnSet(g, V) =
           IF V = {} THEN 0 ELSE g[Pick(V)] + SumFunctionOnSet(g, V \ {Pick(V)})
  BY FS_Subset, SumUnfolds
<1>4. CASE V # {}
  <2>1. Pick(V) \in V
    BY <1>4, PickIn
  <2>2. V \ {Pick(V)} \in SUBSET S /\ V \ {Pick(V)} # V
    BY <2>1
  <2>3. SumFunctionOnSet(f, V \ {Pick(V)}) = SumFunctionOnSet(g, V \ {Pick(V)})
    BY <1>2, <2>2
  <2> QED
    BY <1>2, <1>3, <1>4, <2>1, <2>3
<1> QED
  BY <1>2, <1>3, <1>4

LEMMA SumOfNothing ==
  ASSUME NEW f
  PROVE  SumFunctionOnSet(f, {}) = 0
BY FS_EmptySet, SumUnfolds

(* A new element adds its value. *)
LEMMA SumAdds ==
  ASSUME NEW f, NEW S, IsFiniteSet(S), NEW e, e \notin S,
         \A x \in S \cup {e} : f[x] \in Int
  PROVE  /\ SumFunctionOnSet(f, S \cup {e}) = SumFunctionOnSet(f, S) + f[e]
         /\ SumFunctionOnSet(f, S) \in Int
<1>1. IsFiniteSet(S \cup {e}) /\ (S \cup {e}) \ {e} = S
  BY FS_AddElement
<1>2. SumFunctionOnSet(f, S \cup {e}) = f[e] + SumFunctionOnSet(f, S)
  <2>1. e \in S \cup {e}
    OBVIOUS
  <2> QED
    BY <1>1, <2>1, SumTakesOut
<1>3. SumFunctionOnSet(f, S) \in Int /\ f[e] \in Int
  BY SumIsInt
<1> QED
  BY <1>2, <1>3

(* Sums of naturals: never negative, and no more than over a larger set of *)
(* larger values.                                                          *)
LEMMA SumIsNat ==
  ASSUME NEW f, NEW S, IsFiniteSet(S), \A x \in S : f[x] \in Nat
  PROVE  SumFunctionOnSet(f, S) \in Nat
<1> DEFINE W == {V \in SUBSET S : SumFunctionOnSet(f, V) \notin Nat}
<1>1. SUFFICES ASSUME W # {} PROVE FALSE
  OBVIOUS
<1>2. PICK V \in W : \A X \in W : X \subseteq V => X = V
  <2>1. W \in SUBSET SUBSET S
    OBVIOUS
  <2> HIDE DEF W
  <2> QED
    BY <1>1, <2>1, SmallestSubset
<1>3. SumFunctionOnSet(f, V) =
        IF V = {} THEN 0 ELSE f[Pick(V)] + SumFunctionOnSet(f, V \ {Pick(V)})
  BY FS_Subset, SumUnfolds
<1>4. CASE V # {}
  <2>1. Pick(V) \in V
    BY <1>4, PickIn
  <2>2. V \ {Pick(V)} \in SUBSET S /\ V \ {Pick(V)} # V
    BY <2>1
  <2>3. SumFunctionOnSet(f, V \ {Pick(V)}) \in Nat
    BY <1>2, <2>2
  <2> QED
    BY <1>2, <1>3, <1>4, <2>1, <2>3
<1> QED
  BY <1>2, <1>3, <1>4

(* A larger set of naturals has a larger sum. *)
LEMMA SumGrows ==
  ASSUME NEW f, NEW S, IsFiniteSet(S), \A x \in S : f[x] \in Nat, NEW T \in SUBSET S
  PROVE  SumFunctionOnSet(f, T) <= SumFunctionOnSet(f, S)
<1> DEFINE Sum(V) == SumFunctionOnSet(f, V)
<1>1. \A V \in SUBSET S : Sum(V) \in Nat /\ \A x \in V : Sum(V) = f[x] + Sum(V \ {x})
  <2>1. ASSUME NEW V \in SUBSET S
        PROVE  IsFiniteSet(V) /\ \A x \in V : f[x] \in Nat /\ f[x] \in Int
    BY FS_Subset
  <2> QED
    BY <2>1, SumIsNat, SumTakesOut
<1> HIDE DEF Sum
<1> DEFINE W == {V \in SUBSET S : T \subseteq V /\ ~(Sum(T) <= Sum(V))}
<1>2. SUFFICES ASSUME W # {} PROVE FALSE
  BY DEF Sum
<1>3. PICK V \in W : \A X \in W : X \subseteq V => X = V
  <2>1. W \in SUBSET SUBSET S
    OBVIOUS
  <2> HIDE DEF W
  <2> QED
    BY <1>2, <2>1, SmallestSubset
<1>4. PICK x \in V : x \notin T
  BY <1>1
<1>5. Sum(V) = f[x] + Sum(V \ {x}) /\ V \ {x} \in SUBSET S
  BY <1>1
<1>6. Sum(T) <= Sum(V \ {x})
  BY <1>3, <1>4, <1>5
<1>7. f[x] \in Nat /\ Sum(T) \in Nat /\ Sum(V \ {x}) \in Nat /\ ~(Sum(T) <= Sum(V))
  BY <1>1, <1>5
<1> QED
  BY <1>5, <1>6, <1>7

-----------------------------------------------------------------------------
(* Stock and ledger. *)

MovementsOf(i)   == {m \in ledger : m.item = i}
AdjustmentsOf(i) == {m \in MovementsOf(i) : m.kind = "ADJUSTMENT"}
HoldersOf(i)     == {o \in Orders : reservation[o][i] \in {"RESERVED", "CONSUMED"}}

(* What the invariant says of one item, and what makes its sums finite. *)
Conserved(i) ==
  /\ IsFiniteSet(MovementsOf(i))
  /\ IsFiniteSet(HoldersOf(i))
  /\ stock[i] + HeldQuantity(i) = InitialStock[i] + SumFunctionOnSet(DeltaOf, AdjustmentsOf(i))
  /\ stock[i] = InitialStock[i] + SumFunctionOnSet(DeltaOf, MovementsOf(i))

UniqueKeys == \A m, n \in ledger : m.item = n.item /\ m.key = n.key => m = n

OnlyLinesReserved ==
  \A o \in Orders : \A i \in Items \ LinesOf(o) : reservation[o][i] = "NONE"

(* The inductive invariant behind StockConservation. *)
StockInv ==
  /\ \A i \in Items : Conserved(i)
  /\ UniqueKeys
  /\ OnlyLinesReserved

LEMMA StockInvConserves == StockInv => StockConservation
BY DEF StockInv, Conserved, UniqueKeys, StockConservation, AdjustmentsOf, MovementsOf

(* A new row changes the sum of its item's rows by its delta. *)
LEMMA RowAdds ==
  ASSUME InventoryTypeOK, InventoryTypeOK', ledger \subseteq ledger',
         NEW S \in SUBSET ledger, IsFiniteSet(S)
  PROVE  /\ SumFunctionOnSet(DeltaOf, S) \in Int
         /\ SumFunctionOnSet(DeltaOf', S) = SumFunctionOnSet(DeltaOf, S)
         /\ \A m \in ledger' \ S :
              SumFunctionOnSet(DeltaOf', S \cup {m}) = SumFunctionOnSet(DeltaOf, S) + m.delta
<1>1. /\ \A m \in ledger : DeltaOf[m] = m.delta /\ m.delta \in Int
      /\ \A m \in ledger' : DeltaOf'[m] = m.delta /\ m.delta \in Int
  BY DEF DeltaOf, InventoryTypeOK, Movement
<1>2. SumFunctionOnSet(DeltaOf, S) \in Int
  BY <1>1, SumIsInt
<1>3. SumFunctionOnSet(DeltaOf', S) = SumFunctionOnSet(DeltaOf, S)
  BY <1>1, SumOfEqualValues
<1>4. ASSUME NEW m \in ledger' \ S
      PROVE  SumFunctionOnSet(DeltaOf', S \cup {m}) = SumFunctionOnSet(DeltaOf, S) + m.delta
  BY <1>1, <1>3, SumAdds
<1> QED
  BY <1>2, <1>3, <1>4

(* An item no row is written for, whose stock and holders stay. *)
LEMMA StillConserved ==
  ASSUME InventoryTypeOK, InventoryTypeOK', NEW i \in Items, Conserved(i),
         ledger \subseteq ledger', MovementsOf(i)' = MovementsOf(i),
         HoldersOf(i)' = HoldersOf(i), stock'[i] = stock[i]
  PROVE  Conserved(i)'
<1>1. AdjustmentsOf(i)' = AdjustmentsOf(i)
  BY DEF AdjustmentsOf
<1>2. /\ IsFiniteSet(MovementsOf(i)) /\ MovementsOf(i) \in SUBSET ledger
      /\ AdjustmentsOf(i) \in SUBSET MovementsOf(i)
  BY DEF Conserved, MovementsOf, AdjustmentsOf
<1>3. IsFiniteSet(AdjustmentsOf(i)) /\ AdjustmentsOf(i) \in SUBSET ledger
  BY <1>2, FS_Subset
<1>4. /\ SumFunctionOnSet(DeltaOf', MovementsOf(i)) = SumFunctionOnSet(DeltaOf, MovementsOf(i))
      /\ SumFunctionOnSet(DeltaOf', AdjustmentsOf(i))
           = SumFunctionOnSet(DeltaOf, AdjustmentsOf(i))
  BY <1>2, <1>3, RowAdds
<1>5. HeldQuantity(i)' = HeldQuantity(i)
  BY DEF HeldQuantity, HoldersOf
<1> QED
  BY <1>1, <1>4, <1>5 DEF Conserved


(* The goods held of an item, when an order joins or leaves the holders. *)
LEMMA HoldersChange ==
  ASSUME NEW i \in Items, IsFiniteSet(HoldersOf(i))
  PROVE  /\ HeldQuantity(i) \in Int
         /\ HoldersOf(i)' = HoldersOf(i) => HeldQuantity(i)' = HeldQuantity(i)
         /\ \A o \in Orders \ HoldersOf(i) :
              HoldersOf(i)' = HoldersOf(i) \cup {o} =>
                /\ IsFiniteSet(HoldersOf(i)')
                /\ HeldQuantity(i)' = HeldQuantity(i) + Demand[o][i]
         /\ \A o \in HoldersOf(i) :
              HoldersOf(i)' = HoldersOf(i) \ {o} =>
                /\ IsFiniteSet(HoldersOf(i)')
                /\ HeldQuantity(i) = HeldQuantity(i)' + Demand[o][i]
                /\ HeldQuantity(i)' \in Int
<1> DEFINE d == [o \in Orders |-> Demand[o][i]]
           H == HoldersOf(i)
<1>1. \A o \in Orders : d[o] = Demand[o][i] /\ d[o] \in Int
  BY InventoryAssumption
<1>2. /\ HeldQuantity(i) = SumFunctionOnSet(d, H)
      /\ HeldQuantity(i)' = SumFunctionOnSet(d, HoldersOf(i)')
      /\ H \in SUBSET Orders
  BY DEF HeldQuantity, HoldersOf
<1> HIDE DEF d, H
<1>3. IsFiniteSet(H)
  BY DEF H
<1>4. SumFunctionOnSet(d, H) \in Int
  BY <1>1, <1>2, <1>3, SumIsInt
<1>5. ASSUME NEW o \in Orders \ H
      PROVE  /\ IsFiniteSet(H \cup {o})
             /\ SumFunctionOnSet(d, H \cup {o}) = SumFunctionOnSet(d, H) + Demand[o][i]
  <2>1. o \in Orders /\ o \notin H /\ \A x \in H \cup {o} : d[x] \in Int
    BY <1>1, <1>2
  <2> QED
    BY <1>1, <1>3, <2>1, SumAdds, FS_AddElement
<1>6. ASSUME NEW o \in H
      PROVE  /\ IsFiniteSet(H \ {o})
             /\ SumFunctionOnSet(d, H) = SumFunctionOnSet(d, H \ {o}) + Demand[o][i]
             /\ SumFunctionOnSet(d, H \ {o}) \in Int
  <2>1. \A x \in H : d[x] \in Int
    BY <1>1, <1>2
  <2>2. SumFunctionOnSet(d, H) = d[o] + SumFunctionOnSet(d, H \ {o})
    BY <1>3, <2>1, SumTakesOut
  <2>3. IsFiniteSet(H \ {o}) /\ SumFunctionOnSet(d, H \ {o}) \in Int
    BY <1>3, <2>1, SumIsInt, FS_RemoveElement
  <2>4. d[o] = Demand[o][i] /\ d[o] \in Int
    BY <1>1, <1>2
  <2> QED
    BY <2>2, <2>3, <2>4
<1> QED
  BY <1>2, <1>4, <1>5, <1>6 DEF H

(* An item one row is written for: an adjustment, or a movement to or from *)
(* the goods held for an order.                                            *)
LEMMA MovedConserved ==
  ASSUME InventoryTypeOK, InventoryTypeOK', NEW i \in Items, Conserved(i),
         ledger \subseteq ledger', NEW m \in ledger' \ ledger,
         MovementsOf(i)' = MovementsOf(i) \cup {m}, stock'[i] = stock[i] + m.delta,
         \/ m.kind = "ADJUSTMENT" /\ HoldersOf(i)' = HoldersOf(i)
         \/ /\ m.kind # "ADJUSTMENT"
            /\ \E o \in Orders \ HoldersOf(i) :
                 HoldersOf(i)' = HoldersOf(i) \cup {o} /\ m.delta = -Demand[o][i]
         \/ /\ m.kind # "ADJUSTMENT"
            /\ \E o \in HoldersOf(i) :
                 HoldersOf(i)' = HoldersOf(i) \ {o} /\ m.delta = Demand[o][i]
  PROVE  Conserved(i)'
<1> DEFINE M == MovementsOf(i)
           A == AdjustmentsOf(i)
<1>1. M \in SUBSET ledger /\ A \in SUBSET ledger /\ IsFiniteSet(M) /\ IsFiniteSet(A)
  BY FS_Subset DEF Conserved, MovementsOf, AdjustmentsOf
<1>2. /\ SumFunctionOnSet(DeltaOf, M) \in Int
      /\ SumFunctionOnSet(DeltaOf', M \cup {m}) = SumFunctionOnSet(DeltaOf, M) + m.delta
  <2>1. m \in ledger' \ M
    BY <1>1
  <2> QED
    BY <1>1, <2>1, RowAdds
<1>3. /\ SumFunctionOnSet(DeltaOf, A) \in Int
      /\ SumFunctionOnSet(DeltaOf', A) = SumFunctionOnSet(DeltaOf, A)
      /\ SumFunctionOnSet(DeltaOf', A \cup {m}) = SumFunctionOnSet(DeltaOf, A) + m.delta
  <2>1. m \in ledger' \ A
    BY <1>1
  <2> QED
    BY <1>1, <2>1, RowAdds
<1>4. A' = IF m.kind = "ADJUSTMENT" THEN A \cup {m} ELSE A
  BY DEF AdjustmentsOf
<1>5. IsFiniteSet(M')
  BY <1>1, FS_AddElement
<1>6. /\ stock[i] \in Int /\ InitialStock[i] \in Int /\ m.delta \in Int
      /\ stock[i] + HeldQuantity(i) = InitialStock[i] + SumFunctionOnSet(DeltaOf, A)
      /\ stock[i] = InitialStock[i] + SumFunctionOnSet(DeltaOf, M)
      /\ IsFiniteSet(HoldersOf(i))
  BY InventoryAssumption DEF InventoryTypeOK, Movement, Conserved
<1>7. stock'[i] = InitialStock[i] + SumFunctionOnSet(DeltaOf', M')
  <2>1. M' = M \cup {m}
    OBVIOUS
  <2> HIDE DEF M, A
  <2> QED
    BY <1>2, <1>6, <2>1
<1> DEFINE Balanced ==
      /\ IsFiniteSet(HoldersOf(i)')
      /\ stock'[i] + HeldQuantity(i)' = InitialStock[i] + SumFunctionOnSet(DeltaOf', A')
<1>8. Balanced
  <2> HIDE DEF M, A
  <2>1. HeldQuantity(i) \in Int
    BY <1>6, HoldersChange
  <2>2. CASE m.kind = "ADJUSTMENT" /\ HoldersOf(i)' = HoldersOf(i)
    <3>1. HeldQuantity(i)' = HeldQuantity(i) /\ A' = A \cup {m}
      BY <1>4, <1>6, <2>2, HoldersChange
    <3> QED
      BY <1>3, <1>6, <2>1, <2>2, <3>1
  <2>3. ASSUME m.kind # "ADJUSTMENT", NEW o \in Orders \ HoldersOf(i),
               HoldersOf(i)' = HoldersOf(i) \cup {o}, m.delta = -Demand[o][i]
        PROVE  Balanced
    <3>1. IsFiniteSet(HoldersOf(i)') /\ HeldQuantity(i)' = HeldQuantity(i) + Demand[o][i]
      BY <1>6, <2>3, HoldersChange
    <3>2. Demand[o][i] \in Int /\ A' = A
      BY <1>4, <2>3, InventoryAssumption
    <3> QED
      BY <1>3, <1>6, <2>1, <2>3, <3>1, <3>2
  <2>4. ASSUME m.kind # "ADJUSTMENT", NEW o \in HoldersOf(i),
               HoldersOf(i)' = HoldersOf(i) \ {o}, m.delta = Demand[o][i]
        PROVE  Balanced
    <3>1. /\ IsFiniteSet(HoldersOf(i)')
          /\ HeldQuantity(i) = HeldQuantity(i)' + Demand[o][i]
          /\ HeldQuantity(i)' \in Int
      BY <1>6, <2>4, HoldersChange
    <3>2. A' = A
      BY <1>4, <2>4
    <3> QED
      BY <1>3, <1>6, <2>1, <2>4, <3>1, <3>2
  <2> QED
    BY <2>2, <2>3, <2>4
<1> QED
  BY <1>5, <1>7, <1>8 DEF Conserved


(* One new row for each item of L, under a key its item has not seen. *)
LEMMA RowsAdded ==
  ASSUME UniqueKeys, NEW L \in SUBSET Items, NEW row,
         \A i \in L : row[i].item = i /\ ~Recorded(i, row[i].key),
         ledger' = ledger \cup {row[i] : i \in L}
  PROVE  /\ UniqueKeys'
         /\ \A i \in L : /\ row[i] \in ledger' \ ledger
                         /\ MovementsOf(i)' = MovementsOf(i) \cup {row[i]}
         /\ \A i \in Items \ L : MovementsOf(i)' = MovementsOf(i)
<1>1. \A i \in L : row[i] \in ledger' \ ledger
  BY DEF Recorded
<1>2. UniqueKeys'
  <2>1. ASSUME NEW m \in ledger', NEW n \in ledger', m.item = n.item, m.key = n.key
        PROVE  m = n
    BY <2>1 DEF UniqueKeys, Recorded
  <2> QED
    BY <2>1 DEF UniqueKeys
<1>3. ASSUME NEW i \in L
      PROVE  MovementsOf(i)' = MovementsOf(i) \cup {row[i]}
  BY DEF MovementsOf
<1>4. ASSUME NEW i \in Items \ L
      PROVE  MovementsOf(i)' = MovementsOf(i)
  BY DEF MovementsOf
<1> QED
  BY <1>1, <1>2, <1>3, <1>4

LEMMA ReserveConserves ==
  ASSUME InventoryTypeOK, InventoryTypeOK', StockInv, NEW o \in Orders, Reserve(o),
         \A i \in LinesOf(o) : reservation[o][i] = "NONE"
  PROVE  StockInv'
<1> DEFINE L == LinesOf(o)
           row == [i \in L |-> [item |-> i, key |-> ReserveKey(o), kind |-> "RESERVATION",
                                delta |-> -Demand[o][i], order |-> o]]
<1>1. /\ L \in SUBSET Items
      /\ \A i \in L : /\ row[i].item = i /\ row[i].kind = "RESERVATION"
                      /\ row[i].delta = -Demand[o][i]
                      /\ ~Recorded(i, row[i].key)
      /\ ledger' = ledger \cup {row[i] : i \in L}
      /\ \A i \in Items : stock'[i] = stock[i] - Demand[o][i]
      /\ \A i \in Items : reservation'[o][i] = IF i \in L THEN "RESERVED" ELSE "NONE"
      /\ \A p \in Orders \ {o} : reservation'[p] = reservation[p]
  BY DEF Reserve, LinesOf, InventoryTypeOK
<1>2. \A i \in Items : /\ Demand[o][i] \in Nat /\ stock[i] \in Int
                       /\ i \notin L => Demand[o][i] = 0
  BY InventoryAssumption DEF InventoryTypeOK, LinesOf
<1>3. \A i \in Items \ L : reservation[o][i] = "NONE"
  BY DEF StockInv, OnlyLinesReserved
<1>4. \A i \in L : reservation[o][i] = "NONE"
  OBVIOUS
<1> HIDE DEF row, L
<1>5. /\ UniqueKeys'
      /\ \A i \in L : /\ row[i] \in ledger' \ ledger
                      /\ MovementsOf(i)' = MovementsOf(i) \cup {row[i]}
      /\ \A i \in Items \ L : MovementsOf(i)' = MovementsOf(i)
  BY <1>1, RowsAdded DEF StockInv
<1>6. ASSUME NEW i \in L
      PROVE  Conserved(i)'
  <2>1. i \in Items /\ o \in Orders \ HoldersOf(i) /\ HoldersOf(i)' = HoldersOf(i) \cup {o}
    BY <1>1, <1>4 DEF HoldersOf
  <2>2. stock'[i] = stock[i] + row[i].delta
    BY <1>1, <1>2, <2>1
  <2>3. Conserved(i) /\ ledger \subseteq ledger'
    BY <1>1, <2>1 DEF StockInv
  <2> QED
    BY <1>1, <1>5, <2>1, <2>2, <2>3, MovedConserved
<1>7. ASSUME NEW i \in Items \ L
      PROVE  Conserved(i)'
  <2>1. HoldersOf(i)' = HoldersOf(i)
    BY <1>1, <1>3 DEF HoldersOf
  <2>2. stock'[i] = stock[i]
    BY <1>1, <1>2
  <2>3. Conserved(i) /\ ledger \subseteq ledger'
    BY <1>1 DEF StockInv
  <2> QED
    BY <1>5, <2>1, <2>2, <2>3, StillConserved
<1>8. OnlyLinesReserved'
  <2>1. LinesOf(o) = L
    BY DEF L
  <2> QED
    BY <1>1, <2>1 DEF StockInv, OnlyLinesReserved, LinesOf
<1> QED
  BY <1>5, <1>6, <1>7, <1>8 DEF StockInv

LEMMA RestoreConserves ==
  ASSUME InventoryTypeOK, InventoryTypeOK', StockInv, NEW o \in Orders,
         NEW L \in SUBSET LinesIn(o, {"RESERVED", "CONSUMED"}),
         NEW keyOf \in [Items -> MovementKeys], NEW to \in {"RELEASED", "EXPIRED"},
         Restore(o, L, keyOf, to)
  PROVE  StockInv'
<1> DEFINE row == [i \in L |-> [item |-> i, key |-> keyOf[i], kind |-> RestoreKind(o, i, to),
                                delta |-> Demand[o][i], order |-> o]]
<1>1. /\ L \in SUBSET Items /\ L \subseteq LinesOf(o)
      /\ \A i \in L : /\ row[i].item = i /\ row[i].kind # "ADJUSTMENT"
                      /\ row[i].delta = Demand[o][i]
                      /\ ~Recorded(i, row[i].key)
      /\ ledger' = ledger \cup {row[i] : i \in L}
      /\ \A i \in Items : stock'[i] = IF i \in L THEN stock[i] + Demand[o][i] ELSE stock[i]
      /\ \A i \in Items : reservation'[o][i] = IF i \in L THEN to ELSE reservation[o][i]
      /\ \A p \in Orders \ {o} : reservation'[p] = reservation[p]
  BY DEF Restore, RestoreKind, LinesIn, LinesOf, InventoryTypeOK
<1>2. \A i \in L : o \in HoldersOf(i)
  BY DEF HoldersOf, LinesIn
<1> HIDE DEF row
<1>5. /\ UniqueKeys'
      /\ \A i \in L : /\ row[i] \in ledger' \ ledger
                      /\ MovementsOf(i)' = MovementsOf(i) \cup {row[i]}
      /\ \A i \in Items \ L : MovementsOf(i)' = MovementsOf(i)
  BY <1>1, RowsAdded DEF StockInv
<1>6. ASSUME NEW i \in L
      PROVE  Conserved(i)'
  <2>1. i \in Items /\ HoldersOf(i)' = HoldersOf(i) \ {o}
    BY <1>1 DEF HoldersOf
  <2>2. stock'[i] = stock[i] + row[i].delta
    BY <1>1
  <2>3. Conserved(i) /\ ledger \subseteq ledger'
    BY <1>1 DEF StockInv
  <2> QED
    BY <1>1, <1>2, <1>5, <2>1, <2>2, <2>3, MovedConserved
<1>7. ASSUME NEW i \in Items \ L
      PROVE  Conserved(i)'
  <2>1. HoldersOf(i)' = HoldersOf(i)
    BY <1>1 DEF HoldersOf
  <2>2. stock'[i] = stock[i]
    BY <1>1
  <2>3. Conserved(i) /\ ledger \subseteq ledger'
    BY <1>1 DEF StockInv
  <2> QED
    BY <1>5, <2>1, <2>2, <2>3, StillConserved
<1>8. OnlyLinesReserved'
  BY <1>1 DEF StockInv, OnlyLinesReserved, LinesOf
<1> QED
  BY <1>5, <1>6, <1>7, <1>8 DEF StockInv

LEMMA AdjustConserves ==
  ASSUME InventoryTypeOK, InventoryTypeOK', StockInv, NEW i \in Items, NEW k \in Requests,
         NEW d \in Deltas, Adjust(i, k, d)
  PROVE  StockInv'
<1> DEFINE m == [item |-> i, key |-> k, kind |-> "ADJUSTMENT", delta |-> d, order |-> NoOrder]
           row == [j \in {i} |-> m]
<1>1. /\ \A j \in {i} : row[j].item = j /\ ~Recorded(j, row[j].key)
      /\ ledger' = ledger \cup {row[j] : j \in {i}}
      /\ row[i].kind = "ADJUSTMENT" /\ row[i].delta = d
  BY DEF Adjust
<1>2. /\ stock'[i] = stock[i] + d
      /\ \A j \in Items \ {i} : stock'[j] = stock[j]
      /\ \A j \in Items : HoldersOf(j)' = HoldersOf(j)
      /\ OnlyLinesReserved'
  BY DEF Adjust, InventoryTypeOK, HoldersOf, StockInv, OnlyLinesReserved, LinesOf
<1> HIDE DEF row
<1>3. /\ UniqueKeys'
      /\ \A j \in {i} : /\ row[j] \in ledger' \ ledger
                        /\ MovementsOf(j)' = MovementsOf(j) \cup {row[j]}
      /\ \A j \in Items \ {i} : MovementsOf(j)' = MovementsOf(j)
  BY <1>1, RowsAdded DEF StockInv
<1>4. ledger \subseteq ledger' /\ \A j \in Items : Conserved(j)
  BY <1>1 DEF StockInv
<1>5. Conserved(i)'
  BY <1>1, <1>2, <1>3, <1>4, MovedConserved
<1>6. \A j \in Items \ {i} : Conserved(j)'
  BY <1>2, <1>3, <1>4, StillConserved
<1> QED
  BY <1>2, <1>3, <1>5, <1>6 DEF StockInv

(* Payment and every step that writes no row: who holds the goods stays. *)
LEMMA HoldersKeepConserve ==
  ASSUME InventoryTypeOK, InventoryTypeOK', StockInv, UNCHANGED <<stock, ledger>>,
         \A i \in Items : HoldersOf(i)' = HoldersOf(i), OnlyLinesReserved'
  PROVE  StockInv'
<1>1. \A i \in Items : Conserved(i) /\ MovementsOf(i)' = MovementsOf(i)
  BY DEF StockInv, MovementsOf
<1>2. UniqueKeys'
  BY DEF StockInv, UniqueKeys
<1> QED
  BY <1>1, <1>2, StillConserved DEF StockInv

LEMMA InventoryKept ==
  ASSUME InventoryTypeOK, InventoryTypeOK', StockInv, UNCHANGED inventoryVars
  PROVE  StockInv'
BY HoldersKeepConserve DEF inventoryVars, HoldersOf, StockInv, OnlyLinesReserved, LinesOf

LEMMA ConsumeConserves ==
  ASSUME InventoryTypeOK, InventoryTypeOK', StockInv, NEW o \in Orders, Consume(o),
         LinesIn(o, {"RESERVED"}) = LinesOf(o)
  PROVE  StockInv'
<1>1. /\ \A i \in Items : reservation'[o][i] = IF i \in LinesOf(o) THEN "CONSUMED" ELSE "NONE"
      /\ \A p \in Orders \ {o} : reservation'[p] = reservation[p]
      /\ \A i \in Items : i \in LinesOf(o) => reservation[o][i] = "RESERVED"
      /\ \A i \in Items : i \notin LinesOf(o) => reservation[o][i] = "NONE"
  BY DEF Consume, InventoryTypeOK, LinesIn, StockInv, OnlyLinesReserved
<1>2. \A i \in Items : HoldersOf(i)' = HoldersOf(i)
  BY <1>1 DEF HoldersOf
<1>3. OnlyLinesReserved'
  BY <1>1 DEF StockInv, OnlyLinesReserved, LinesOf
<1> QED
  BY <1>2, <1>3, HoldersKeepConserve DEF Consume


LEMMA StockInit == Init => StockInv
<1> SUFFICES ASSUME Init PROVE StockInv
  OBVIOUS
<1>1. ASSUME NEW i \in Items
      PROVE  Conserved(i)
  <2>1. MovementsOf(i) = {} /\ AdjustmentsOf(i) = {} /\ HoldersOf(i) = {}
    BY DEF Init, InventoryInit, MovementsOf, AdjustmentsOf, HoldersOf
  <2>2. HeldQuantity(i) = 0
    BY <2>1, SumOfNothing DEF HeldQuantity, HoldersOf
  <2>3. stock[i] = InitialStock[i] /\ stock[i] \in Int
    BY InventoryAssumption DEF Init, InventoryInit
  <2> QED
    BY <2>1, <2>2, <2>3, SumOfNothing, FS_EmptySet DEF Conserved
<1>2. UniqueKeys /\ OnlyLinesReserved
  BY DEF Init, InventoryInit, UniqueKeys, OnlyLinesReserved
<1> QED
  BY <1>1, <1>2 DEF StockInv

LEMMA StockStep ==
  ASSUME TypeOK, TypeOK', ReservationsFollowOrder, StockInv, [Next]_vars
  PROVE  StockInv'
<1>0. InventoryTypeOK /\ InventoryTypeOK'
  BY DEF TypeOK
<1>1. ASSUME NEW o \in Orders, OrderNext(o)
      PROVE  StockInv'
  <2>1. CASE Place(o)
    BY <1>0, <2>1, ReserveConserves DEF Place, ReservationsFollowOrder
  <2>2. CASE Lapse(o)
    BY <1>0, <2>2, InventoryKept DEF Lapse
  <2>3. ASSUME NEW k \in Requests, Cancel(o, k)
        PROVE  StockInv'
    <3>1. [i \in Items |-> CancelKey(o, k)] \in [Items -> MovementKeys]
      BY KeysTyped
    <3> QED
      BY <1>0, <2>3, <3>1, RestoreConserves DEF Cancel, CancellableReservations
  <2>4. ASSUME NEW i \in LinesOf(o), NEW k \in DueKeys, ExpireOrder(o, i, k)
        PROVE  StockInv'
    <3>1. [j \in Items |-> IF j = i THEN k ELSE ExpireKey(o, k)] \in [Items -> MovementKeys]
      BY KeysTyped
    <3>2. LinesIn(o, {"RESERVED"}) \in SUBSET LinesIn(o, {"RESERVED", "CONSUMED"})
      BY DEF LinesIn
    <3> QED
      BY <1>0, <2>4, <3>1, <3>2, RestoreConserves DEF ExpireOrder
  <2> QED
    BY <1>1, <2>1, <2>2, <2>3, <2>4, OrderSteps
<1>2. ASSUME NEW a \in Attempts, AttemptNext(a)
      PROVE  StockInv'
  <2>1. ASSUME NEW k \in PaymentKeys, NEW p \in ProviderIds, Capture(a, k, p)
        PROVE  StockInv'
    <3>1. AttemptOrder[a] \in Orders
      BY CommerceAssumption
    <3> QED
      BY <1>0, <2>1, <3>1, ConsumeConserves DEF Capture, ReservationsValid
  <2>2. CASE UNCHANGED inventoryVars
    BY <1>0, <2>2, InventoryKept
  <2> QED
    BY <1>2, <2>1, <2>2 DEF AttemptNext, CreateAttempt, Fail, Refund
<1>3. ASSUME NEW f \in Shipments, ShipmentNext(f)
      PROVE  StockInv'
  BY <1>0, <1>3, InventoryKept
  DEF ShipmentNext, CreateFulfillment, Pack, Ship, Deliver, CancelFulfillment
<1>4. ASSUME NEW i \in Items, NEW k \in Requests, NEW d \in Deltas, AdjustStock(i, k, d)
      PROVE  StockInv'
  BY <1>0, <1>4, AdjustConserves DEF AdjustStock
<1>5. CASE UNCHANGED vars
  BY <1>0, <1>5, InventoryKept DEF vars, inventoryVars
<1> QED
  BY <1>1, <1>2, <1>3, <1>4, <1>5 DEF Next

(* Whatever orders are placed, paid, cancelled and expired, and however    *)
(* often a request is repeated, no goods appear or vanish: stock and goods *)
(* held for orders add up to what came in, and the ledger's rows add up to *)
(* the stock.                                                              *)
THEOREM StockConserved == Spec => []StockConservation
<1>1. Init => StockInv
  BY StockInit
<1>2. /\ TypeOK /\ TypeOK' /\ ReservationsFollowOrder /\ StockInv /\ [Next]_vars
      => StockInv'
  BY StockStep
<1>3. StockInv => StockConservation
  BY StockInvConserves
<1> QED
  BY <1>1, <1>2, <1>3, TypeCorrect, ReservationsCorrect, PTL DEF Spec

-----------------------------------------------------------------------------
(* Attempts and their transactions. *)

SucceededOf(a, type) ==
  {t \in txns : t.attempt = a /\ t.type = type /\ t.status = "SUCCEEDED"}

(* What the invariant says of one attempt, and what makes its sums finite. *)
SumsMatch(a) ==
  /\ IsFiniteSet(SucceededOf(a, "CAPTURE"))
  /\ IsFiniteSet(SucceededOf(a, "REFUND"))
  /\ attempt[a] \in Refundable <=> Total(a, "CAPTURE") = Price[a]
  /\ attempt[a] \notin Refundable => Total(a, "CAPTURE") = 0 /\ Total(a, "REFUND") = 0
  /\ attempt[a] = "CAPTURED" => Total(a, "REFUND") = 0
  /\ attempt[a] = "PARTIALLY_REFUNDED" => Total(a, "REFUND") \in 1 .. Total(a, "CAPTURE") - 1
  /\ attempt[a] = "REFUNDED" => Total(a, "REFUND") = Total(a, "CAPTURE")

OneRowPerIdentity ==
  \A s, t \in txns :
    /\ s.attempt = t.attempt
    /\ s.key = t.key \/ (s.providerId = t.providerId /\ s.providerId # NoProviderId)
    => s = t

(* The inductive invariant behind AttemptMatchesTransactions. *)
PaymentInv ==
  /\ \A a \in Attempts : SumsMatch(a)
  /\ OneRowPerIdentity

LEMMA PaymentInvMatches == PaymentInv => AttemptMatchesTransactions
BY DEF PaymentInv, SumsMatch, OneRowPerIdentity, AttemptMatchesTransactions

(* A new row adds its amount to the total of its attempt and type, and to  *)
(* no other.                                                               *)
LEMMA TotalAdds ==
  ASSUME PaymentTypeOK, PaymentTypeOK', NEW r, r \notin txns, txns' = txns \cup {r},
         NEW a \in Attempts, NEW type, IsFiniteSet(SucceededOf(a, type))
  PROVE  /\ Total(a, type) \in Nat
         /\ IsFiniteSet(SucceededOf(a, type)')
         /\ Total(a, type)' =
              IF r.attempt = a /\ r.type = type /\ r.status = "SUCCEEDED"
                THEN Total(a, type) + r.amount ELSE Total(a, type)
<1> DEFINE f == [t \in txns |-> t.amount]
           g == [t \in txns' |-> t.amount]
           S == SucceededOf(a, type)
<1>1. /\ \A t \in txns : f[t] = t.amount /\ f[t] \in Nat
      /\ \A t \in txns' : g[t] = t.amount /\ g[t] \in Nat
  BY DEF PaymentTypeOK, Transaction
<1>2. /\ Total(a, type) = SumFunctionOnSet(f, S)
      /\ Total(a, type)' = SumFunctionOnSet(g, S')
      /\ S \in SUBSET txns
  BY DEF Total, SucceededOf
<1>3. S' = IF r.attempt = a /\ r.type = type /\ r.status = "SUCCEEDED" THEN S \cup {r} ELSE S
  BY DEF SucceededOf
<1> HIDE DEF f, g, S
<1>4. IsFiniteSet(S)
  BY DEF S
<1>5. SumFunctionOnSet(f, S) \in Nat
  BY <1>1, <1>2, <1>4, SumIsNat
<1>6. SumFunctionOnSet(g, S) = SumFunctionOnSet(f, S)
  BY <1>1, <1>2, <1>4, SumOfEqualValues
<1>7. SumFunctionOnSet(g, S \cup {r}) = SumFunctionOnSet(g, S) + r.amount
  <2>1. r \notin S /\ g[r] = r.amount /\ \A t \in S \cup {r} : g[t] \in Int
    BY <1>1, <1>2
  <2> QED
    BY <1>4, <2>1, SumAdds
<1>8. IsFiniteSet(S')
  BY <1>3, <1>4, FS_AddElement
<1> QED
  BY <1>2, <1>3, <1>5, <1>6, <1>7, <1>8 DEF S


(* Steps without a new row: no attempt becomes or ceases to be refundable. *)
LEMMA PaymentInvKept ==
  ASSUME PaymentInv, UNCHANGED txns,
         \A a \in Attempts : \/ attempt'[a] = attempt[a]
                             \/ attempt[a] \notin Refundable /\ attempt'[a] \notin Refundable
  PROVE  PaymentInv'
<1>1. \A a \in Attempts, type \in {"CAPTURE", "REFUND"} :
        Total(a, type)' = Total(a, type) /\ SucceededOf(a, type)' = SucceededOf(a, type)
  BY DEF Total, SucceededOf
<1>2. ASSUME NEW a \in Attempts
      PROVE  SumsMatch(a)'
  <2>1. SumsMatch(a)
    BY DEF PaymentInv
  <2> QED
    BY <1>1, <2>1 DEF SumsMatch, Refundable
<1>3. OneRowPerIdentity'
  BY DEF PaymentInv, OneRowPerIdentity
<1> QED
  BY <1>2, <1>3 DEF PaymentInv

(* An attempt that the new row is not for. *)
LEMMA OtherSumsKept ==
  ASSUME PaymentTypeOK, PaymentTypeOK', NEW r, r \notin txns, txns' = txns \cup {r},
         NEW a \in Attempts, r.attempt # a, attempt'[a] = attempt[a], SumsMatch(a)
  PROVE  SumsMatch(a)'
<1>1. ASSUME NEW type, IsFiniteSet(SucceededOf(a, type))
      PROVE  IsFiniteSet(SucceededOf(a, type)') /\ Total(a, type)' = Total(a, type)
  BY <1>1, TotalAdds
<1> QED
  BY <1>1 DEF SumsMatch

(* The row of a request that neither its key nor its id was known for. *)
LEMMA IdentityKept ==
  ASSUME OneRowPerIdentity, NEW r, txns' = txns \cup {r},
         \A t \in txns : ~(t.attempt = r.attempt /\ t.key = r.key),
         \A t \in txns : t.attempt = r.attempt =>
           t.providerId # r.providerId \/ r.providerId = NoProviderId
  PROVE  OneRowPerIdentity'
BY DEF OneRowPerIdentity

LEMMA CaptureMatches ==
  ASSUME PaymentTypeOK, PaymentTypeOK', PaymentInv, NEW a \in Attempts,
         NEW k \in PaymentKeys, NEW p \in ProviderIds, CaptureAttempt(a, k, p)
  PROVE  PaymentInv'
<1> DEFINE r == [attempt |-> a, type |-> "CAPTURE", status |-> "SUCCEEDED",
                 amount |-> Price[a], key |-> k, providerId |-> p]
<1>1. /\ r.attempt = a /\ r.type = "CAPTURE" /\ r.status = "SUCCEEDED"
      /\ r.amount = Price[a] /\ r.key = k /\ r.providerId = p
      /\ \A t \in txns : t.attempt = a => t.key # k /\ t.providerId # p
      /\ txns' = txns \cup {r}
      /\ attempt[a] \in Capturable
      /\ attempt'[a] = "CAPTURED"
      /\ \A b \in Attempts \ {a} : attempt'[b] = attempt[b]
      /\ Price[a] \in Nat \ {0}
  BY PaymentAssumption DEF CaptureAttempt, KnownTransaction, PaymentTypeOK
<1> HIDE DEF r
<1>2. r \notin txns
  BY <1>1
<1>3. SumsMatch(a)'
  <2>1. SumsMatch(a) /\ attempt[a] \notin Refundable
    BY <1>1 DEF PaymentInv, Capturable, Refundable
  <2>2. /\ IsFiniteSet(SucceededOf(a, "CAPTURE")')
        /\ IsFiniteSet(SucceededOf(a, "REFUND")')
        /\ Total(a, "CAPTURE")' = Total(a, "CAPTURE") + Price[a]
        /\ Total(a, "REFUND")' = Total(a, "REFUND")
    BY <1>1, <1>2, <2>1, TotalAdds DEF SumsMatch
  <2>3. Total(a, "CAPTURE") = 0 /\ Total(a, "REFUND") = 0
    BY <2>1 DEF SumsMatch
  <2> QED
    BY <1>1, <2>2, <2>3 DEF SumsMatch, Refundable
<1>4. \A b \in Attempts \ {a} : SumsMatch(b)'
  BY <1>1, <1>2, OtherSumsKept DEF PaymentInv
<1>5. OneRowPerIdentity'
  BY <1>1, IdentityKept DEF PaymentInv
<1> QED
  BY <1>3, <1>4, <1>5 DEF PaymentInv

LEMMA FailMatches ==
  ASSUME PaymentTypeOK, PaymentTypeOK', PaymentInv, NEW a \in Attempts,
         NEW k \in PaymentKeys, FailAttempt(a, k)
  PROVE  PaymentInv'
<1> DEFINE r == [attempt |-> a, type |-> "AUTHORIZE", status |-> "FAILED",
                 amount |-> Price[a], key |-> k, providerId |-> NoProviderId]
<1>1. /\ r.attempt = a /\ r.type = "AUTHORIZE" /\ r.key = k /\ r.providerId = NoProviderId
      /\ \A t \in txns : t.attempt = a => t.key # k
      /\ txns' = txns \cup {r}
      /\ attempt[a] \in Failable
      /\ attempt'[a] = "FAILED"
      /\ \A b \in Attempts \ {a} : attempt'[b] = attempt[b]
  BY DEF FailAttempt, PaymentTypeOK
<1> HIDE DEF r
<1>2. r \notin txns
  BY <1>1
<1>3. SumsMatch(a)'
  <2>1. SumsMatch(a) /\ attempt[a] \notin Refundable
    BY <1>1 DEF PaymentInv, Failable, Refundable
  <2>2. /\ IsFiniteSet(SucceededOf(a, "CAPTURE")')
        /\ IsFiniteSet(SucceededOf(a, "REFUND")')
        /\ Total(a, "CAPTURE")' = Total(a, "CAPTURE")
        /\ Total(a, "REFUND")' = Total(a, "REFUND")
    BY <1>1, <1>2, <2>1, TotalAdds DEF SumsMatch
  <2> QED
    BY <1>1, <2>1, <2>2 DEF SumsMatch, Refundable
<1>4. \A b \in Attempts \ {a} : SumsMatch(b)'
  BY <1>1, <1>2, OtherSumsKept DEF PaymentInv
<1>5. OneRowPerIdentity'
  BY <1>1, IdentityKept DEF PaymentInv
<1> QED
  BY <1>3, <1>4, <1>5 DEF PaymentInv

LEMMA RefundMatches ==
  ASSUME PaymentTypeOK, PaymentTypeOK', PaymentInv, NEW a \in Attempts,
         NEW k \in PaymentKeys, NEW p \in ProviderIds, NEW amount \in RefundAmounts,
         NEW allowed, RefundAttempt(a, k, p, amount, allowed)
  PROVE  PaymentInv'
<1> DEFINE r == [attempt |-> a, type |-> "REFUND", status |-> "SUCCEEDED",
                 amount |-> amount, key |-> k, providerId |-> p]
<1>1. /\ r.attempt = a /\ r.type = "REFUND" /\ r.status = "SUCCEEDED"
      /\ r.amount = amount /\ r.key = k /\ r.providerId = p
      /\ \A t \in txns : t.attempt = a => t.key # k /\ t.providerId # p
      /\ txns' = txns \cup {r}
      /\ attempt[a] \in Refundable
      /\ Total(a, "REFUND") + amount <= Total(a, "CAPTURE")
      /\ attempt[a] = "REFUNDED" => Total(a, "REFUND") + amount = Total(a, "CAPTURE")
      /\ attempt'[a] = IF Total(a, "REFUND") + amount = Total(a, "CAPTURE")
                         THEN "REFUNDED" ELSE "PARTIALLY_REFUNDED"
      /\ \A b \in Attempts \ {a} : attempt'[b] = attempt[b]
      /\ amount \in Nat \ {0}
  BY PaymentAssumption DEF RefundAttempt, KnownTransaction, PaymentTypeOK
<1> HIDE DEF r
<1>2. r \notin txns
  BY <1>1
<1>3. SumsMatch(a)'
  <2>1. SumsMatch(a)
    BY DEF PaymentInv
  <2>2. /\ IsFiniteSet(SucceededOf(a, "CAPTURE")')
        /\ IsFiniteSet(SucceededOf(a, "REFUND")')
        /\ Total(a, "CAPTURE")' = Total(a, "CAPTURE")
        /\ Total(a, "REFUND")' = Total(a, "REFUND") + amount
        /\ Total(a, "CAPTURE") \in Nat /\ Total(a, "REFUND") \in Nat
    BY <1>1, <1>2, <2>1, TotalAdds DEF SumsMatch
  <2>3. Total(a, "CAPTURE") = Price[a]
    BY <1>1, <2>1 DEF SumsMatch
  <2>4. CASE Total(a, "REFUND") + amount = Total(a, "CAPTURE")
    BY <1>1, <2>2, <2>3, <2>4 DEF SumsMatch, Refundable
  <2>5. CASE Total(a, "REFUND") + amount # Total(a, "CAPTURE")
    <3>1. attempt'[a] = "PARTIALLY_REFUNDED"
      BY <1>1, <2>5
    <3>2. Total(a, "REFUND")' \in 1 .. Total(a, "CAPTURE")' - 1
      BY <1>1, <2>2, <2>5
    <3> QED
      BY <2>2, <2>3, <3>1, <3>2 DEF SumsMatch, Refundable
  <2> QED
    BY <2>4, <2>5
<1>4. \A b \in Attempts \ {a} : SumsMatch(b)'
  BY <1>1, <1>2, OtherSumsKept DEF PaymentInv
<1>5. OneRowPerIdentity'
  BY <1>1, IdentityKept DEF PaymentInv
<1> QED
  BY <1>3, <1>4, <1>5 DEF PaymentInv

LEMMA PaymentInvInit == Init => PaymentInv
<1> SUFFICES ASSUME Init PROVE PaymentInv
  OBVIOUS
<1>1. txns = {} /\ \A a \in Attempts : attempt[a] = "NONE"
  BY DEF Init, PaymentInit
<1>2. \A a \in Attempts : /\ SucceededOf(a, "CAPTURE") = {} /\ SucceededOf(a, "REFUND") = {}
                          /\ Total(a, "CAPTURE") = 0 /\ Total(a, "REFUND") = 0
                          /\ Price[a] # 0
  BY <1>1, SumOfNothing, PaymentAssumption DEF SucceededOf, Total
<1> QED
  BY <1>1, <1>2, FS_EmptySet DEF PaymentInv, SumsMatch, OneRowPerIdentity, Refundable

LEMMA PaymentStep ==
  ASSUME TypeOK, TypeOK', PaymentInv, [Next]_vars
  PROVE  PaymentInv'
<1>0. PaymentTypeOK /\ PaymentTypeOK'
  BY DEF TypeOK
<1>1. ASSUME NEW o \in Orders, OrderNext(o)
      PROVE  PaymentInv'
  <2>1. CASE CancelAttempts(AttemptsOf(o))
    BY <2>1, PaymentInvKept DEF CancelAttempts, Cancellable, Refundable
  <2>2. CASE UNCHANGED paymentVars
    BY <2>2, PaymentInvKept DEF paymentVars
  <2> QED
    BY <1>1, <2>1, <2>2, OrderSteps DEF Place, Lapse, Cancel, ExpireOrder
<1>2. ASSUME NEW a \in Attempts, AttemptNext(a)
      PROVE  PaymentInv'
  <2>1. CASE CreateAttempt(a)
    <3>1. UNCHANGED txns /\ attempt[a] = "NONE" /\ attempt' = [attempt EXCEPT ![a] = "PENDING"]
      BY <2>1 DEF CreateAttempt, OpenAttempt
    <3> QED
      BY <1>0, <3>1, PaymentInvKept DEF PaymentTypeOK, Refundable
  <2>2. ASSUME NEW k \in PaymentKeys, Fail(a, k)
        PROVE  PaymentInv'
    BY <1>0, <2>2, FailMatches DEF Fail
  <2>3. ASSUME NEW k \in PaymentKeys, NEW p \in ProviderIds, Capture(a, k, p)
        PROVE  PaymentInv'
    BY <1>0, <2>3, CaptureMatches DEF Capture
  <2>4. ASSUME NEW k \in PaymentKeys, NEW p \in ProviderIds, NEW amount \in RefundAmounts,
               Refund(a, k, p, amount)
        PROVE  PaymentInv'
    BY <1>0, <2>4, RefundMatches DEF Refund
  <2> QED
    BY <1>2, <2>1, <2>2, <2>3, <2>4 DEF AttemptNext
<1>3. ASSUME NEW f \in Shipments, ShipmentNext(f)
      PROVE  PaymentInv'
  BY <1>3, PaymentInvKept
  DEF ShipmentNext, CreateFulfillment, Pack, Ship, Deliver, CancelFulfillment, paymentVars
<1>4. ASSUME NEW i \in Items, NEW k \in Requests, NEW d \in Deltas, AdjustStock(i, k, d)
      PROVE  PaymentInv'
  BY <1>4, PaymentInvKept DEF AdjustStock, paymentVars
<1>5. CASE UNCHANGED vars
  BY <1>5, PaymentInvKept DEF vars
<1> QED
  BY <1>1, <1>2, <1>3, <1>4, <1>5 DEF Next

(* Captures, failures and refunds in any order and under any keys leave an *)
(* attempt in the status its transactions call for, refunded at most what  *)
(* was captured, with one row for each key and each provider transaction.  *)
THEOREM AttemptMatchesCorrect == Spec => []AttemptMatchesTransactions
<1>1. Init => PaymentInv
  BY PaymentInvInit
<1>2. TypeOK /\ TypeOK' /\ PaymentInv /\ [Next]_vars => PaymentInv'
  BY PaymentStep
<1>3. PaymentInv => AttemptMatchesTransactions
  BY PaymentInvMatches
<1> QED
  BY <1>1, <1>2, <1>3, TypeCorrect, PTL DEF Spec

-----------------------------------------------------------------------------
(* Orders and their shipments. *)

LiveOf(o)      == {f \in ShipmentsOf(o) : shipment[f] \in Live}
DeliveredOf(o) == {f \in ShipmentsOf(o) : shipment[f] \in {"DELIVERED"}}

AllDelivered(o) ==
  \A i \in Items : Carried(ShipmentsOf(o), i, {"DELIVERED"}) = Demand[o][i]

(* What the invariant says of one order, and what makes its sums finite. *)
DeliveryAgrees(o) ==
  /\ IsFiniteSet(LiveOf(o))
  /\ \A i \in Items : Carried(ShipmentsOf(o), i, Live) <= Demand[o][i]
  /\ order[o] = "COMPLETED" <=> AllDelivered(o)

(* Every shipment carries something. *)
NoEmptyShipment ==
  \A f \in Shipments : shipment[f] # "NONE" => \E i \in Items : allocation[f][i] > 0

(* The inductive invariant behind CompletedMeansDelivered. *)
DeliveryInv ==
  /\ \A o \in Orders : DeliveryAgrees(o)
  /\ NoEmptyShipment

(* The sums of one order's shipments are naturals, and what was delivered  *)
(* is part of what is carried.                                             *)
LEMMA CarriedNat ==
  ASSUME FulfillmentTypeOK, NEW o \in Orders, IsFiniteSet(LiveOf(o)), NEW i \in Items
  PROVE  /\ Carried(ShipmentsOf(o), i, Live) \in Nat
         /\ Carried(ShipmentsOf(o), i, {"DELIVERED"}) \in Nat
         /\ \A f \in LiveOf(o) \ DeliveredOf(o) :
              Carried(ShipmentsOf(o), i, {"DELIVERED"}) + allocation[f][i]
                <= Carried(ShipmentsOf(o), i, Live)
<1> DEFINE q == [f \in ShipmentsOf(o) |-> allocation[f][i]]
           L == LiveOf(o)
           D == DeliveredOf(o)
<1>1. /\ Carried(ShipmentsOf(o), i, Live) = SumFunctionOnSet(q, L)
      /\ Carried(ShipmentsOf(o), i, {"DELIVERED"}) = SumFunctionOnSet(q, D)
  BY DEF Carried, LiveOf, DeliveredOf
<1>2. \A f \in L : q[f] = allocation[f][i] /\ q[f] \in Nat
  BY CommerceAssumption DEF FulfillmentTypeOK, LiveOf, ShipmentsOf
<1>3. D \in SUBSET L
  BY DEF LiveOf, DeliveredOf, Live, ShipmentStatus
<1> HIDE DEF q, L, D
<1>4. IsFiniteSet(L) /\ IsFiniteSet(D)
  BY <1>3, FS_Subset DEF L
<1>5. SumFunctionOnSet(q, L) \in Nat /\ SumFunctionOnSet(q, D) \in Nat
  BY <1>2, <1>3, <1>4, SumIsNat
<1>6. ASSUME NEW f \in L \ D
      PROVE  SumFunctionOnSet(q, D) + allocation[f][i] <= SumFunctionOnSet(q, L)
  <2>1. SumFunctionOnSet(q, D \cup {f}) = SumFunctionOnSet(q, D) + q[f]
    <3>1. f \notin D /\ \A x \in D \cup {f} : q[x] \in Int
      BY <1>2, <1>3
    <3> QED
      BY <1>4, <3>1, SumAdds
  <2>2. D \cup {f} \in SUBSET L
    BY <1>3
  <2>3. SumFunctionOnSet(q, D \cup {f}) <= SumFunctionOnSet(q, L)
    BY <1>2, <1>4, <2>2, SumGrows
  <2> QED
    BY <1>2, <2>1, <2>3
<1> QED
  BY <1>1, <1>5, <1>6 DEF L, D

(* Once everything is delivered nothing is on its way: it would carry more *)
(* than was ordered.                                                       *)
LEMMA NothingOnItsWay ==
  ASSUME FulfillmentTypeOK, NoEmptyShipment, NEW o \in Orders, DeliveryAgrees(o),
         AllDelivered(o), NEW f \in ShipmentsOf(o)
  PROVE  shipment[f] \notin InProgress
<1>1. SUFFICES ASSUME shipment[f] \in InProgress PROVE FALSE
  OBVIOUS
<1>2. f \in LiveOf(o) \ DeliveredOf(o) /\ f \in Shipments /\ shipment[f] # "NONE"
  BY <1>1 DEF InProgress, LiveOf, DeliveredOf, Live, ShipmentStatus, ShipmentsOf
<1>3. PICK i \in Items : allocation[f][i] > 0
  BY <1>2 DEF NoEmptyShipment
<1>4. /\ Carried(ShipmentsOf(o), i, {"DELIVERED"}) + allocation[f][i]
           <= Carried(ShipmentsOf(o), i, Live)
      /\ Carried(ShipmentsOf(o), i, Live) \in Nat
  BY <1>2, CarriedNat DEF DeliveryAgrees
<1>5. /\ Carried(ShipmentsOf(o), i, Live) <= Demand[o][i]
      /\ Carried(ShipmentsOf(o), i, {"DELIVERED"}) = Demand[o][i]
  BY DEF DeliveryAgrees, AllDelivered
<1>6. allocation[f][i] \in Nat /\ Demand[o][i] \in Nat
  BY <1>2, CommerceAssumption, InventoryAssumption DEF FulfillmentTypeOK
<1> QED
  BY <1>3, <1>4, <1>5, <1>6

LEMMA DeliveryInvCompletes ==
  FulfillmentTypeOK /\ DeliveryInv => CompletedMeansDelivered
BY NothingOnItsWay DEF DeliveryInv, DeliveryAgrees, AllDelivered, CompletedMeansDelivered

(* An order none of whose shipments is created or delivered: some may move *)
(* on, some may be cancelled.                                              *)
LEMMA DeliveryKept ==
  ASSUME FulfillmentTypeOK, FulfillmentTypeOK', NEW o \in Orders, DeliveryAgrees(o),
         \A f \in ShipmentsOf(o) :
           /\ shipment'[f] \in Live =>
                shipment[f] \in Live /\ allocation'[f] = allocation[f]
           /\ shipment'[f] = "DELIVERED" <=> shipment[f] = "DELIVERED",
         order'[o] = "COMPLETED" <=> order[o] = "COMPLETED"
  PROVE  DeliveryAgrees(o)'
<1>1. LiveOf(o)' \in SUBSET LiveOf(o) /\ DeliveredOf(o)' = DeliveredOf(o)
  BY DEF LiveOf, DeliveredOf, ShipmentsOf
<1>2. IsFiniteSet(LiveOf(o)) /\ IsFiniteSet(LiveOf(o)') /\ IsFiniteSet(DeliveredOf(o))
  <2>1. DeliveredOf(o) \in SUBSET LiveOf(o)
    BY DEF LiveOf, DeliveredOf, Live, ShipmentStatus
  <2> QED
    BY <1>1, <2>1, FS_Subset DEF DeliveryAgrees
<1>3. ASSUME NEW i \in Items
      PROVE  /\ Carried(ShipmentsOf(o), i, Live)' <= Carried(ShipmentsOf(o), i, Live)
             /\ Carried(ShipmentsOf(o), i, {"DELIVERED"})'
                  = Carried(ShipmentsOf(o), i, {"DELIVERED"})
             /\ Carried(ShipmentsOf(o), i, Live) \in Nat
             /\ Carried(ShipmentsOf(o), i, Live)' \in Nat
  <2> DEFINE q == [f \in ShipmentsOf(o) |-> allocation[f][i]]
             r == [f \in ShipmentsOf(o) |-> allocation'[f][i]]
  <2>1. /\ Carried(ShipmentsOf(o), i, Live) = SumFunctionOnSet(q, LiveOf(o))
        /\ Carried(ShipmentsOf(o), i, {"DELIVERED"}) = SumFunctionOnSet(q, DeliveredOf(o))
        /\ Carried(ShipmentsOf(o), i, Live)' = SumFunctionOnSet(r, LiveOf(o)')
        /\ Carried(ShipmentsOf(o), i, {"DELIVERED"})' = SumFunctionOnSet(r, DeliveredOf(o)')
    BY DEF Carried, LiveOf, DeliveredOf, ShipmentsOf
  <2>2. /\ \A f \in LiveOf(o) : q[f] \in Nat
        /\ \A f \in LiveOf(o)' : r[f] = q[f]
        /\ \A f \in DeliveredOf(o) : r[f] = q[f]
    BY CommerceAssumption
    DEF FulfillmentTypeOK, LiveOf, DeliveredOf, ShipmentsOf, Live, ShipmentStatus
  <2> HIDE DEF q, r
  <2>3. SumFunctionOnSet(r, LiveOf(o)') = SumFunctionOnSet(q, LiveOf(o)')
    BY <1>2, <2>2, SumOfEqualValues
  <2>4. SumFunctionOnSet(r, DeliveredOf(o)) = SumFunctionOnSet(q, DeliveredOf(o))
    BY <1>2, <2>2, SumOfEqualValues
  <2>5. SumFunctionOnSet(q, LiveOf(o)') <= SumFunctionOnSet(q, LiveOf(o))
    BY <1>1, <1>2, <2>2, SumGrows
  <2>6. SumFunctionOnSet(q, LiveOf(o)) \in Nat /\ SumFunctionOnSet(q, LiveOf(o)') \in Nat
    BY <1>1, <1>2, <2>2, SumIsNat
  <2> QED
    BY <1>1, <2>1, <2>3, <2>4, <2>5, <2>6
<1>4. \A i \in Items : Demand[o][i] \in Nat
  BY InventoryAssumption
<1>5. AllDelivered(o)' <=> AllDelivered(o)
  BY <1>3 DEF AllDelivered, ShipmentsOf
<1>6. \A i \in Items : Carried(ShipmentsOf(o), i, Live)' <= Demand[o][i]
  BY <1>3, <1>4 DEF DeliveryAgrees
<1> QED
  BY <1>2, <1>5, <1>6 DEF DeliveryAgrees


(* A new shipment takes no more than is left of each line. *)
LEMMA CreateDelivery ==
  ASSUME FulfillmentTypeOK, FulfillmentTypeOK', DeliveryInv, NEW f \in Shipments,
         NEW q \in Quantities, CreateFulfillment(f, q)
  PROVE  DeliveryAgrees(ShipmentOrder[f])'
<1> DEFINE o == ShipmentOrder[f]
<1>1. /\ o \in Orders /\ f \in ShipmentsOf(o) /\ order' = order
      /\ shipment[f] = "NONE"
      /\ shipment' = [shipment EXCEPT ![f] = "PENDING"]
      /\ allocation' = [allocation EXCEPT ![f] = q]
      /\ \A i \in Items : q[i] > 0 => q[i] <= Demand[o][i] - Carried(ShipmentsOf(o), i, Live)
  BY CommerceAssumption DEF CreateFulfillment, CreateShipment, ShipmentsOf
<1>2. DeliveryAgrees(o)
  BY <1>1 DEF DeliveryInv
<1>3. /\ LiveOf(o)' = LiveOf(o) \cup {f} /\ f \notin LiveOf(o)
      /\ DeliveredOf(o)' = DeliveredOf(o) /\ DeliveredOf(o) \in SUBSET LiveOf(o)
  BY <1>1 DEF FulfillmentTypeOK, LiveOf, DeliveredOf, ShipmentsOf, Live, ShipmentStatus
<1>4. IsFiniteSet(LiveOf(o)) /\ IsFiniteSet(LiveOf(o)') /\ IsFiniteSet(DeliveredOf(o))
  BY <1>2, <1>3, FS_AddElement, FS_Subset DEF DeliveryAgrees
<1>5. ASSUME NEW i \in Items
      PROVE  /\ Carried(ShipmentsOf(o), i, Live)' = Carried(ShipmentsOf(o), i, Live) + q[i]
             /\ Carried(ShipmentsOf(o), i, {"DELIVERED"})'
                  = Carried(ShipmentsOf(o), i, {"DELIVERED"})
  <2> DEFINE g == [x \in ShipmentsOf(o) |-> allocation[x][i]]
             h == [x \in ShipmentsOf(o) |-> allocation'[x][i]]
  <2>1. /\ Carried(ShipmentsOf(o), i, Live) = SumFunctionOnSet(g, LiveOf(o))
        /\ Carried(ShipmentsOf(o), i, {"DELIVERED"}) = SumFunctionOnSet(g, DeliveredOf(o))
        /\ Carried(ShipmentsOf(o), i, Live)' = SumFunctionOnSet(h, LiveOf(o)')
        /\ Carried(ShipmentsOf(o), i, {"DELIVERED"})' = SumFunctionOnSet(h, DeliveredOf(o)')
    BY DEF Carried, LiveOf, DeliveredOf, ShipmentsOf
  <2>2. /\ \A x \in LiveOf(o) : h[x] = g[x]
        /\ \A x \in LiveOf(o) \cup {f} : h[x] \in Nat
        /\ h[f] = q[i]
    BY <1>1, <1>3, CommerceAssumption DEF FulfillmentTypeOK, LiveOf, ShipmentsOf
  <2> HIDE DEF g, h
  <2>3. /\ SumFunctionOnSet(h, LiveOf(o)) = SumFunctionOnSet(g, LiveOf(o))
        /\ SumFunctionOnSet(h, DeliveredOf(o)) = SumFunctionOnSet(g, DeliveredOf(o))
    BY <1>3, <1>4, <2>2, SumOfEqualValues
  <2>4. SumFunctionOnSet(h, LiveOf(o) \cup {f}) = SumFunctionOnSet(h, LiveOf(o)) + h[f]
    BY <1>3, <1>4, <2>2, SumAdds
  <2> QED
    BY <1>3, <2>1, <2>2, <2>3, <2>4
<1>6. \A i \in Items : Carried(ShipmentsOf(o), i, Live)' <= Demand[o][i]
  <2>1. ASSUME NEW i \in Items
        PROVE  Carried(ShipmentsOf(o), i, Live)' <= Demand[o][i]
    <3>1. q[i] \in Nat /\ Demand[o][i] \in Nat
      BY <1>1, CommerceAssumption, FulfillmentAssumption, InventoryAssumption
    <3>2. Carried(ShipmentsOf(o), i, Live) \in Nat
      BY <1>1, <1>4, CarriedNat
    <3>3. Carried(ShipmentsOf(o), i, Live) <= Demand[o][i]
      BY <1>2 DEF DeliveryAgrees
    <3> QED
      BY <1>1, <1>5, <3>1, <3>2, <3>3
  <2> QED
    BY <2>1
<1>7. AllDelivered(o)' <=> AllDelivered(o)
  BY <1>5 DEF AllDelivered, ShipmentsOf
<1> QED
  BY <1>1, <1>2, <1>4, <1>6, <1>7 DEF DeliveryAgrees

(* A delivery completes the order if, and only if, it is the last one.     *)
LEMMA DeliverDelivery ==
  ASSUME FulfillmentTypeOK, FulfillmentTypeOK', order \in [Orders -> {"NONE"} \cup OrderStatus],
         DeliveryInv, NEW f \in Shipments, Deliver(f)
  PROVE  DeliveryAgrees(ShipmentOrder[f])'
<1> DEFINE o == ShipmentOrder[f]
           S == ShipmentsOf(o)
<1>1. /\ o \in Orders /\ f \in S /\ allocation' = allocation
      /\ shipment[f] \in {"SHIPPED", "DELIVERED"}
      /\ shipment' = [shipment EXCEPT ![f] = "DELIVERED"]
  BY CommerceAssumption DEF Deliver, AdvanceShipment, ShipmentsOf
<1>2. DeliveryAgrees(o)
  BY <1>1 DEF DeliveryInv
<1>3. /\ LiveOf(o)' = LiveOf(o)
      /\ DeliveredOf(o)' = (DeliveredOf(o) \ {f}) \cup {f}
      /\ DeliveredOf(o) \in SUBSET LiveOf(o)
  BY <1>1 DEF FulfillmentTypeOK, LiveOf, DeliveredOf, ShipmentsOf, Live, ShipmentStatus
<1>4. IsFiniteSet(LiveOf(o)) /\ IsFiniteSet(DeliveredOf(o) \ {f})
  BY <1>2, <1>3, FS_Subset, FS_RemoveElement DEF DeliveryAgrees
<1>5. ASSUME NEW i \in Items
      PROVE  /\ Carried(S, i, Live)' = Carried(S, i, Live)
             /\ Carried(S, i, {"DELIVERED"})'
                  = Carried(S \ {f}, i, {"DELIVERED"}) + allocation[f][i]
  <2> DEFINE g == [x \in S |-> allocation[x][i]]
             h == [x \in S \ {f} |-> allocation[x][i]]
             D == DeliveredOf(o) \ {f}
  <2>1. /\ Carried(S, i, Live) = SumFunctionOnSet(g, LiveOf(o))
        /\ Carried(S \ {f}, i, {"DELIVERED"}) = SumFunctionOnSet(h, D)
        /\ Carried(S, i, Live)' = SumFunctionOnSet(g, LiveOf(o)')
        /\ Carried(S, i, {"DELIVERED"})' = SumFunctionOnSet(g, DeliveredOf(o)')
    <3>1. D = {x \in S \ {f} : shipment[x] \in {"DELIVERED"}}
      BY DEF DeliveredOf
    <3> QED
      BY <1>1, <3>1 DEF Carried, LiveOf, DeliveredOf, ShipmentsOf
  <2>2. /\ \A x \in D : h[x] = g[x]
        /\ \A x \in D \cup {f} : g[x] \in Int
        /\ g[f] = allocation[f][i]
        /\ f \notin D
    BY <1>1, CommerceAssumption DEF FulfillmentTypeOK, DeliveredOf, ShipmentsOf
  <2> HIDE DEF g, h
  <2>3. SumFunctionOnSet(h, D) = SumFunctionOnSet(g, D)
    BY <1>4, <2>2, SumOfEqualValues
  <2>4. SumFunctionOnSet(g, D \cup {f}) = SumFunctionOnSet(g, D) + g[f]
    BY <1>4, <2>2, SumAdds
  <2> QED
    BY <1>3, <2>1, <2>2, <2>3, <2>4
<1>6. FullyDeliveredWith(f, S, Demand[o]) <=> AllDelivered(o)'
  BY <1>5, CommerceAssumption DEF FullyDeliveredWith, AllDelivered, ShipmentsOf
<1>7. order'[o] = "COMPLETED" <=> AllDelivered(o)'
  <2>1. CASE FullyDeliveredWith(f, S, Demand[o])
    <3>1. order' = [order EXCEPT ![o] = "COMPLETED"]
      BY <2>1 DEF Deliver, Transition
    <3> QED
      BY <1>1, <1>6, <2>1, <3>1
  <2>2. CASE ~FullyDeliveredWith(f, S, Demand[o])
    <3>1. order' = order
      BY <2>2 DEF Deliver
    <3>2. ASSUME order[o] = "COMPLETED"
          PROVE  FALSE
      <4>1. shipment[f] = "SHIPPED"
        BY <1>1, <3>2 DEF Deliver
      <4>2. AllDelivered(o)
        BY <1>2, <3>2 DEF DeliveryAgrees
      <4> QED
        BY <1>1, <1>2, <4>1, <4>2, NothingOnItsWay DEF DeliveryInv, InProgress
    <3> QED
      BY <1>6, <2>2, <3>1, <3>2
  <2> QED
    BY <2>1, <2>2
<1>8. \A i \in Items : Carried(S, i, Live)' <= Demand[o][i]
  BY <1>2, <1>5 DEF DeliveryAgrees
<1> QED
  BY <1>3, <1>4, <1>7, <1>8 DEF DeliveryAgrees

LEMMA DeliveryInit == Init => DeliveryInv
<1> SUFFICES ASSUME Init PROVE DeliveryInv
  OBVIOUS
<1>1. \A f \in Shipments : shipment[f] = "NONE"
  BY DEF Init, FulfillmentInit
<1>2. ASSUME NEW o \in Orders
      PROVE  DeliveryAgrees(o)
  <2>1. LiveOf(o) = {} /\ DeliveredOf(o) = {}
    BY <1>1 DEF LiveOf, DeliveredOf, ShipmentsOf, Live, ShipmentStatus
  <2>2. \A i \in Items : /\ Carried(ShipmentsOf(o), i, Live) = 0
                         /\ Carried(ShipmentsOf(o), i, {"DELIVERED"}) = 0
    BY <2>1, SumOfNothing DEF Carried, LiveOf, DeliveredOf
  <2>3. order[o] # "COMPLETED" /\ ~AllDelivered(o)
    BY <2>2, InventoryAssumption DEF Init, AllDelivered
  <2>4. \A i \in Items : Demand[o][i] \in Nat
    BY InventoryAssumption
  <2> QED
    BY <2>1, <2>2, <2>3, <2>4, FS_EmptySet DEF DeliveryAgrees
<1> QED
  BY <1>1, <1>2 DEF DeliveryInv, NoEmptyShipment

(* A step of one order: the shipments of the others, and their status, stay. *)
LEMMA OneOrderDelivery ==
  ASSUME FulfillmentTypeOK, FulfillmentTypeOK', DeliveryInv, NEW o \in Orders,
         DeliveryAgrees(o)', NoEmptyShipment',
         \A p \in Orders \ {o} : order'[p] = order[p],
         \A f \in Shipments : ShipmentOrder[f] # o =>
           shipment'[f] = shipment[f] /\ allocation'[f] = allocation[f]
  PROVE  DeliveryInv'
<1>1. ASSUME NEW p \in Orders \ {o}
      PROVE  DeliveryAgrees(p)'
  <2>1. \A f \in ShipmentsOf(p) : shipment'[f] = shipment[f] /\ allocation'[f] = allocation[f]
    BY DEF ShipmentsOf
  <2> QED
    BY <2>1, DeliveryKept DEF DeliveryInv
<1> QED
  BY <1>1 DEF DeliveryInv

(* A step that creates and delivers nothing and completes no order. *)
LEMMA DeliveryUndisturbed ==
  ASSUME FulfillmentTypeOK, FulfillmentTypeOK', DeliveryInv, allocation' = allocation,
         \A o \in Orders : order'[o] = "COMPLETED" <=> order[o] = "COMPLETED",
         \A f \in Shipments :
           /\ shipment'[f] \in Live => shipment[f] \in Live
           /\ shipment'[f] = "DELIVERED" <=> shipment[f] = "DELIVERED"
           /\ shipment[f] = "NONE" => shipment'[f] = "NONE"
  PROVE  DeliveryInv'
<1>1. \A o \in Orders : DeliveryAgrees(o)'
  BY DeliveryKept DEF DeliveryInv, ShipmentsOf
<1>2. NoEmptyShipment'
  BY DEF DeliveryInv, NoEmptyShipment
<1> QED
  BY <1>1, <1>2 DEF DeliveryInv

LEMMA DeliveryStep ==
  ASSUME TypeOK, TypeOK', DeliveryInv, [Next]_vars
  PROVE  DeliveryInv'
<1>0. /\ FulfillmentTypeOK /\ FulfillmentTypeOK'
      /\ order \in [Orders -> {"NONE"} \cup OrderStatus]
  BY DEF TypeOK
<1>1. ASSUME NEW o \in Orders, OrderNext(o)
      PROVE  DeliveryInv'
  <2>1. \A p \in Orders : order'[p] = "COMPLETED" <=> order[p] = "COMPLETED"
    BY <1>0, <1>1, OrderSteps
    DEF Place, Lapse, Cancel, ExpireOrder, Transition, AllowedTransitions
  <2>2. UNCHANGED fulfillmentVars \/ CancelShipments(ShipmentsOf(o))
    BY <1>1, OrderSteps DEF Place, Lapse, Cancel, ExpireOrder
  <2>3. /\ allocation' = allocation
        /\ \A f \in Shipments :
             \/ shipment'[f] = shipment[f]
             \/ shipment[f] \in CancellableShipment /\ shipment'[f] = "CANCELLED"
    BY <2>2 DEF fulfillmentVars, CancelShipments
  <2> QED
    BY <1>0, <2>1, <2>3, DeliveryUndisturbed DEF Live, ShipmentStatus, CancellableShipment
<1>2. ASSUME NEW a \in Attempts, AttemptNext(a)
      PROVE  DeliveryInv'
  <2>1. \A p \in Orders : order'[p] = "COMPLETED" <=> order[p] = "COMPLETED"
    BY <1>0, <1>2
    DEF AttemptNext, CreateAttempt, Fail, Capture, Refund, Transition, AllowedTransitions
  <2>2. UNCHANGED fulfillmentVars
    BY <1>2 DEF AttemptNext, CreateAttempt, Fail, Capture, Refund
  <2> QED
    BY <1>0, <2>1, <2>2, DeliveryUndisturbed DEF fulfillmentVars
<1>3. ASSUME NEW f \in Shipments, ShipmentNext(f)
      PROVE  DeliveryInv'
  <2>0. ShipmentOrder[f] \in Orders
    BY CommerceAssumption
  <2>1. ASSUME NEW q \in Quantities, CreateFulfillment(f, q)
        PROVE  DeliveryInv'
    <3>1. /\ order' = order
          /\ shipment' = [shipment EXCEPT ![f] = "PENDING"]
          /\ allocation' = [allocation EXCEPT ![f] = q]
      BY <2>1 DEF CreateFulfillment, CreateShipment
    <3>2. NoEmptyShipment'
      BY <1>0, <3>1, CommerceAssumption, FulfillmentAssumption
      DEF DeliveryInv, NoEmptyShipment, FulfillmentTypeOK
    <3>3. DeliveryAgrees(ShipmentOrder[f])'
      BY <1>0, <2>1, CreateDelivery
    <3> QED
      BY <1>0, <2>0, <3>1, <3>2, <3>3, OneOrderDelivery DEF FulfillmentTypeOK
  <2>2. CASE Pack(f) \/ Ship(f) \/ CancelFulfillment(f)
    <3>1. /\ order' = order /\ allocation' = allocation
          /\ shipment[f] \in {"PENDING", "PACKED"}
          /\ \E to \in {"PACKED", "SHIPPED", "CANCELLED"} :
               shipment' = [shipment EXCEPT ![f] = to]
      BY <2>2 DEF Pack, Ship, CancelFulfillment, AdvanceShipment, CancellableShipment
    <3> QED
      BY <1>0, <3>1, DeliveryUndisturbed DEF FulfillmentTypeOK, Live, ShipmentStatus
  <2>3. CASE Deliver(f)
    <3>1. /\ allocation' = allocation /\ shipment[f] # "NONE"
          /\ shipment' = [shipment EXCEPT ![f] = "DELIVERED"]
          /\ order' = order \/ order' = [order EXCEPT ![ShipmentOrder[f]] = "COMPLETED"]
      BY <2>3 DEF Deliver, AdvanceShipment, Transition
    <3>2. NoEmptyShipment'
      BY <1>0, <3>1 DEF DeliveryInv, NoEmptyShipment, FulfillmentTypeOK
    <3>3. DeliveryAgrees(ShipmentOrder[f])'
      BY <1>0, <2>3, DeliverDelivery
    <3>4. \A p \in Orders \ {ShipmentOrder[f]} : order'[p] = order[p]
      BY <1>0, <3>1
    <3> QED
      BY <1>0, <2>0, <3>1, <3>2, <3>3, <3>4, OneOrderDelivery DEF FulfillmentTypeOK
  <2> QED
    BY <1>3, <2>1, <2>2, <2>3 DEF ShipmentNext
<1>4. ASSUME NEW i \in Items, NEW k \in Requests, NEW d \in Deltas, AdjustStock(i, k, d)
      PROVE  DeliveryInv'
  BY <1>0, <1>4, DeliveryUndisturbed DEF AdjustStock, fulfillmentVars
<1>5. CASE UNCHANGED vars
  BY <1>0, <1>5, DeliveryUndisturbed DEF vars
<1> QED
  BY <1>1, <1>2, <1>3, <1>4, <1>5 DEF Next

(* However an order is split into shipments, and in whatever order these   *)
(* are packed, sent, cancelled and delivered, no line is sent twice and    *)
(* the order completes with its last delivery and not before.              *)
THEOREM CompletionCorrect == Spec => []CompletedMeansDelivered
<1>1. Init => DeliveryInv
  BY DeliveryInit
<1>2. TypeOK /\ TypeOK' /\ DeliveryInv /\ [Next]_vars => DeliveryInv'
  BY DeliveryStep
<1>3. TypeOK /\ DeliveryInv => CompletedMeansDelivered
  BY DeliveryInvCompletes DEF TypeOK
<1> QED
  BY <1>1, <1>2, <1>3, TypeCorrect, PTL DEF Spec

=================================================================================
