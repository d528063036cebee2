------------------------------ MODULE MCCommerce ------------------------------
(* Constants of the runs of CommerceLifecycle. *)
EXTENDS CommerceRefinement, TLC

CONSTANTS o1, o2, i1, i2, a1, a2, f1, f2, f3

(* Two orders compete for i1, whose stock covers only one of them fully. *)
StockDemand == o1 :> (i1 :> 1 @@ i2 :> 1) @@ o2 :> (i1 :> 2 @@ i2 :> 0)
StockInitial == i1 :> 2 @@ i2 :> 1
StockDeltas == {-1, 1}
StockAttemptOrder == a1 :> o1 @@ a2 :> o2
UnitPrice == a1 :> 1 @@ a2 :> 1
NoShipments == <<>>

(* One order of two lines that splits over three shipments, and two attempts. *)
SplitDemand == o1 :> (i1 :> 2 @@ i2 :> 1)
SplitInitial == i1 :> 2 @@ i2 :> 1
SplitShipmentOrder == f1 :> o1 @@ f2 :> o1 @@ f3 :> o1
SplitQuantities == {i1 :> 1 @@ i2 :> 0, i1 :> 0 @@ i2 :> 1, i1 :> 1 @@ i2 :> 1, i1 :> 2 @@ i2 :> 1}
SplitAttemptOrder == a1 :> o1 @@ a2 :> o1
SplitPrice == a1 :> 3 @@ a2 :> 3
Alike == Permutations(Shipments) \cup Permutations(Attempts)
           \cup Permutations(PaymentKeys) \cup Permutations(ProviderIds)
==============================================================================
