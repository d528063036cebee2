---------------------------- MODULE MCShipmentReads ----------------------------
(* Constants of the run of ShipmentReads. *)
EXTENDS ShipmentReads, TLC

CONSTANTS o1, i1, a1, a2, f1, f2

TwoUnits == o1 :> (i1 :> 2)
TwoInStock == i1 :> 2
ForOrder == a1 :> o1 @@ a2 :> o1
OfOrder == f1 :> o1 @@ f2 :> o1
TwoPrice == a1 :> 2 @@ a2 :> 2
OneOrBoth == {i1 :> 1, i1 :> 2}

Alike == Permutations(Shipments) \cup Permutations(Attempts)
           \cup Permutations(PaymentKeys) \cup Permutations(ProviderIds)
           \cup Permutations(Handlers)
===============================================================================
