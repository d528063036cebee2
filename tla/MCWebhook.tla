------------------------------- MODULE MCWebhook -------------------------------
(* Constants of the runs of PaymentWebhook. *)
EXTENDS PaymentWebhook, TLC

CONSTANTS o1, i1, a1, f1, e1, e2, p1, p2, k1, k2, w1, w2

OneDemand == o1 :> (i1 :> 1)
OneInitial == i1 :> 1
OnePrice == a1 :> 1
OneAttemptOrder == a1 :> o1
OneShipmentOrder == f1 :> o1
OneQuantity == {i1 :> 1}
NoShipments == <<>>

(* The capture of a1 and the refund of all of it. *)
CaptureThenRefund ==
  e1 :> [attempt |-> a1, outcome |-> "CAPTURED", providerId |-> p1, amount |-> 0] @@
  e2 :> [attempt |-> a1, outcome |-> "REFUNDED", providerId |-> p2, amount |-> 1]

(* A report that a1 failed; the shop may have captured or cancelled it. *)
OneFailure == e1 :> [attempt |-> a1, outcome |-> "FAILED", providerId |-> p1, amount |-> 0]
OneKey == e1 :> k1

EventKeys == e1 :> k1 @@ e2 :> k2
===============================================================================
