------------------------ MODULE CommerceLifecycleProofs ------------------------
(***************************************************************************)
(* Safety of CommerceLifecycle for every value of its constants.  Each      *)
(* invariant is proved inductive relative to those before it: TypeOK,      *)
(* ReservationsFollowOrder, MoneyFollowsOrder, then ShipmentsFunded and    *)
(* RestoredOnce, which rest on them.  What speaks of sums is proved in     *)
(* CommerceSumsProofs.                                                     *)
(***************************************************************************)
EXTENDS CommerceLifecycle, TLAPS

-----------------------------------------------------------------------------
(* Typing of the component operations. *)

(* Every key the operations write under is a movement key. *)
LEMMA KeysTyped ==
  ASSUME NEW o \in Orders
  PROVE  /\ ReserveKey(o) \in MovementKeys
         /\ \A k \in Requests : CancelKey(o, k) \in MovementKeys
         /\ \A k \in DueKeys : k \in MovementKeys /\ ExpireKey(o, k) \in MovementKeys
         /\ BatchKey(o) \in DueKeys
         /\ Requests \subseteq DueKeys
BY DEF MovementKeys, DueKeys

(* A row built from typed parts is a typed row. *)
LEMMA MovementTyped ==
  ASSUME NEW i \in Items, NEW k \in MovementKeys, NEW kind \in MovementKinds,
         NEW d \in Int, NEW o \in Orders \cup {NoOrder}
  PROVE  [item |-> i, key |-> k, kind |-> kind, delta |-> d, order |-> o] \in Movement
BY DEF Movement

LEMMA ReserveTyped ==
  ASSUME InventoryTypeOK, NEW o \in Orders, Reserve(o)
  PROVE  InventoryTypeOK'
<1> USE InventoryAssumption
<1>1. stock' \in [Items -> 0 .. MaxStock]
  <2>1. ASSUME NEW i \in Items
        PROVE  stock[i] - Demand[o][i] \in 0 .. MaxStock
    <3>1. stock[i] \in 0 .. MaxStock /\ Demand[o][i] \in Nat
      BY DEF InventoryTypeOK
    <3>2. stock[i] >= Demand[o][i]
      BY <3>1 DEF Reserve, LinesOf
    <3> QED
      BY <3>1, <3>2
  <2> QED
    BY <2>1 DEF Reserve
<1>2. reservation' \in [Orders -> [Items -> {"NONE"} \cup ReservationStatus]]
  BY DEF InventoryTypeOK, Reserve, ReservationStatus
<1>3. ledger' \in SUBSET Movement
  <2>1. ASSUME NEW i \in LinesOf(o)
        PROVE  [item |-> i, key |-> ReserveKey(o), kind |-> "RESERVATION",
                delta |-> -Demand[o][i], order |-> o] \in Movement
    BY KeysTyped, MovementTyped DEF LinesOf, MovementKinds
  <2> QED
    BY <2>1 DEF InventoryTypeOK, Reserve
<1> QED
  BY <1>1, <1>2, <1>3 DEF InventoryTypeOK

LEMMA ConsumeTyped ==
  ASSUME InventoryTypeOK, NEW o \in Orders, Consume(o)
  PROVE  InventoryTypeOK'
BY DEF InventoryTypeOK, Consume, ReservationStatus

LEMMA RestoreTyped ==
  ASSUME InventoryTypeOK, NEW o \in Orders, NEW L \in SUBSET LinesOf(o),
         NEW keyOf \in [Items -> MovementKeys], NEW to \in {"RELEASED", "EXPIRED"},
         Restore(o, L, keyOf, to)
  PROVE  InventoryTypeOK'
<1> USE InventoryAssumption
<1>0. L \subseteq Items
  BY DEF LinesOf
<1>1. stock' \in [Items -> 0 .. MaxStock]
  <2>1. ASSUME NEW i \in Items
        PROVE  (IF i \in L THEN stock[i] + Demand[o][i] ELSE stock[i]) \in 0 .. MaxStock
    <3>1. stock[i] \in 0 .. MaxStock /\ Demand[o][i] \in Nat
      BY DEF InventoryTypeOK
    <3>2. i \in L => stock[i] + Demand[o][i] <= MaxStock
      BY DEF Restore
    <3> QED
      BY <3>1, <3>2
  <2> QED
    BY <2>1 DEF Restore
<1>2. reservation' \in [Orders -> [Items -> {"NONE"} \cup ReservationStatus]]
  BY DEF InventoryTypeOK, Restore, ReservationStatus
<1>3. ledger' \in SUBSET Movement
  <2>1. ASSUME NEW i \in L
        PROVE  [item |-> i, key |-> keyOf[i], kind |-> RestoreKind(o, i, to),
                delta |-> Demand[o][i], order |-> o] \in Movement
    BY <1>0, MovementTyped DEF MovementKinds, RestoreKind
  <2> QED
    BY <2>1 DEF InventoryTypeOK, Restore
<1> QED
  BY <1>1, <1>2, <1>3 DEF InventoryTypeOK

LEMMA AdjustTyped ==
  ASSUME InventoryTypeOK, NEW i \in Items, NEW k \in Requests, NEW d \in Deltas,
         Adjust(i, k, d)
  PROVE  InventoryTypeOK'
<1> USE InventoryAssumption
<1>1. [item |-> i, key |-> k, kind |-> "ADJUSTMENT",
       delta |-> d, order |-> NoOrder] \in Movement
  BY MovementTyped DEF MovementKeys, MovementKinds
<1> QED
  BY <1>1 DEF InventoryTypeOK, Adjust

LEMMA OpenAttemptTyped ==
  ASSUME PaymentTypeOK, NEW a \in Attempts, OpenAttempt(a)
  PROVE  PaymentTypeOK'
BY DEF PaymentTypeOK, OpenAttempt, AttemptStatus

LEMMA TransactionTyped ==
  ASSUME NEW a \in Attempts, NEW type \in TransactionType,
         NEW st \in {"SUCCEEDED", "FAILED"}, NEW m \in Nat, NEW k \in PaymentKeys,
         NEW p \in ProviderIds \cup {NoProviderId}
  PROVE  [attempt |-> a, type |-> type, status |-> st, amount |-> m, key |-> k,
          providerId |-> p] \in Transaction
BY DEF Transaction

LEMMA CaptureAttemptTyped ==
  ASSUME PaymentTypeOK, NEW a \in Attempts, NEW k \in PaymentKeys,
         NEW p \in ProviderIds, CaptureAttempt(a, k, p)
  PROVE  PaymentTypeOK'
<1>1. [attempt |-> a, type |-> "CAPTURE", status |-> "SUCCEEDED",
       amount |-> Price[a], key |-> k, providerId |-> p] \in Transaction
  BY PaymentAssumption, TransactionTyped DEF TransactionType
<1> QED
  BY <1>1 DEF PaymentTypeOK, CaptureAttempt, AttemptStatus

LEMMA FailAttemptTyped ==
  ASSUME PaymentTypeOK, NEW a \in Attempts, NEW k \in PaymentKeys, FailAttempt(a, k)
  PROVE  PaymentTypeOK'
<1>1. [attempt |-> a, type |-> "AUTHORIZE", status |-> "FAILED",
       amount |-> Price[a], key |-> k, providerId |-> NoProviderId] \in Transaction
  BY PaymentAssumption, TransactionTyped DEF TransactionType
<1> QED
  BY <1>1 DEF PaymentTypeOK, FailAttempt, AttemptStatus

LEMMA RefundAttemptTyped ==
  ASSUME PaymentTypeOK, NEW a \in Attempts, NEW k \in PaymentKeys,
         NEW p \in ProviderIds, NEW amount \in RefundAmounts, NEW allowed,
         RefundAttempt(a, k, p, amount, allowed)
  PROVE  PaymentTypeOK'
<1>1. [attempt |-> a, type |-> "REFUND", status |-> "SUCCEEDED",
       amount |-> amount, key |-> k, providerId |-> p] \in Transaction
  BY PaymentAssumption, TransactionTyped DEF TransactionType
<1>2. txns' \in SUBSET Transaction
  BY <1>1 DEF PaymentTypeOK, RefundAttempt
<1>3. \E to \in {"REFUNDED", "PARTIALLY_REFUNDED"} : attempt' = [attempt EXCEPT ![a] = to]
  BY DEF RefundAttempt
<1> QED
  BY <1>2, <1>3 DEF PaymentTypeOK, AttemptStatus

LEMMA CancelAttemptsTyped ==
  ASSUME PaymentTypeOK, NEW S, CancelAttempts(S)
  PROVE  PaymentTypeOK'
BY DEF PaymentTypeOK, CancelAttempts, AttemptStatus

LEMMA CreateShipmentTyped ==
  ASSUME FulfillmentTypeOK, NEW f \in Shipments, NEW S, NEW q \in Quantities,
         NEW wanted, CreateShipment(f, S, q, wanted)
  PROVE  FulfillmentTypeOK'
BY FulfillmentAssumption DEF FulfillmentTypeOK, CreateShipment, ShipmentStatus

LEMMA AdvanceShipmentTyped ==
  ASSUME FulfillmentTypeOK, NEW f \in Shipments, NEW from, NEW to \in ShipmentStatus,
         AdvanceShipment(f, from, to)
  PROVE  FulfillmentTypeOK'
BY DEF FulfillmentTypeOK, AdvanceShipment, ShipmentStatus

LEMMA CancelShipmentsTyped ==
  ASSUME FulfillmentTypeOK, NEW S, CancelShipments(S)
  PROVE  FulfillmentTypeOK'
BY DEF FulfillmentTypeOK, CancelShipments, ShipmentStatus

-----------------------------------------------------------------------------
(* Typing of the use cases. *)

(* A status change leaves every order with a status. *)
LEMMA TransitionTyped ==
  ASSUME TypeOK, NEW o \in Orders, NEW to \in OrderStatus, Transition(o, to)
  PROVE  order' \in [Orders -> {"NONE"} \cup OrderStatus]
BY DEF TypeOK, Transition

LEMMA InventoryUnchanged ==
  ASSUME InventoryTypeOK, UNCHANGED inventoryVars
  PROVE  InventoryTypeOK'
BY DEF InventoryTypeOK, inventoryVars

LEMMA PaymentUnchanged ==
  ASSUME PaymentTypeOK, UNCHANGED paymentVars
  PROVE  PaymentTypeOK'
BY DEF PaymentTypeOK, paymentVars

LEMMA FulfillmentUnchanged ==
  ASSUME FulfillmentTypeOK, UNCHANGED fulfillmentVars
  PROVE  FulfillmentTypeOK'
BY DEF FulfillmentTypeOK, fulfillmentVars

LEMMA CancelTyped ==
  ASSUME TypeOK, NEW o \in Orders, NEW k \in Requests, Cancel(o, k)
  PROVE  TypeOK'
<1>1. InventoryTypeOK'
  <2>1. [i \in Items |-> CancelKey(o, k)] \in [Items -> MovementKeys]
    BY KeysTyped
  <2>2. CancellableReservations(o) \in SUBSET LinesOf(o)
    BY DEF CancellableReservations, LinesIn
  <2> QED
    BY <2>1, <2>2, RestoreTyped DEF TypeOK, Cancel
<1>2. PaymentTypeOK' /\ FulfillmentTypeOK'
  BY CancelAttemptsTyped, CancelShipmentsTyped DEF TypeOK, Cancel
<1>3. order' \in [Orders -> {"NONE"} \cup OrderStatus]
  BY TransitionTyped DEF Cancel, OrderStatus
<1>4. closing' \in [Orders -> {NoClosing} \cup Closing] /\ lapsed' \in SUBSET Orders
  BY DEF TypeOK, Cancel, Closing
<1> QED
  BY <1>1, <1>2, <1>3, <1>4 DEF TypeOK

LEMMA ExpireTyped ==
  ASSUME TypeOK, NEW o \in Orders, NEW i \in LinesOf(o), NEW k \in DueKeys,
         ExpireOrder(o, i, k)
  PROVE  TypeOK'
<1>1. InventoryTypeOK'
  <2>1. [j \in Items |-> IF j = i THEN k ELSE ExpireKey(o, k)] \in [Items -> MovementKeys]
    BY KeysTyped
  <2>2. LinesIn(o, {"RESERVED"}) \in SUBSET LinesOf(o)
    BY DEF LinesIn
  <2> QED
    BY <2>1, <2>2, RestoreTyped DEF TypeOK, ExpireOrder
<1>2. PaymentTypeOK' /\ FulfillmentTypeOK'
  BY CancelAttemptsTyped, FulfillmentUnchanged DEF TypeOK, ExpireOrder
<1>3. order' \in [Orders -> {"NONE"} \cup OrderStatus]
  BY TransitionTyped DEF ExpireOrder, OrderStatus
<1>4. closing' \in [Orders -> {NoClosing} \cup Closing] /\ lapsed' \in SUBSET Orders
  BY DEF TypeOK, ExpireOrder, Closing
<1> QED
  BY <1>1, <1>2, <1>3, <1>4 DEF TypeOK

LEMMA OrderStepTyped ==
  ASSUME TypeOK, NEW o \in Orders, OrderNext(o)
  PROVE  TypeOK'
<1>1. CASE Place(o)
  <2>1. InventoryTypeOK'
    BY <1>1, ReserveTyped DEF TypeOK, Place
  <2>2. PaymentTypeOK' /\ FulfillmentTypeOK'
    BY <1>1, PaymentUnchanged, FulfillmentUnchanged DEF TypeOK, Place
  <2> QED
    BY <1>1, <2>1, <2>2 DEF TypeOK, Place, OrderStatus
<1>2. CASE Lapse(o)
  <2>1. InventoryTypeOK' /\ PaymentTypeOK' /\ FulfillmentTypeOK'
    BY <1>2, InventoryUnchanged, PaymentUnchanged, FulfillmentUnchanged DEF TypeOK, Lapse
  <2> QED
    BY <1>2, <2>1 DEF TypeOK, Lapse
<1>3. CASE \E k \in Requests : Cancel(o, k)
  BY <1>3, CancelTyped
<1>4. CASE \E i \in Items, k \in Requests : ExpireByAdmin(o, i, k)
  <2>1. PICK i \in Items, k \in Requests : ExpireByAdmin(o, i, k)
    BY <1>4
  <2>2. ExpireOrder(o, i, k) /\ i \in LinesOf(o) /\ k \in DueKeys
    BY <2>1, KeysTyped DEF ExpireByAdmin, ExpireOrder
  <2> QED
    BY <2>2, ExpireTyped
<1>5. CASE ExpireByBatch(o)
  BY <1>5, KeysTyped, ExpireTyped DEF ExpireByBatch
<1> QED
  BY <1>1, <1>2, <1>3, <1>4, <1>5 DEF OrderNext

LEMMA AttemptStepTyped ==
  ASSUME TypeOK, NEW a \in Attempts, AttemptNext(a)
  PROVE  TypeOK'
<1>0. AttemptOrder[a] \in Orders
  BY CommerceAssumption
<1>1. CASE CreateAttempt(a)
  <2>1. InventoryTypeOK' /\ PaymentTypeOK' /\ FulfillmentTypeOK'
    BY <1>1, InventoryUnchanged, OpenAttemptTyped, FulfillmentUnchanged
    DEF TypeOK, CreateAttempt
  <2> QED
    BY <1>1, <2>1 DEF TypeOK, CreateAttempt
<1>2. ASSUME NEW k \in PaymentKeys, Fail(a, k)
      PROVE  TypeOK'
  <2>1. InventoryTypeOK' /\ PaymentTypeOK' /\ FulfillmentTypeOK'
    BY <1>2, InventoryUnchanged, FailAttemptTyped, FulfillmentUnchanged DEF TypeOK, Fail
  <2> QED
    BY <1>2, <2>1 DEF TypeOK, Fail
<1>3. ASSUME NEW k \in PaymentKeys, NEW p \in ProviderIds, Capture(a, k, p)
      PROVE  TypeOK'
  <2>1. InventoryTypeOK'
    BY <1>0, <1>3, ConsumeTyped DEF TypeOK, Capture
  <2>2. PaymentTypeOK' /\ FulfillmentTypeOK'
    BY <1>3, CaptureAttemptTyped, FulfillmentUnchanged DEF TypeOK, Capture
  <2>3. order' \in [Orders -> {"NONE"} \cup OrderStatus]
    BY <1>0, <1>3, TransitionTyped DEF Capture, OrderStatus
  <2> QED
    BY <1>3, <2>1, <2>2, <2>3 DEF TypeOK, Capture
<1>4. ASSUME NEW k \in PaymentKeys, NEW p \in ProviderIds, NEW amount \in RefundAmounts,
             Refund(a, k, p, amount)
      PROVE  TypeOK'
  <2>1. InventoryTypeOK' /\ PaymentTypeOK' /\ FulfillmentTypeOK'
    BY <1>4, InventoryUnchanged, RefundAttemptTyped, FulfillmentUnchanged DEF TypeOK, Refund
  <2> QED
    BY <1>4, <2>1 DEF TypeOK, Refund
<1> QED
  BY <1>1, <1>2, <1>3, <1>4 DEF AttemptNext

LEMMA ShipmentStepTyped ==
  ASSUME TypeOK, NEW f \in Shipments, ShipmentNext(f)
  PROVE  TypeOK'
<1>0. ShipmentOrder[f] \in Orders
  BY CommerceAssumption
<1>1. ASSUME NEW q \in Quantities, CreateFulfillment(f, q)
      PROVE  TypeOK'
  <2>1. InventoryTypeOK' /\ PaymentTypeOK' /\ FulfillmentTypeOK'
    BY <1>1, InventoryUnchanged, PaymentUnchanged, CreateShipmentTyped
    DEF TypeOK, CreateFulfillment
  <2> QED
    BY <1>1, <2>1 DEF TypeOK, CreateFulfillment
<1>2. CASE Pack(f) \/ Ship(f) \/ CancelFulfillment(f)
  <2>1. InventoryTypeOK' /\ PaymentTypeOK'
    BY <1>2, InventoryUnchanged, PaymentUnchanged DEF TypeOK, Pack, Ship, CancelFulfillment
  <2>2. \E to \in ShipmentStatus, from \in SUBSET ShipmentStatus : AdvanceShipment(f, from, to)
    BY <1>2 DEF Pack, Ship, CancelFulfillment, ShipmentStatus, CancellableShipment
  <2>3. FulfillmentTypeOK'
    BY <2>2, AdvanceShipmentTyped DEF TypeOK
  <2> QED
    BY <1>2, <2>1, <2>3 DEF TypeOK, Pack, Ship, CancelFulfillment
<1>3. CASE Deliver(f)
  <2>1. InventoryTypeOK' /\ PaymentTypeOK'
    BY <1>3, InventoryUnchanged, PaymentUnchanged DEF TypeOK, Deliver
  <2>2. FulfillmentTypeOK'
    BY <1>3, AdvanceShipmentTyped DEF TypeOK, Deliver, ShipmentStatus
  <2>3. order' \in [Orders -> {"NONE"} \cup OrderStatus]
    BY <1>0, <1>3, TransitionTyped DEF TypeOK, Deliver, OrderStatus
  <2> QED
    BY <1>3, <2>1, <2>2, <2>3 DEF TypeOK, Deliver
<1> QED
  BY <1>1, <1>2, <1>3 DEF ShipmentNext

LEMMA AdjustStepTyped ==
  ASSUME TypeOK, NEW i \in Items, NEW k \in Requests, NEW d \in Deltas,
         AdjustStock(i, k, d)
  PROVE  TypeOK'
<1>1. InventoryTypeOK' /\ PaymentTypeOK' /\ FulfillmentTypeOK'
  BY AdjustTyped, PaymentUnchanged, FulfillmentUnchanged DEF TypeOK, AdjustStock
<1> QED
  BY <1>1 DEF TypeOK, AdjustStock

LEMMA InitTyped == Init => TypeOK
BY InventoryAssumption
DEF Init, TypeOK, InventoryInit, InventoryTypeOK, PaymentInit, PaymentTypeOK,
    FulfillmentInit, FulfillmentTypeOK, Nothing

LEMMA StepTyped ==
  ASSUME TypeOK, [Next]_vars
  PROVE  TypeOK'
<1>1. CASE Next
  BY <1>1, OrderStepTyped, AttemptStepTyped, ShipmentStepTyped, AdjustStepTyped DEF Next
<1>2. CASE UNCHANGED vars
  <2>1. InventoryTypeOK' /\ PaymentTypeOK' /\ FulfillmentTypeOK'
    BY <1>2, InventoryUnchanged, PaymentUnchanged, FulfillmentUnchanged
    DEF TypeOK, vars, inventoryVars, paymentVars, fulfillmentVars
  <2> QED
    BY <1>2, <2>1 DEF TypeOK, vars
<1> QED
  BY <1>1, <1>2

(* The state always has its type: stock never becomes negative (an item is *)
(* never oversold) and never leaves the column's range, whatever orders    *)
(* race for it (inventory.service.ts 81-141, 438-444).                     *)
THEOREM TypeCorrect == Spec => []TypeOK
<1>1. Init => TypeOK
  BY InitTyped
<1>2. TypeOK /\ [Next]_vars => TypeOK'
  BY StepTyped
<1> QED
  BY <1>1, <1>2, PTL DEF Spec

-----------------------------------------------------------------------------
(* Reservations follow the order. *)

(* A step that keeps the three parts the invariant relates keeps it. *)
LEMMA ReservationsKept ==
  ASSUME ReservationsFollowOrder, UNCHANGED <<order, reservation, closing>>
  PROVE  ReservationsFollowOrder'
BY DEF ReservationsFollowOrder, LinesOf

(* What the invariant says of one order. *)
ReservationsAgree(o) ==
  \A i \in LinesOf(o) :
    /\ order[o] = "NONE" <=> reservation[o][i] = "NONE"
    /\ order[o] = "PENDING" <=> reservation[o][i] = "RESERVED"
    /\ order[o] \in {"CONFIRMED", "COMPLETED"} <=> reservation[o][i] = "CONSUMED"
    /\ order[o] = "CANCELLED" =>
         reservation[o][i] = IF closing[o].reason = "EXPIRY" THEN "EXPIRED" ELSE "RELEASED"

(* A step on one order need only be looked at for that order. *)
LEMMA OneOrderReservations ==
  ASSUME ReservationsFollowOrder, NEW o \in Orders, ReservationsAgree(o)',
         \A p \in Orders \ {o} : /\ order'[p] = order[p]
                                 /\ reservation'[p] = reservation[p]
                                 /\ closing'[p] = closing[p]
  PROVE  ReservationsFollowOrder'
BY DEF ReservationsFollowOrder, ReservationsAgree, LinesOf

LEMMA CancelReservations ==
  ASSUME TypeOK, ReservationsFollowOrder, NEW o \in Orders, NEW k \in Requests, Cancel(o, k)
  PROVE  /\ CancellableReservations(o) = LinesOf(o)
         /\ ReservationsFollowOrder'
<1>1. CancellableReservations(o) = LinesOf(o)
  BY DEF ReservationsFollowOrder, Cancel, MayCancel, CancellableReservations, LinesIn
<1>2. /\ order' = [order EXCEPT ![o] = "CANCELLED"]
      /\ closing' = [closing EXCEPT ![o] = [reason |-> "MEMBER", key |-> k]]
      /\ reservation' = [reservation EXCEPT ![o] =
           [i \in Items |-> IF i \in LinesOf(o) THEN "RELEASED" ELSE reservation[o][i]]]
  BY <1>1 DEF Cancel, Transition, Restore
<1>3. order'[o] = "CANCELLED" /\ closing'[o].reason = "MEMBER"
  BY <1>2 DEF TypeOK
<1>4. \A i \in LinesOf(o) : reservation'[o][i] = "RELEASED"
  BY <1>2 DEF TypeOK, InventoryTypeOK, LinesOf
<1>5. ReservationsAgree(o)'
  BY <1>3, <1>4 DEF ReservationsAgree, LinesOf
<1>6. \A p \in Orders \ {o} : /\ order'[p] = order[p]
                              /\ reservation'[p] = reservation[p]
                              /\ closing'[p] = closing[p]
  BY <1>2 DEF TypeOK, InventoryTypeOK
<1> QED
  BY <1>1, <1>5, <1>6, OneOrderReservations

LEMMA ExpireReservations ==
  ASSUME TypeOK, ReservationsFollowOrder, NEW o \in Orders, NEW i \in LinesOf(o),
         NEW k \in DueKeys, ExpireOrder(o, i, k)
  PROVE  /\ LinesIn(o, {"RESERVED"}) = LinesOf(o)
         /\ ReservationsFollowOrder'
<1>1. LinesIn(o, {"RESERVED"}) = LinesOf(o)
  BY DEF ReservationsFollowOrder, ExpireOrder, LinesIn
<1>2. /\ order' = [order EXCEPT ![o] = "CANCELLED"]
      /\ closing' = [closing EXCEPT ![o] = [reason |-> "EXPIRY", key |-> k]]
      /\ reservation' = [reservation EXCEPT ![o] =
           [j \in Items |-> IF j \in LinesOf(o) THEN "EXPIRED" ELSE reservation[o][j]]]
  BY <1>1 DEF ExpireOrder, Transition, Restore
<1>3. order'[o] = "CANCELLED" /\ closing'[o].reason = "EXPIRY"
  BY <1>2 DEF TypeOK
<1>4. \A j \in LinesOf(o) : reservation'[o][j] = "EXPIRED"
  BY <1>2 DEF TypeOK, InventoryTypeOK, LinesOf
<1>5. ReservationsAgree(o)'
  BY <1>3, <1>4 DEF ReservationsAgree, LinesOf
<1>6. \A p \in Orders \ {o} : /\ order'[p] = order[p]
                              /\ reservation'[p] = reservation[p]
                              /\ closing'[p] = closing[p]
  BY <1>2 DEF TypeOK, InventoryTypeOK
<1> QED
  BY <1>1, <1>5, <1>6, OneOrderReservations

LEMMA PlaceReservations ==
  ASSUME TypeOK, ReservationsFollowOrder, NEW o \in Orders, Place(o)
  PROVE  ReservationsFollowOrder'
<1>1. order'[o] = "PENDING" /\ \A i \in LinesOf(o) : reservation'[o][i] = "RESERVED"
  BY DEF Place, Reserve, TypeOK, InventoryTypeOK, LinesOf
<1>2. ReservationsAgree(o)'
  BY <1>1 DEF ReservationsAgree, LinesOf
<1>3. \A p \in Orders \ {o} : /\ order'[p] = order[p]
                              /\ reservation'[p] = reservation[p]
                              /\ closing'[p] = closing[p]
  BY DEF Place, Reserve, TypeOK, InventoryTypeOK
<1> QED
  BY <1>2, <1>3, OneOrderReservations

LEMMA CaptureReservations ==
  ASSUME TypeOK, ReservationsFollowOrder, NEW a \in Attempts, NEW k \in PaymentKeys,
         NEW p \in ProviderIds, Capture(a, k, p)
  PROVE  ReservationsFollowOrder'
<1> DEFINE o == AttemptOrder[a]
<1>0. o \in Orders
  BY CommerceAssumption
<1>1. /\ order' = [order EXCEPT ![o] = "CONFIRMED"]
      /\ reservation' = [reservation EXCEPT ![o] =
           [i \in Items |-> IF i \in LinesOf(o) THEN "CONSUMED" ELSE "NONE"]]
      /\ closing' = closing
  BY DEF Capture, Consume, Transition
<1>2. order'[o] = "CONFIRMED" /\ \A i \in LinesOf(o) : reservation'[o][i] = "CONSUMED"
  BY <1>0, <1>1 DEF TypeOK, InventoryTypeOK, LinesOf
<1>3. ReservationsAgree(o)'
  BY <1>2 DEF ReservationsAgree, LinesOf
<1>4. \A q \in Orders \ {o} : /\ order'[q] = order[q]
                              /\ reservation'[q] = reservation[q]
                              /\ closing'[q] = closing[q]
  BY <1>0, <1>1 DEF TypeOK, InventoryTypeOK
<1> QED
  BY <1>0, <1>3, <1>4, OneOrderReservations

LEMMA DeliverReservations ==
  ASSUME TypeOK, ReservationsFollowOrder, NEW f \in Shipments, Deliver(f)
  PROVE  ReservationsFollowOrder'
<1> DEFINE o == ShipmentOrder[f]
<1>0. o \in Orders /\ UNCHANGED <<reservation, closing>>
  BY CommerceAssumption DEF Deliver, inventoryVars
<1>1. CASE UNCHANGED order
  BY <1>0, <1>1, ReservationsKept
<1>2. CASE Transition(o, "COMPLETED")
  <2>1. order[o] = "CONFIRMED" /\ order' = [order EXCEPT ![o] = "COMPLETED"]
    BY <1>2 DEF Transition, AllowedTransitions
  <2>2. order'[o] = "COMPLETED"
    BY <1>0, <2>1 DEF TypeOK
  <2>3. ReservationsAgree(o)'
    BY <1>0, <2>1, <2>2 DEF ReservationsAgree, ReservationsFollowOrder, LinesOf
  <2>4. \A p \in Orders \ {o} : order'[p] = order[p]
    BY <2>1 DEF TypeOK
  <2> QED
    BY <1>0, <2>3, <2>4, OneOrderReservations
<1> QED
  BY <1>1, <1>2 DEF Deliver

LEMMA ReservationsStep ==
  ASSUME TypeOK, ReservationsFollowOrder, [Next]_vars
  PROVE  ReservationsFollowOrder'
<1>1. ASSUME NEW o \in Orders, OrderNext(o)
      PROVE  ReservationsFollowOrder'
  <2>1. CASE Place(o)
    BY <2>1, PlaceReservations
  <2>2. CASE Lapse(o)
    BY <2>2, ReservationsKept DEF Lapse, inventoryVars
  <2>3. CASE \E k \in Requests : Cancel(o, k)
    BY <2>3, CancelReservations
  <2>4. CASE \E i \in Items, k \in Requests : ExpireByAdmin(o, i, k)
    <3>1. PICK i \in Items, k \in Requests : ExpireByAdmin(o, i, k)
      BY <2>4
    <3>2. ExpireOrder(o, i, k) /\ i \in LinesOf(o) /\ k \in DueKeys
      BY <3>1, KeysTyped DEF ExpireByAdmin, ExpireOrder
    <3> QED
      BY <3>2, ExpireReservations
  <2>5. CASE ExpireByBatch(o)
    BY <2>5, KeysTyped, ExpireReservations DEF ExpireByBatch
  <2> QED
    BY <1>1, <2>1, <2>2, <2>3, <2>4, <2>5 DEF OrderNext
<1>2. ASSUME NEW a \in Attempts, AttemptNext(a)
      PROVE  ReservationsFollowOrder'
  <2>1. CASE \E k \in PaymentKeys, p \in ProviderIds : Capture(a, k, p)
    BY <2>1, CaptureReservations
  <2>2. CASE UNCHANGED <<order, closing, inventoryVars>>
    BY <2>2, ReservationsKept DEF inventoryVars
  <2> QED
    BY <1>2, <2>1, <2>2 DEF AttemptNext, CreateAttempt, Fail, Refund
<1>3. ASSUME NEW f \in Shipments, ShipmentNext(f)
      PROVE  ReservationsFollowOrder'
  <2>1. CASE Deliver(f)
    BY <2>1, DeliverReservations
  <2>2. CASE UNCHANGED <<order, closing, inventoryVars>>
    BY <2>2, ReservationsKept DEF inventoryVars
  <2> QED
    BY <1>3, <2>1, <2>2 DEF ShipmentNext, CreateFulfillment, Pack, Ship, CancelFulfillment
<1>4. ASSUME NEW i \in Items, NEW k \in Requests, NEW d \in Deltas, AdjustStock(i, k, d)
      PROVE  ReservationsFollowOrder'
  BY <1>4, ReservationsKept DEF AdjustStock, Adjust
<1>5. CASE UNCHANGED vars
  BY <1>5, ReservationsKept DEF vars
<1> QED
  BY <1>1, <1>2, <1>3, <1>4, <1>5 DEF Next

(* No interleaving of payment, cancellation, expiry and delivery leaves an *)
(* order and its reservations in states that disagree, for any number of   *)
(* orders, lines, attempts and shipments.                                  *)
THEOREM ReservationsCorrect == Spec => []ReservationsFollowOrder
<1>1. Init => ReservationsFollowOrder
  BY DEF Init, InventoryInit, ReservationsFollowOrder, LinesOf
<1>2. TypeOK /\ ReservationsFollowOrder /\ [Next]_vars => ReservationsFollowOrder'
  BY ReservationsStep
<1> QED
  BY <1>1, <1>2, TypeCorrect, PTL DEF Spec

-----------------------------------------------------------------------------
(* The three ways an order can be stepped, with the request made explicit. *)
LEMMA OrderSteps ==
  ASSUME NEW o \in Orders, OrderNext(o)
  PROVE  \/ Place(o)
         \/ Lapse(o)
         \/ \E k \in Requests : Cancel(o, k)
         \/ \E i \in LinesOf(o), k \in DueKeys : ExpireOrder(o, i, k)
<1>1. CASE \E i \in Items, k \in Requests : ExpireByAdmin(o, i, k)
  <2>1. PICK i \in Items, k \in Requests : ExpireByAdmin(o, i, k)
    BY <1>1
  <2>2. ExpireOrder(o, i, k) /\ i \in LinesOf(o) /\ k \in DueKeys
    BY <2>1, KeysTyped DEF ExpireByAdmin, ExpireOrder
  <2> QED
    BY <2>2
<1>2. CASE ExpireByBatch(o)
  BY <1>2, KeysTyped DEF ExpireByBatch
<1> QED
  BY <1>1, <1>2 DEF OrderNext

-----------------------------------------------------------------------------
(* Money follows the order. *)

CapturedOf(o) == {a \in AttemptsOf(o) : attempt[a] \in Refundable}

(* What the invariant says of one order. *)
MoneyAgrees(o) ==
  /\ \A a, b \in CapturedOf(o) : a = b
  /\ order[o] \in {"CONFIRMED", "COMPLETED"} => CapturedOf(o) # {}
  /\ order[o] \in {"NONE", "PENDING"} => CapturedOf(o) = {}
  /\ order[o] = "CANCELLED" =>
       \A a \in AttemptsOf(o) : attempt[a] \in {"NONE", "CANCELLED", "FAILED", "REFUNDED"}

LEMMA MoneyByOrder == MoneyFollowsOrder <=> \A o \in Orders : MoneyAgrees(o)
BY DEF MoneyFollowsOrder, MoneyAgrees, CapturedOf

LEMMA MoneyByOrderNext == MoneyFollowsOrder' <=> \A o \in Orders : MoneyAgrees(o)'
BY DEF MoneyFollowsOrder, MoneyAgrees, CapturedOf, AttemptsOf

(* An order whose status and attempts a step leaves alone still agrees. *)
LEMMA MoneyFrame ==
  ASSUME NEW o \in Orders, MoneyAgrees(o), order'[o] = order[o],
         \A a \in AttemptsOf(o) : attempt'[a] = attempt[a]
  PROVE  MoneyAgrees(o)'
BY DEF MoneyAgrees, CapturedOf, AttemptsOf

LEMMA MoneyKept ==
  ASSUME MoneyFollowsOrder, UNCHANGED <<order, attempt>>
  PROVE  MoneyFollowsOrder'
BY MoneyByOrder, MoneyByOrderNext, MoneyFrame

(* Only the order a step is about needs a look. *)
LEMMA OneOrderMoney ==
  ASSUME MoneyFollowsOrder, NEW o \in Orders, MoneyAgrees(o)',
         \A p \in Orders \ {o} : order'[p] = order[p],
         \A a \in Attempts : AttemptOrder[a] # o => attempt'[a] = attempt[a]
  PROVE  MoneyFollowsOrder'
<1>1. ASSUME NEW p \in Orders \ {o}
      PROVE  MoneyAgrees(p)'
  BY <1>1, MoneyByOrder, MoneyFrame DEF AttemptsOf
<1> QED
  BY <1>1, MoneyByOrderNext

(* Closing an order, by member or by expiry, that no captured money is on. *)
LEMMA ClosingMoney ==
  ASSUME TypeOK, MoneyFollowsOrder, NEW o \in Orders,
         order' = [order EXCEPT ![o] = "CANCELLED"], CancelAttempts(AttemptsOf(o)),
         \A a \in AttemptsOf(o) :
           attempt[a] \in Cancellable \cup {"NONE", "CANCELLED", "FAILED", "REFUNDED"}
  PROVE  MoneyFollowsOrder'
<1>1. \A a \in AttemptsOf(o) :
        /\ attempt'[a] \in {"NONE", "CANCELLED", "FAILED", "REFUNDED"}
        /\ attempt'[a] \in Refundable <=> attempt[a] \in Refundable
  BY DEF CancelAttempts, AttemptsOf, Cancellable, Refundable
<1>2. CapturedOf(o)' = CapturedOf(o)
  BY <1>1 DEF CapturedOf, AttemptsOf
<1>3. order'[o] = "CANCELLED" /\ \A p \in Orders \ {o} : order'[p] = order[p]
  BY DEF TypeOK
<1>4. MoneyAgrees(o)'
  BY <1>1, <1>2, <1>3, MoneyByOrder DEF MoneyAgrees, AttemptsOf
<1>5. \A a \in Attempts : AttemptOrder[a] # o => attempt'[a] = attempt[a]
  BY DEF CancelAttempts, AttemptsOf
<1> QED
  BY <1>3, <1>4, <1>5, OneOrderMoney

LEMMA CancelMoney ==
  ASSUME TypeOK, MoneyFollowsOrder, NEW o \in Orders, NEW k \in Requests, Cancel(o, k)
  PROVE  MoneyFollowsOrder'
<1>1. \A a \in AttemptsOf(o) :
        attempt[a] \in Cancellable \cup {"NONE", "CANCELLED", "FAILED", "REFUNDED"}
  BY DEF Cancel, MayCancel, HasUnrefundedCapture, Funded, Cancellable, TypeOK,
         PaymentTypeOK, AttemptStatus, AttemptsOf
<1> QED
  BY <1>1, ClosingMoney DEF Cancel, Transition

LEMMA ExpireMoney ==
  ASSUME TypeOK, MoneyFollowsOrder, NEW o \in Orders, NEW i \in LinesOf(o),
         NEW k \in DueKeys, ExpireOrder(o, i, k)
  PROVE  MoneyFollowsOrder'
BY ClosingMoney DEF ExpireOrder, Transition

LEMMA PlaceMoney ==
  ASSUME TypeOK, MoneyFollowsOrder, NEW o \in Orders, Place(o)
  PROVE  MoneyFollowsOrder'
<1>1. /\ order[o] = "NONE" /\ order'[o] = "PENDING" /\ UNCHANGED attempt
      /\ \A p \in Orders \ {o} : order'[p] = order[p]
  BY DEF Place, TypeOK, paymentVars
<1>2. MoneyAgrees(o)'
  BY <1>1, MoneyByOrder DEF MoneyAgrees, CapturedOf, AttemptsOf
<1> QED
  BY <1>1, <1>2, OneOrderMoney

(* A step of one attempt: what it may become, by what its order is. *)
LEMMA AttemptMoney ==
  ASSUME TypeOK, MoneyFollowsOrder, NEW a \in Attempts, AttemptNext(a)
  PROVE  MoneyFollowsOrder'
<1> DEFINE o == AttemptOrder[a]
<1>0. o \in Orders /\ a \in AttemptsOf(o)
  BY CommerceAssumption DEF AttemptsOf
<1>1. MoneyAgrees(o)
  BY <1>0, MoneyByOrder
<1>2. CASE CreateAttempt(a)
  <2>1. /\ order' = order /\ order[o] = "PENDING"
        /\ attempt' = [attempt EXCEPT ![a] = "PENDING"] /\ attempt[a] = "NONE"
    BY <1>2 DEF CreateAttempt, OpenAttempt
  <2>2. CapturedOf(o)' = CapturedOf(o)
    BY <2>1 DEF CapturedOf, AttemptsOf, Refundable, TypeOK, PaymentTypeOK
  <2>3. MoneyAgrees(o)'
    BY <1>1, <2>1, <2>2 DEF MoneyAgrees, AttemptsOf
  <2> QED
    BY <1>0, <2>1, <2>3, OneOrderMoney DEF TypeOK, PaymentTypeOK
<1>3. CASE \E k \in PaymentKeys : Fail(a, k)
  <2>1. /\ order' = order
        /\ attempt' = [attempt EXCEPT ![a] = "FAILED"] /\ attempt[a] \in Failable
    BY <1>3 DEF Fail, FailAttempt
  <2>2. CapturedOf(o)' = CapturedOf(o)
    BY <2>1 DEF CapturedOf, AttemptsOf, Refundable, Failable, TypeOK, PaymentTypeOK
  <2>3. MoneyAgrees(o)'
    BY <1>1, <2>1, <2>2 DEF MoneyAgrees, AttemptsOf, TypeOK, PaymentTypeOK
  <2> QED
    BY <1>0, <2>1, <2>3, OneOrderMoney DEF TypeOK, PaymentTypeOK
<1>4. CASE \E k \in PaymentKeys, p \in ProviderIds : Capture(a, k, p)
  <2>1. /\ order[o] = "PENDING" /\ order' = [order EXCEPT ![o] = "CONFIRMED"]
        /\ attempt' = [attempt EXCEPT ![a] = "CAPTURED"]
    BY <1>4 DEF Capture, CaptureAttempt, Transition
  <2>2. CapturedOf(o) = {}
    BY <1>1, <2>1 DEF MoneyAgrees
  <2>3. CapturedOf(o)' = {a}
    BY <1>0, <2>1, <2>2 DEF CapturedOf, AttemptsOf, Refundable, TypeOK, PaymentTypeOK
  <2>4. order'[o] = "CONFIRMED"
    BY <1>0, <2>1 DEF TypeOK
  <2>5. MoneyAgrees(o)'
    BY <2>3, <2>4 DEF MoneyAgrees
  <2> QED
    BY <1>0, <2>1, <2>5, OneOrderMoney DEF TypeOK, PaymentTypeOK
<1>5. CASE \E k \in PaymentKeys, p \in ProviderIds, m \in RefundAmounts : Refund(a, k, p, m)
  <2>1. /\ order' = order
        /\ attempt[a] \in Refundable
        /\ \E to \in {"REFUNDED", "PARTIALLY_REFUNDED"} :
             /\ attempt' = [attempt EXCEPT ![a] = to]
             /\ attempt[a] = "REFUNDED" => to = "REFUNDED"
    BY <1>5 DEF Refund, RefundAttempt
  <2>2. CapturedOf(o)' = CapturedOf(o)
    BY <2>1 DEF CapturedOf, AttemptsOf, Refundable, TypeOK, PaymentTypeOK
  <2>3. order[o] = "CANCELLED" => attempt[a] = "REFUNDED"
    BY <1>0, <1>1, <2>1 DEF MoneyAgrees, Refundable
  <2>4. MoneyAgrees(o)'
    BY <1>1, <2>1, <2>2, <2>3 DEF MoneyAgrees, AttemptsOf, TypeOK, PaymentTypeOK
  <2> QED
    BY <1>0, <2>1, <2>4, OneOrderMoney DEF TypeOK, PaymentTypeOK
<1> QED
  BY <1>2, <1>3, <1>4, <1>5 DEF AttemptNext

LEMMA DeliverMoney ==
  ASSUME TypeOK, MoneyFollowsOrder, NEW f \in Shipments, Deliver(f)
  PROVE  MoneyFollowsOrder'
<1> DEFINE o == ShipmentOrder[f]
<1>0. o \in Orders /\ UNCHANGED attempt
  BY CommerceAssumption DEF Deliver, paymentVars
<1>1. CASE UNCHANGED order
  BY <1>0, <1>1, MoneyKept
<1>2. CASE Transition(o, "COMPLETED")
  <2>1. /\ order[o] = "CONFIRMED" /\ order'[o] = "COMPLETED"
        /\ \A p \in Orders \ {o} : order'[p] = order[p]
    BY <1>0, <1>2 DEF Transition, AllowedTransitions, TypeOK
  <2>2. MoneyAgrees(o)'
    BY <1>0, <2>1, MoneyByOrder DEF MoneyAgrees, CapturedOf, AttemptsOf
  <2> QED
    BY <1>0, <2>1, <2>2, OneOrderMoney
<1> QED
  BY <1>1, <1>2 DEF Deliver

LEMMA MoneyStep ==
  ASSUME TypeOK, MoneyFollowsOrder, [Next]_vars
  PROVE  MoneyFollowsOrder'
<1>1. ASSUME NEW o \in Orders, OrderNext(o)
      PROVE  MoneyFollowsOrder'
  <2>1. Lapse(o) => UNCHANGED <<order, attempt>>
    BY DEF Lapse, paymentVars
  <2> QED
    BY <1>1, <2>1, OrderSteps, PlaceMoney, MoneyKept, CancelMoney, ExpireMoney
<1>2. ASSUME NEW a \in Attempts, AttemptNext(a)
      PROVE  MoneyFollowsOrder'
  BY <1>2, AttemptMoney
<1>3. ASSUME NEW f \in Shipments, ShipmentNext(f)
      PROVE  MoneyFollowsOrder'
  <2>1. Deliver(f) \/ UNCHANGED <<order, attempt>>
    BY <1>3 DEF ShipmentNext, CreateFulfillment, Pack, Ship, CancelFulfillment, paymentVars
  <2> QED
    BY <2>1, DeliverMoney, MoneyKept
<1>4. ASSUME NEW i \in Items, NEW k \in Requests, NEW d \in Deltas, AdjustStock(i, k, d)
      PROVE  MoneyFollowsOrder'
  BY <1>4, MoneyKept DEF AdjustStock, paymentVars
<1>5. CASE UNCHANGED vars
  BY <1>5, MoneyKept DEF vars
<1> QED
  BY <1>1, <1>2, <1>3, <1>4, <1>5 DEF Next

(* No cancellation or expiry races past captured money, and no second      *)
(* capture past the first, for any number of attempts per order.           *)
THEOREM MoneyCorrect == Spec => []MoneyFollowsOrder
<1>1. Init => MoneyFollowsOrder
  BY DEF Init, PaymentInit, MoneyFollowsOrder, AttemptsOf, Refundable
<1>2. TypeOK /\ MoneyFollowsOrder /\ [Next]_vars => MoneyFollowsOrder'
  BY MoneyStep
<1> QED
  BY <1>1, <1>2, TypeCorrect, PTL DEF Spec

-----------------------------------------------------------------------------
(* Goods on their way are paid for. *)

Paid(o) == order[o] \in {"CONFIRMED", "COMPLETED"} /\ OrderFunded(o)

LEMMA ShipmentsFundedByShipment ==
  /\ ShipmentsFunded <=> \A f \in Shipments : shipment[f] \in InProgress => Paid(ShipmentOrder[f])
  /\ ShipmentsFunded' <=>
       \A f \in Shipments : shipment'[f] \in InProgress => Paid(ShipmentOrder[f])'
BY DEF ShipmentsFunded, Paid, OrderFunded, AttemptsOf

(* A paid order stays paid while its status and its attempts are kept. *)
LEMMA PaidKept ==
  ASSUME NEW o, Paid(o), order'[o] \in {"CONFIRMED", "COMPLETED"},
         \A a \in AttemptsOf(o) : attempt[a] \in Funded => attempt'[a] \in Funded
  PROVE  Paid(o)'
BY DEF Paid, OrderFunded, AttemptsOf

LEMMA FundedKept ==
  ASSUME ShipmentsFunded, UNCHANGED <<order, attempt, shipment>>
  PROVE  ShipmentsFunded'
BY ShipmentsFundedByShipment, PaidKept DEF Paid

(* A step that starts no shipment and leaves every order that has one in   *)
(* progress paid keeps the invariant.                                      *)
LEMMA FundedElsewhere ==
  ASSUME ShipmentsFunded,
         \A f \in Shipments :
           shipment'[f] \in InProgress =>
             /\ shipment[f] \in InProgress
             /\ order'[ShipmentOrder[f]] \in {"CONFIRMED", "COMPLETED"}
             /\ \A a \in AttemptsOf(ShipmentOrder[f]) :
                  attempt[a] \in Funded => attempt'[a] \in Funded
  PROVE  ShipmentsFunded'
BY ShipmentsFundedByShipment, PaidKept

(* Cancellation takes back what has not left and is refused by what has. *)
LEMMA CancelFunded ==
  ASSUME TypeOK, ShipmentsFunded, NEW o \in Orders, NEW k \in Requests, Cancel(o, k)
  PROVE  ShipmentsFunded'
<1>1. ASSUME NEW f \in Shipments, shipment'[f] \in InProgress
      PROVE  /\ shipment[f] \in InProgress /\ ShipmentOrder[f] # o
             /\ order[ShipmentOrder[f]] \in {"CONFIRMED", "COMPLETED"}
  BY <1>1 DEF Cancel, MayCancel, CancelShipments, ShipmentsOf, InProgress, Departed,
              CancellableShipment, ShipmentsFunded
<1>2. \A p \in Orders \ {o} : order'[p] = order[p]
  BY DEF Cancel, Transition, TypeOK
<1>3. \A a \in Attempts : attempt[a] \in Funded => attempt'[a] \in Funded
  BY DEF Cancel, CancelAttempts, Cancellable, Funded
<1> QED
  BY <1>1, <1>2, <1>3, CommerceAssumption, FundedElsewhere DEF AttemptsOf

(* An order that can expire or be placed has nothing on its way. *)
LEMMA ExpireFunded ==
  ASSUME TypeOK, ShipmentsFunded, NEW o \in Orders, NEW i \in LinesOf(o),
         NEW k \in DueKeys, ExpireOrder(o, i, k)
  PROVE  ShipmentsFunded'
<1>1. ASSUME NEW f \in Shipments, shipment'[f] \in InProgress
      PROVE  /\ shipment[f] \in InProgress /\ ShipmentOrder[f] # o
             /\ order[ShipmentOrder[f]] \in {"CONFIRMED", "COMPLETED"}
  BY <1>1 DEF ExpireOrder, fulfillmentVars, ShipmentsFunded
<1>2. \A p \in Orders \ {o} : order'[p] = order[p]
  BY DEF ExpireOrder, Transition, TypeOK
<1>3. \A a \in Attempts : attempt[a] \in Funded => attempt'[a] \in Funded
  BY DEF ExpireOrder, CancelAttempts, Cancellable, Funded
<1> QED
  BY <1>1, <1>2, <1>3, CommerceAssumption, FundedElsewhere DEF AttemptsOf

LEMMA PlaceFunded ==
  ASSUME TypeOK, ShipmentsFunded, NEW o \in Orders, Place(o)
  PROVE  ShipmentsFunded'
<1>1. \A f \in Shipments :
        shipment'[f] \in InProgress =>
          /\ shipment[f] \in InProgress
          /\ order'[ShipmentOrder[f]] \in {"CONFIRMED", "COMPLETED"}
  BY DEF Place, TypeOK, fulfillmentVars, ShipmentsFunded
<1>2. UNCHANGED attempt
  BY DEF Place, paymentVars
<1> QED
  BY <1>1, <1>2, FundedElsewhere

LEMMA AttemptFunded ==
  ASSUME TypeOK, ShipmentsFunded, NEW a \in Attempts, AttemptNext(a)
  PROVE  ShipmentsFunded'
<1> DEFINE o == AttemptOrder[a]
<1>0. UNCHANGED shipment
  BY DEF AttemptNext, CreateAttempt, Fail, Capture, Refund, fulfillmentVars
<1>1. CASE CreateAttempt(a) \/ \E k \in PaymentKeys : Fail(a, k)
  <2>1. order' = order /\ \A b \in Attempts : attempt[b] \in Funded => attempt'[b] \in Funded
    BY <1>1 DEF CreateAttempt, OpenAttempt, Fail, FailAttempt, Failable, Funded,
                TypeOK, PaymentTypeOK
  <2> QED
    BY <1>0, <2>1, FundedElsewhere DEF ShipmentsFunded, AttemptsOf
<1>2. CASE \E k \in PaymentKeys, p \in ProviderIds : Capture(a, k, p)
  <2>1. order[o] = "PENDING" /\ order' = [order EXCEPT ![o] = "CONFIRMED"]
    BY <1>2 DEF Capture, Transition
  <2>2. \A b \in Attempts : attempt[b] \in Funded => attempt'[b] \in Funded
    BY <1>2 DEF Capture, CaptureAttempt, Funded, TypeOK, PaymentTypeOK
  <2> QED
    BY <1>0, <2>1, <2>2, CommerceAssumption, FundedElsewhere
    DEF ShipmentsFunded, AttemptsOf, TypeOK
<1>3. CASE \E k \in PaymentKeys, p \in ProviderIds, m \in RefundAmounts : Refund(a, k, p, m)
  <2>1. /\ order' = order
        /\ attempt[a] \in Refundable
        /\ \/ ShipmentsIdle(o) /\ attempt' = [attempt EXCEPT ![a] = "REFUNDED"]
           \/ attempt[a] # "REFUNDED" /\ attempt' = [attempt EXCEPT ![a] = "PARTIALLY_REFUNDED"]
    BY <1>3 DEF Refund, RefundAttempt
  <2>2. CASE ShipmentsIdle(o) /\ attempt' = [attempt EXCEPT ![a] = "REFUNDED"]
    <3>1. \A f \in Shipments : shipment[f] \in InProgress => ShipmentOrder[f] # o
      BY <2>2 DEF ShipmentsIdle, ShipmentsOf
    <3> QED
      BY <1>0, <2>1, <2>2, <3>1, FundedElsewhere
      DEF ShipmentsFunded, AttemptsOf, TypeOK, PaymentTypeOK
  <2>3. CASE attempt[a] # "REFUNDED" /\ attempt' = [attempt EXCEPT ![a] = "PARTIALLY_REFUNDED"]
    BY <1>0, <2>1, <2>3, FundedElsewhere
    DEF ShipmentsFunded, AttemptsOf, Funded, TypeOK, PaymentTypeOK
  <2> QED
    BY <2>1, <2>2, <2>3
<1> QED
  BY <1>1, <1>2, <1>3 DEF AttemptNext

LEMMA ShipmentFunded ==
  ASSUME TypeOK, ShipmentsFunded, NEW f \in Shipments, ShipmentNext(f)
  PROVE  ShipmentsFunded'
<1> DEFINE o == ShipmentOrder[f]
<1>0. UNCHANGED attempt /\ o \in Orders
  BY CommerceAssumption
  DEF ShipmentNext, CreateFulfillment, Pack, Ship, Deliver, CancelFulfillment, paymentVars
<1>1. CASE \E q \in Quantities : CreateFulfillment(f, q)
  <2>1. /\ order' = order /\ Paid(o)
        /\ shipment' = [shipment EXCEPT ![f] = "PENDING"]
    BY <1>1 DEF CreateFulfillment, CreateShipment, Paid
  <2>2. Paid(o)'
    BY <1>0, <2>1, PaidKept DEF Paid
  <2>3. ASSUME NEW g \in Shipments, shipment'[g] \in InProgress
        PROVE  Paid(ShipmentOrder[g])'
    <3>1. CASE g = f
      BY <2>2, <3>1
    <3>2. CASE g # f
      <4>1. shipment[g] \in InProgress
        BY <2>1, <2>3, <3>2 DEF TypeOK, FulfillmentTypeOK
      <4>2. Paid(ShipmentOrder[g])
        BY <4>1, ShipmentsFundedByShipment
      <4> QED
        BY <1>0, <2>1, <4>2, PaidKept DEF Paid
    <3> QED
      BY <3>1, <3>2
  <2> QED
    BY <2>3, ShipmentsFundedByShipment
<1>2. CASE Pack(f) \/ Ship(f) \/ CancelFulfillment(f)
  <2>1. /\ order' = order /\ shipment[f] \in InProgress
        /\ \A g \in Shipments \ {f} : shipment'[g] = shipment[g]
    BY <1>2 DEF Pack, Ship, CancelFulfillment, AdvanceShipment, CancellableShipment,
                InProgress, TypeOK, FulfillmentTypeOK
  <2> QED
    BY <1>0, <2>1, FundedElsewhere DEF ShipmentsFunded
<1>3. CASE Deliver(f)
  <2>1. \A g \in Shipments : shipment'[g] \in InProgress => shipment[g] \in InProgress
    BY <1>3 DEF Deliver, AdvanceShipment, InProgress, TypeOK, FulfillmentTypeOK
  <2>2. \A p \in Orders : order[p] \in {"CONFIRMED", "COMPLETED"} =>
                         order'[p] \in {"CONFIRMED", "COMPLETED"}
    BY <1>3 DEF Deliver, Transition, TypeOK
  <2> QED
    BY <1>0, <2>1, <2>2, CommerceAssumption, FundedElsewhere DEF ShipmentsFunded
<1> QED
  BY <1>1, <1>2, <1>3 DEF ShipmentNext

LEMMA FundedStep ==
  ASSUME TypeOK, ShipmentsFunded, [Next]_vars
  PROVE  ShipmentsFunded'
<1>1. ASSUME NEW o \in Orders, OrderNext(o)
      PROVE  ShipmentsFunded'
  <2>1. Lapse(o) => UNCHANGED <<order, attempt, shipment>>
    BY DEF Lapse, paymentVars, fulfillmentVars
  <2> QED
    BY <1>1, <2>1, OrderSteps, PlaceFunded, FundedKept, CancelFunded, ExpireFunded
<1>2. ASSUME NEW a \in Attempts, AttemptNext(a)
      PROVE  ShipmentsFunded'
  BY <1>2, AttemptFunded
<1>3. ASSUME NEW f \in Shipments, ShipmentNext(f)
      PROVE  ShipmentsFunded'
  BY <1>3, ShipmentFunded
<1>4. ASSUME NEW i \in Items, NEW k \in Requests, NEW d \in Deltas, AdjustStock(i, k, d)
      PROVE  ShipmentsFunded'
  BY <1>4, FundedKept DEF AdjustStock, paymentVars, fulfillmentVars
<1>5. CASE UNCHANGED vars
  BY <1>5, FundedKept DEF vars
<1> QED
  BY <1>1, <1>2, <1>3, <1>4, <1>5 DEF Next

(* No full refund, no cancellation and no expiry gets past a shipment that *)
(* is being prepared or carried, for any number of shipments and attempts. *)
THEOREM ShipmentsFundedCorrect == Spec => []ShipmentsFunded
<1>1. Init => ShipmentsFunded
  BY DEF Init, FulfillmentInit, ShipmentsFunded, InProgress
<1>2. TypeOK /\ ShipmentsFunded /\ [Next]_vars => ShipmentsFunded'
  BY FundedStep
<1> QED
  BY <1>1, <1>2, TypeCorrect, PTL DEF Spec

-----------------------------------------------------------------------------
(* Reservations are given back once. *)

(* What the invariant says of one order. *)
RestoredOnceFor(o) ==
  \A i \in LinesOf(o) :
    IF order[o] # "CANCELLED"
      THEN RestoresOf(o, i) = {}
      ELSE \E m \in RestoresOf(o, i) :
             /\ RestoresOf(o, i) = {m}
             /\ m.delta = Demand[o][i]
             /\ m.key \in
                  IF closing[o].reason = "MEMBER"
                    THEN {CancelKey(o, closing[o].key)}
                    ELSE {closing[o].key, ExpireKey(o, closing[o].key)}

LEMMA RestoredOnceByOrder ==
  /\ RestoredOnce <=> \A o \in Orders : RestoredOnceFor(o)
  /\ RestoredOnce' <=> \A o \in Orders : RestoredOnceFor(o)'
BY DEF RestoredOnce, RestoredOnceFor, RestoresOf, LinesOf

LEMMA RestoredFrame ==
  ASSUME NEW o \in Orders, RestoredOnceFor(o), closing'[o] = closing[o],
         order[o] = "CANCELLED" <=> order'[o] = "CANCELLED",
         \A i \in Items : RestoresOf(o, i)' = RestoresOf(o, i)
  PROVE  RestoredOnceFor(o)'
BY DEF RestoredOnceFor, RestoresOf, LinesOf, CancelKey, ExpireKey

(* A step that closes no order and gives nothing back keeps the invariant. *)
LEMMA RestoredKept ==
  ASSUME RestoredOnce, UNCHANGED closing,
         \A o \in Orders : order[o] = "CANCELLED" <=> order'[o] = "CANCELLED",
         ledger \subseteq ledger',
         \A m \in ledger' \ ledger : m.order \notin Orders \/ m.kind = "RESERVATION"
  PROVE  RestoredOnce'
<1>1. \A o \in Orders : \A i \in Items : RestoresOf(o, i)' = RestoresOf(o, i)
  BY DEF RestoresOf
<1> QED
  BY <1>1, RestoredFrame, RestoredOnceByOrder

(* A restoring step of order o gives each of its lines one movement. *)
LEMMA RestoringStep ==
  ASSUME TypeOK, RestoredOnce, NEW o \in Orders, order[o] # "CANCELLED",
         NEW keyOf, NEW to \in {"RELEASED", "EXPIRED"}, Restore(o, LinesOf(o), keyOf, to),
         order' = [order EXCEPT ![o] = "CANCELLED"],
         NEW c \in Closing, closing' = [closing EXCEPT ![o] = c],
         \A i \in LinesOf(o) :
           keyOf[i] \in IF c.reason = "MEMBER" THEN {CancelKey(o, c.key)}
                        ELSE {c.key, ExpireKey(o, c.key)}
  PROVE  RestoredOnce'
<1> DEFINE new(i) == [item |-> i, key |-> keyOf[i], kind |-> RestoreKind(o, i, to),
                      delta |-> Demand[o][i], order |-> o]
<1>1. ledger' = ledger \cup {new(i) : i \in LinesOf(o)}
  BY DEF Restore
<1>2. \A i \in LinesOf(o) : RestoresOf(o, i) = {}
  BY RestoredOnceByOrder DEF RestoredOnceFor
<1>3. \A i \in LinesOf(o) : RestoresOf(o, i)' = {new(i)}
  <2>1. TAKE i \in LinesOf(o)
  <2>2. new(i).order = o /\ new(i).item = i /\ new(i).kind # "RESERVATION"
    BY DEF RestoreKind
  <2>3. \A j \in LinesOf(o) : new(j).item = i => j = i
    OBVIOUS
  <2> HIDE DEF new
  <2> QED
    BY <1>1, <1>2, <2>2, <2>3 DEF RestoresOf
<1>4. order'[o] = "CANCELLED" /\ closing'[o] = c
  BY DEF TypeOK
<1>5. RestoredOnceFor(o)'
  <2>1. \A i \in LinesOf(o) : new(i).delta = Demand[o][i] /\ new(i).key = keyOf[i]
    OBVIOUS
  <2> HIDE DEF new
  <2> QED
    BY <1>3, <1>4, <2>1 DEF RestoredOnceFor, LinesOf, CancelKey, ExpireKey
<1>6. ASSUME NEW p \in Orders \ {o}
      PROVE  RestoredOnceFor(p)'
  <2>1. \A i \in LinesOf(o) : new(i).order = o
    OBVIOUS
  <2> HIDE DEF new
  <2>2. \A i \in Items : RestoresOf(p, i)' = RestoresOf(p, i)
    BY <1>1, <2>1 DEF RestoresOf
  <2>3. order'[p] = order[p] /\ closing'[p] = closing[p]
    BY DEF TypeOK
  <2> QED
    BY <2>2, <2>3, RestoredFrame, RestoredOnceByOrder
<1> QED
  BY <1>5, <1>6, RestoredOnceByOrder

LEMMA CancelRestored ==
  ASSUME TypeOK, ReservationsFollowOrder, RestoredOnce, NEW o \in Orders,
         NEW k \in Requests, Cancel(o, k)
  PROVE  RestoredOnce'
<1> DEFINE keyOf == [i \in Items |-> CancelKey(o, k)]
           c == [reason |-> "MEMBER", key |-> k]
<1>1. Restore(o, LinesOf(o), keyOf, "RELEASED")
  BY CancelReservations DEF Cancel
<1>2. order[o] # "CANCELLED" /\ order' = [order EXCEPT ![o] = "CANCELLED"]
  BY DEF Cancel, MayCancel, Transition
<1>3. c \in Closing /\ closing' = [closing EXCEPT ![o] = c]
  BY DEF Cancel, Closing
<1>4. \A i \in LinesOf(o) :
        keyOf[i] \in IF c.reason = "MEMBER" THEN {CancelKey(o, c.key)}
                     ELSE {c.key, ExpireKey(o, c.key)}
  BY DEF LinesOf
<1> HIDE DEF keyOf, c
<1> QED
  BY <1>1, <1>2, <1>3, <1>4, RestoringStep

LEMMA ExpireRestored ==
  ASSUME TypeOK, ReservationsFollowOrder, RestoredOnce, NEW o \in Orders,
         NEW i \in LinesOf(o), NEW k \in DueKeys, ExpireOrder(o, i, k)
  PROVE  RestoredOnce'
<1> DEFINE keyOf == [j \in Items |-> IF j = i THEN k ELSE ExpireKey(o, k)]
           c == [reason |-> "EXPIRY", key |-> k]
<1>1. Restore(o, LinesOf(o), keyOf, "EXPIRED")
  BY ExpireReservations DEF ExpireOrder
<1>2. order[o] # "CANCELLED" /\ order' = [order EXCEPT ![o] = "CANCELLED"]
  BY DEF ExpireOrder, Transition
<1>3. c \in Closing /\ closing' = [closing EXCEPT ![o] = c]
  BY DEF ExpireOrder, Closing
<1>4. \A j \in LinesOf(o) :
        keyOf[j] \in IF c.reason = "MEMBER" THEN {CancelKey(o, c.key)}
                     ELSE {c.key, ExpireKey(o, c.key)}
  BY DEF LinesOf
<1> HIDE DEF keyOf, c
<1> QED
  BY <1>1, <1>2, <1>3, <1>4, RestoringStep

LEMMA PlaceRestored ==
  ASSUME TypeOK, RestoredOnce, NEW o \in Orders, Place(o)
  PROVE  RestoredOnce'
<1>1. \A p \in Orders : order[p] = "CANCELLED" <=> order'[p] = "CANCELLED"
  BY DEF Place, TypeOK
<1>2. /\ ledger \subseteq ledger'
      /\ \A m \in ledger' \ ledger : m.order \notin Orders \/ m.kind = "RESERVATION"
  BY DEF Place, Reserve
<1> QED
  BY <1>1, <1>2, RestoredKept DEF Place

LEMMA AdjustRestored ==
  ASSUME TypeOK, RestoredOnce, NEW i \in Items, NEW k \in Requests, NEW d \in Deltas,
         AdjustStock(i, k, d)
  PROVE  RestoredOnce'
<1>1. /\ ledger \subseteq ledger'
      /\ \A m \in ledger' \ ledger : m.order \notin Orders \/ m.kind = "RESERVATION"
  BY InventoryAssumption DEF AdjustStock, Adjust
<1> QED
  BY <1>1, RestoredKept DEF AdjustStock

(* The steps that neither reserve nor restore. *)
LEMMA LedgerKept ==
  ASSUME TypeOK, RestoredOnce, UNCHANGED <<ledger, closing>>,
         \A o \in Orders : order[o] = "CANCELLED" <=> order'[o] = "CANCELLED"
  PROVE  RestoredOnce'
BY RestoredKept

LEMMA RestoredStep ==
  ASSUME TypeOK, ReservationsFollowOrder, RestoredOnce, [Next]_vars
  PROVE  RestoredOnce'
<1>1. ASSUME NEW o \in Orders, OrderNext(o)
      PROVE  RestoredOnce'
  <2>1. Lapse(o) => RestoredOnce'
    BY LedgerKept DEF Lapse, inventoryVars
  <2> QED
    BY <1>1, <2>1, OrderSteps, PlaceRestored, CancelRestored, ExpireRestored
<1>2. ASSUME NEW a \in Attempts, AttemptNext(a)
      PROVE  RestoredOnce'
  <2>1. UNCHANGED <<ledger, closing>>
    BY <1>2 DEF AttemptNext, CreateAttempt, Fail, Capture, Consume, Refund, inventoryVars
  <2>2. UNCHANGED order \/ Transition(AttemptOrder[a], "CONFIRMED")
    BY <1>2 DEF AttemptNext, CreateAttempt, Fail, Capture, Refund
  <2>3. \A o \in Orders : order[o] = "CANCELLED" <=> order'[o] = "CANCELLED"
    BY <2>2 DEF Transition, AllowedTransitions, TypeOK
  <2> QED
    BY <2>1, <2>3, LedgerKept
<1>3. ASSUME NEW f \in Shipments, ShipmentNext(f)
      PROVE  RestoredOnce'
  <2>1. UNCHANGED <<ledger, closing>>
    BY <1>3 DEF ShipmentNext, CreateFulfillment, Pack, Ship, Deliver, CancelFulfillment,
                inventoryVars
  <2>2. UNCHANGED order \/ Transition(ShipmentOrder[f], "COMPLETED")
    BY <1>3 DEF ShipmentNext, CreateFulfillment, Pack, Ship, Deliver, CancelFulfillment
  <2>3. \A o \in Orders : order[o] = "CANCELLED" <=> order'[o] = "CANCELLED"
    BY <2>2 DEF Transition, AllowedTransitions, TypeOK
  <2> QED
    BY <2>1, <2>3, LedgerKept
<1>4. ASSUME NEW i \in Items, NEW k \in Requests, NEW d \in Deltas, AdjustStock(i, k, d)
      PROVE  RestoredOnce'
  BY <1>4, AdjustRestored
<1>5. CASE UNCHANGED vars
  BY <1>5, LedgerKept DEF vars
<1> QED
  BY <1>1, <1>2, <1>3, <1>4, <1>5 DEF Next

(* Every line of a closed order came back exactly once, under a key of the *)
(* request that closed it; no other order's line ever came back.           *)
THEOREM RestoredOnceCorrect == Spec => []RestoredOnce
<1>1. Init => RestoredOnce
  BY DEF Init, InventoryInit, RestoredOnce, RestoresOf
<1>2. /\ TypeOK /\ ReservationsFollowOrder /\ RestoredOnce /\ [Next]_vars
      => RestoredOnce'
  BY RestoredStep
<1> QED
  BY <1>1, <1>2, TypeCorrect, ReservationsCorrect, PTL DEF Spec

-----------------------------------------------------------------------------
(* What ended stays ended. *)

(* The parts of NothingResumes, one for each aggregate. *)
OrdersStayEnded ==
  \A o \in Orders : order[o] \in {"CANCELLED", "COMPLETED"} => order'[o] = order[o]

ReservationsStayEnded ==
  \A o \in Orders : \A i \in LinesOf(o) :
    reservation[o][i] \in {"RELEASED", "EXPIRED"} => reservation'[o][i] = reservation[o][i]

AttemptsStayEnded ==
  /\ \A a \in Attempts :
       attempt[a] \in {"CANCELLED", "FAILED", "REFUNDED"} => attempt'[a] = attempt[a]
  /\ txns \subseteq txns'

ShipmentsStayEnded ==
  \A f \in Shipments :
    shipment[f] \in {"DELIVERED", "CANCELLED"} => shipment'[f] = shipment[f]

LEMMA NothingResumesParts ==
  ASSUME OrdersStayEnded, ReservationsStayEnded, AttemptsStayEnded, ShipmentsStayEnded,
         ledger \subseteq ledger'
  PROVE  NothingResumes
BY DEF NothingResumes, OrdersStayEnded, ReservationsStayEnded, AttemptsStayEnded,
       ShipmentsStayEnded

LEMMA UnchangedEnds ==
  /\ UNCHANGED order => OrdersStayEnded
  /\ UNCHANGED inventoryVars => ReservationsStayEnded /\ ledger \subseteq ledger'
  /\ UNCHANGED paymentVars => AttemptsStayEnded
  /\ UNCHANGED fulfillmentVars => ShipmentsStayEnded
BY DEF OrdersStayEnded, ReservationsStayEnded, AttemptsStayEnded, ShipmentsStayEnded,
       inventoryVars, paymentVars, fulfillmentVars

LEMMA TransitionEnds ==
  ASSUME TypeOK, NEW o \in Orders, NEW to, Transition(o, to)
  PROVE  OrdersStayEnded
BY DEF Transition, AllowedTransitions, OrdersStayEnded, TypeOK

LEMMA RestoreEnds ==
  ASSUME TypeOK, NEW o \in Orders, NEW L \in SUBSET LinesIn(o, {"RESERVED", "CONSUMED"}),
         NEW keyOf, NEW to, Restore(o, L, keyOf, to)
  PROVE  ReservationsStayEnded /\ ledger \subseteq ledger'
BY DEF Restore, ReservationsStayEnded, LinesIn, LinesOf, TypeOK, InventoryTypeOK

LEMMA CancelAttemptsEnds ==
  ASSUME NEW S, CancelAttempts(S)
  PROVE  AttemptsStayEnded
BY DEF CancelAttempts, AttemptsStayEnded, Cancellable

LEMMA OrderEnds ==
  ASSUME TypeOK, ReservationsFollowOrder, NEW o \in Orders, OrderNext(o)
  PROVE  NothingResumes
<1>1. CASE Place(o)
  <2>1. OrdersStayEnded
    BY <1>1 DEF Place, OrdersStayEnded, TypeOK
  <2>2. ReservationsStayEnded /\ ledger \subseteq ledger'
    BY <1>1 DEF Place, Reserve, ReservationsFollowOrder, ReservationsStayEnded, LinesOf,
                TypeOK, InventoryTypeOK
  <2> QED
    BY <1>1, <2>1, <2>2, UnchangedEnds, NothingResumesParts DEF Place
<1>2. CASE Lapse(o)
  BY <1>2, UnchangedEnds, NothingResumesParts DEF Lapse
<1>3. ASSUME NEW k \in Requests, Cancel(o, k)
      PROVE  NothingResumes
  <2>1. OrdersStayEnded /\ AttemptsStayEnded
    BY <1>3, TransitionEnds, CancelAttemptsEnds DEF Cancel
  <2>2. ReservationsStayEnded /\ ledger \subseteq ledger'
    BY <1>3, RestoreEnds DEF Cancel, CancellableReservations
  <2>3. ShipmentsStayEnded
    BY <1>3 DEF Cancel, CancelShipments, ShipmentsStayEnded, CancellableShipment
  <2> QED
    BY <2>1, <2>2, <2>3, NothingResumesParts
<1>4. ASSUME NEW i \in LinesOf(o), NEW k \in DueKeys, ExpireOrder(o, i, k)
      PROVE  NothingResumes
  <2>1. OrdersStayEnded /\ AttemptsStayEnded /\ ShipmentsStayEnded
    BY <1>4, TransitionEnds, CancelAttemptsEnds, UnchangedEnds DEF ExpireOrder
  <2>2. LinesIn(o, {"RESERVED"}) \in SUBSET LinesIn(o, {"RESERVED", "CONSUMED"})
    BY DEF LinesIn
  <2>3. ReservationsStayEnded /\ ledger \subseteq ledger'
    BY <1>4, <2>2, RestoreEnds DEF ExpireOrder
  <2> QED
    BY <2>1, <2>3, NothingResumesParts
<1> QED
  BY <1>1, <1>2, <1>3, <1>4, OrderSteps

LEMMA AttemptEnds ==
  ASSUME TypeOK, NEW a \in Attempts, AttemptNext(a)
  PROVE  NothingResumes
<1>1. AttemptsStayEnded
  <2>1. /\ txns \subseteq txns'
        /\ \/ attempt[a] \notin {"CANCELLED", "FAILED", "REFUNDED"}
              /\ \E to : attempt' = [attempt EXCEPT ![a] = to]
           \/ attempt[a] = "REFUNDED" /\ attempt' = [attempt EXCEPT ![a] = "REFUNDED"]
    BY DEF AttemptNext, CreateAttempt, OpenAttempt, Fail, FailAttempt, Failable, Capture,
           CaptureAttempt, Capturable, Refund, RefundAttempt, Refundable
  <2> QED
    BY <2>1 DEF AttemptsStayEnded, TypeOK, PaymentTypeOK
<1>2. OrdersStayEnded
  <2>1. UNCHANGED order \/ Transition(AttemptOrder[a], "CONFIRMED")
    BY DEF AttemptNext, CreateAttempt, Fail, Capture, Refund
  <2> QED
    BY <2>1, CommerceAssumption, UnchangedEnds, TransitionEnds
<1>3. ReservationsStayEnded /\ ledger \subseteq ledger'
  <2>1. CASE \E k \in PaymentKeys, p \in ProviderIds : Capture(a, k, p)
    BY <2>1, CommerceAssumption
    DEF Capture, Consume, ReservationsValid, ReservationsStayEnded, LinesIn, LinesOf,
        TypeOK, InventoryTypeOK
  <2>2. CASE UNCHANGED inventoryVars
    BY <2>2, UnchangedEnds
  <2> QED
    BY <2>1, <2>2 DEF AttemptNext, CreateAttempt, Fail, Refund
<1>4. ShipmentsStayEnded
  BY UnchangedEnds DEF AttemptNext, CreateAttempt, Fail, Capture, Refund
<1> QED
  BY <1>1, <1>2, <1>3, <1>4, NothingResumesParts

LEMMA ShipmentEnds ==
  ASSUME TypeOK, NEW f \in Shipments, ShipmentNext(f)
  PROVE  NothingResumes
<1>1. UNCHANGED inventoryVars /\ UNCHANGED paymentVars
  BY DEF ShipmentNext, CreateFulfillment, Pack, Ship, Deliver, CancelFulfillment
<1>2. OrdersStayEnded
  <2>1. UNCHANGED order \/ Transition(ShipmentOrder[f], "COMPLETED")
    BY DEF ShipmentNext, CreateFulfillment, Pack, Ship, Deliver, CancelFulfillment
  <2> QED
    BY <2>1, CommerceAssumption, UnchangedEnds, TransitionEnds
<1>3. ShipmentsStayEnded
  <2>1. \/ shipment[f] \notin {"DELIVERED", "CANCELLED"}
           /\ \E to : shipment' = [shipment EXCEPT ![f] = to]
        \/ shipment[f] = "DELIVERED" /\ shipment' = [shipment EXCEPT ![f] = "DELIVERED"]
    BY DEF ShipmentNext, CreateFulfillment, CreateShipment, Pack, Ship, Deliver,
           CancelFulfillment, AdvanceShipment, CancellableShipment
  <2> QED
    BY <2>1 DEF ShipmentsStayEnded, TypeOK, FulfillmentTypeOK
<1> QED
  BY <1>1, <1>2, <1>3, UnchangedEnds, NothingResumesParts

LEMMA AdjustEnds ==
  ASSUME NEW i \in Items, NEW k \in Requests, NEW d \in Deltas, AdjustStock(i, k, d)
  PROVE  NothingResumes
<1>1. ReservationsStayEnded /\ ledger \subseteq ledger'
  BY DEF AdjustStock, Adjust, ReservationsStayEnded
<1> QED
  BY <1>1, UnchangedEnds, NothingResumesParts DEF AdjustStock

(* No request, however late or often repeated, revives an order, an        *)
(* attempt, a reservation or a shipment that ended, or removes a row of    *)
(* the ledger or of the provider transactions.                             *)
THEOREM EndedStaysEndedCorrect == Spec => EndedStaysEnded
<1>1. TypeOK /\ ReservationsFollowOrder /\ [Next]_vars => [NothingResumes]_vars
  BY OrderEnds, AttemptEnds, ShipmentEnds, AdjustEnds DEF Next
<1> QED
  BY <1>1, TypeCorrect, ReservationsCorrect, PTL DEF Spec, EndedStaysEnded
===============================================================================
