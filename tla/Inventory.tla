------------------------------- MODULE Inventory -------------------------------
(***************************************************************************)
(* Stock, reservations and the movement ledger of                          *)
(* src/src/api/inventory.                                                   *)
(*                                                                         *)
(* Every operation here runs inside the caller's transaction, under the    *)
(* FOR UPDATE locks of the items (and reservations) it touches, so it is   *)
(* one atomic step.  An operation that throws rolls its transaction back:  *)
(* a check that fails is a guard that is false.  A request that is found    *)
(* to repeat an earlier one returns what that one left behind and changes  *)
(* nothing, so a replay is not a step either.                               *)
(*                                                                         *)
(* An order has at most one line per item here: the lines of a command     *)
(* that name the same item are reserved and restored together in one       *)
(* transaction and are merged into one quantity, Demand[o][i].             *)
(***************************************************************************)
EXTENDS Integers, FiniteSets, FiniteSetsExt

CONSTANTS
  Orders,         \* the place-order commands, one order each
  Items,          \* the sellable items (SKUs)
  Demand,         \* Demand[o][i]: quantity of item i on order o, 0 if no line
  InitialStock,   \* Item.stock before the first modelled movement
  MaxStock,       \* largest value of the signed INT column (2147483647)
  Requests,       \* idempotency keys that clients choose
  Deltas,         \* the non-zero quantities an adjustment may carry
  NoOrder         \* the order reference of a movement that has none

ASSUME InventoryAssumption ==
  /\ MaxStock \in Nat
  /\ Demand \in [Orders -> [Items -> Nat]]
  /\ \A o \in Orders : \E i \in Items : Demand[o][i] > 0
  /\ InitialStock \in [Items -> 0 .. MaxStock]
  /\ Deltas \subseteq Int \ {0}
  /\ NoOrder \notin Orders

VARIABLES
  stock,          \* Item.stock
  reservation,    \* reservation[o][i]: status of the line's reservation
  ledger          \* the rows of inventory_movements

inventoryVars == <<stock, reservation, ledger>>

ReservationStatus == {"RESERVED", "CONSUMED", "RELEASED", "EXPIRED"}

(* The lines of an order; each has one reservation once the order exists. *)
LinesOf(o) == {i \in Items : Demand[o][i] > 0}

(***************************************************************************)
(* Idempotency keys.  Keys the services derive (a digest of what is named  *)
(* in the tuple) differ from each other and from the clients' keys.        *)
(***************************************************************************)
ReserveKey(o)    == <<"reserve", o>>
SharedBatchKey(o) == <<"expire">>     \* mutant: one key for the whole batch
BatchKey(o)      == <<"expire", o>>
ExpireKey(o, k)  == <<"expire", o, k>>
CancelKey(o, k)  == <<"cancel", o, k>>
DueKeys          == Requests \cup {BatchKey(o) : o \in Orders}
MovementKeys     ==
  Requests \cup {ReserveKey(o) : o \in Orders} \cup {BatchKey(o) : o \in Orders}
           \cup {ExpireKey(o, k) : o \in Orders, k \in DueKeys}
           \cup {CancelKey(o, k) : o \in Orders, k \in Requests}

(***************************************************************************)
(* A ledger row.  "kind" folds the movement type and, for a RELEASE, its   *)
(* reason into one tag; "order" stands for the reservation it refers to.   *)
(***************************************************************************)
MovementKinds == {"RESERVATION", "RELEASED", "EXPIRED", "RETURN", "ADJUSTMENT"}

Movement == [item : Items, key : MovementKeys, kind : MovementKinds,
             delta : Int, order : Orders \cup {NoOrder}]

(* The unique index on (item, idempotencyKey) and every lookup by it. *)
Recorded(i, k) == \E m \in ledger : m.item = i /\ m.key = k

InventoryTypeOK ==
  /\ stock \in [Items -> 0 .. MaxStock]
  /\ reservation \in [Orders -> [Items -> {"NONE"} \cup ReservationStatus]]
  /\ ledger \in SUBSET Movement

InventoryInit ==
  /\ stock = InitialStock
  /\ reservation = [o \in Orders |-> [i \in Items |-> "NONE"]]
  /\ ledger = {}

-----------------------------------------------------------------------------
(* The reservations of o that are in one of the given statuses. *)
LinesIn(o, statuses) == {i \in LinesOf(o) : reservation[o][i] \in statuses}

(* Mutant of Reserve: the stock of the lines is not compared. *)
ReserveUnchecked(o) ==
  /\ \A i \in LinesOf(o) : ~Recorded(i, ReserveKey(o))
  /\ stock' = [i \in Items |-> stock[i] - Demand[o][i]]
  /\ reservation' = [reservation EXCEPT ![o] =
       [i \in Items |-> IF i \in LinesOf(o) THEN "RESERVED" ELSE "NONE"]]
  /\ ledger' = ledger \cup
       {[item |-> i, key |-> ReserveKey(o), kind |-> "RESERVATION",
         delta |-> -Demand[o][i], order |-> o] : i \in LinesOf(o)}

(* reserveForPlacementBatch: all lines or none; every line needs stock. *)
Reserve(o) ==
  /\ \A i \in LinesOf(o) :
       /\ ~Recorded(i, ReserveKey(o))
       /\ stock[i] >= Demand[o][i]
  /\ stock' = [i \in Items |-> stock[i] - Demand[o][i]]
  /\ reservation' = [reservation EXCEPT ![o] =
       [i \in Items |-> IF i \in LinesOf(o) THEN "RESERVED" ELSE "NONE"]]
  /\ ledger' = ledger \cup
       {[item |-> i, key |-> ReserveKey(o), kind |-> "RESERVATION",
         delta |-> -Demand[o][i], order |-> o] : i \in LinesOf(o)}

(* consumeForPayment for every line: stock was deducted when reserving. *)
Consume(o) ==
  /\ reservation' = [reservation EXCEPT ![o] =
       [i \in Items |-> IF i \in LinesOf(o) THEN "CONSUMED" ELSE "NONE"]]
  /\ UNCHANGED <<stock, ledger>>

(***************************************************************************)
(* restore and restoreConsumedForCancellation for the lines in L: put the  *)
(* quantity back, end the reservation and record the movement under        *)
(* keyOf[i].  Refused, for every line together, if a key is taken on its   *)
(* item or a restored stock would leave the column's range.                *)
(***************************************************************************)
RestoreKind(o, i, to) == IF reservation[o][i] = "CONSUMED" THEN "RETURN" ELSE to

(* Mutant of Restore: the stock comes back without a movement. *)
RestoreUnrecorded(o, L, keyOf, to) ==
  /\ \A i \in L : stock[i] + Demand[o][i] <= MaxStock
  /\ stock' = [i \in Items |-> IF i \in L THEN stock[i] + Demand[o][i] ELSE stock[i]]
  /\ reservation' = [reservation EXCEPT ![o] =
       [i \in Items |-> IF i \in L THEN to ELSE reservation[o][i]]]
  /\ UNCHANGED ledger

Restore(o, L, keyOf, to) ==
  /\ \A i \in L :
       /\ ~Recorded(i, keyOf[i])
       /\ stock[i] + Demand[o][i] <= MaxStock
  /\ stock' = [i \in Items |-> IF i \in L THEN stock[i] + Demand[o][i] ELSE stock[i]]
  /\ reservation' = [reservation EXCEPT ![o] =
       [i \in Items |-> IF i \in L THEN to ELSE reservation[o][i]]]
  /\ ledger' = ledger \cup
       {[item |-> i, key |-> keyOf[i], kind |-> RestoreKind(o, i, to),
         delta |-> Demand[o][i], order |-> o] : i \in L}

(* Mutant of Adjust: a repeated request is not looked up. *)
AdjustRepeatedly(i, k, d) ==
  /\ stock[i] + d \in 0 .. MaxStock
  /\ stock' = [stock EXCEPT ![i] = @ + d]
  /\ ledger' = ledger \cup {[item |-> i, key |-> k, kind |-> "ADJUSTMENT",
                             delta |-> d, order |-> NoOrder]}
  /\ UNCHANGED reservation

(* adjust: an operator receives, takes back or corrects stock of one item. *)
Adjust(i, k, d) ==
  /\ ~Recorded(i, k)
  /\ stock[i] + d \in 0 .. MaxStock
  /\ stock' = [stock EXCEPT ![i] = @ + d]
  /\ ledger' = ledger \cup {[item |-> i, key |-> k, kind |-> "ADJUSTMENT",
                             delta |-> d, order |-> NoOrder]}
  /\ UNCHANGED reservation

-----------------------------------------------------------------------------
(* What the properties sum over. *)
DeltaOf == [m \in ledger |-> m.delta]

HeldQuantity(i) ==
  SumFunctionOnSet([o \in Orders |-> Demand[o][i]],
    {o \in Orders : reservation[o][i] \in {"RESERVED", "CONSUMED"}})

(* Stock on hand and goods held for orders are together exactly what came  *)
(* in: the stock at the start plus every operator adjustment.  The         *)
(* append-only ledger explains the same stock, movement by movement, and   *)
(* no two of its rows share item and key.  A line that is restored twice,  *)
(* never, or by the wrong amount, by cancellation, expiry or a retry of     *)
(* either, breaks it (inventory.service.ts 338-421,                        *)
(* inventory-movement.entity.ts 7-16).                                     *)
StockConservation ==
  /\ \A i \in Items :
       LET movements == {m \in ledger : m.item = i} IN
       /\ stock[i] + HeldQuantity(i)
            = InitialStock[i]
              + SumFunctionOnSet(DeltaOf, {m \in movements : m.kind = "ADJUSTMENT"})
       /\ stock[i] = InitialStock[i] + SumFunctionOnSet(DeltaOf, movements)
  /\ \A m, n \in ledger : m.item = n.item /\ m.key = n.key => m = n
=============================================================================
