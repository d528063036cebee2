----------------------------- MODULE OrderContract -----------------------------
(***************************************************************************)
(* What the shop promises about one order, whatever rows it keeps: goods   *)
(* are set aside, sold against the whole price, and come back at most once;*)
(* money comes in once and goes back once; parcels travel only while the   *)
(* order is paid.  The shop never keeps both the goods and the money, and  *)
(* the customer never does either.                                         *)
(***************************************************************************)
CONSTANT Orders

VARIABLES
  goods,      \* where the order's goods are
  money,      \* where the order's price is
  underway,   \* the orders with a parcel in preparation or in transit
  received    \* the orders some parcel of which has been delivered

contractVars == <<goods, money, underway, received>>

ContractTypeOK ==
  /\ goods \in [Orders -> {"shelf", "aside", "sold", "returned"}]
  /\ money \in [Orders -> {"unpaid", "paid", "refunded"}]
  /\ underway \in SUBSET Orders
  /\ received \in SUBSET Orders

Init ==
  /\ goods = [o \in Orders |-> "shelf"]
  /\ money = [o \in Orders |-> "unpaid"]
  /\ underway = {}
  /\ received = {}

SetAside(o) ==
  /\ goods[o] = "shelf"
  /\ goods' = [goods EXCEPT ![o] = "aside"]
  /\ UNCHANGED <<money, underway, received>>

Sell(o) ==
  /\ goods[o] = "aside" /\ money[o] = "unpaid"
  /\ goods' = [goods EXCEPT ![o] = "sold"]
  /\ money' = [money EXCEPT ![o] = "paid"]
  /\ UNCHANGED <<underway, received>>

(* Goods come back only from an order nobody's money or parcel hangs on. *)
GiveBack(o) ==
  /\ goods[o] \in {"aside", "sold"} /\ money[o] # "paid"
  /\ o \notin underway \cup received
  /\ goods' = [goods EXCEPT ![o] = "returned"]
  /\ UNCHANGED <<money, underway, received>>

(* The whole price goes back only while no parcel is underway. *)
PayBack(o) ==
  /\ money[o] = "paid" /\ o \notin underway
  /\ money' = [money EXCEPT ![o] = "refunded"]
  /\ UNCHANGED <<goods, underway, received>>

Prepare(o) ==
  /\ goods[o] = "sold" /\ money[o] = "paid" /\ o \notin underway
  /\ underway' = underway \cup {o}
  /\ UNCHANGED <<goods, money, received>>

(* A parcel arrives, and it may have been the last one underway. *)
Arrive(o) ==
  /\ o \in underway
  /\ received' = received \cup {o}
  /\ underway' \in {underway, underway \ {o}}
  /\ UNCHANGED <<goods, money>>

(* The last parcel underway is cancelled before it leaves. *)
Withdraw(o) ==
  /\ o \in underway
  /\ underway' = underway \ {o}
  /\ UNCHANGED <<goods, money, received>>

Next ==
  \E o \in Orders :
    \/ SetAside(o) \/ Sell(o) \/ GiveBack(o) \/ PayBack(o)
    \/ Prepare(o) \/ Arrive(o) \/ Withdraw(o)

Spec == Init /\ [][Next]_contractVars
===============================================================================
