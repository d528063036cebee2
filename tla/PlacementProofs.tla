---------------------------- MODULE PlacementProofs ----------------------------
(***************************************************************************)
(* Placements and adjustments that run statement by statement commit the   *)
(* single steps of Inventory, for every value of the constants.            *)
(*                                                                         *)
(* The heart of the argument is RowsHeld: what a placement has locked is   *)
(* on sale and is what it has read, because nobody writes a row that       *)
(* somebody else holds.  It has all its rows when it commits, so it        *)
(* reserves on the stock of that moment.  The distributed lock plays no    *)
(* part in this: GuardsApart only serves LockSparesRetries.                *)
(*                                                                         *)
(* NobodyStuck rests on RowsInOrder: everybody who holds a row holds all   *)
(* its own rows that come before it, so whoever waits for the highest row  *)
(* waits for somebody who does not wait.                                   *)
(***************************************************************************)
EXTENDS Placement, FiniteSetTheorems, WellFoundedInduction, TLAPS

RunTyped ==
  /\ stock \in [Items -> 0 .. MaxStock]
  /\ reservation \in [Orders -> [Items -> {"NONE"} \cup ReservationStatus]]
  /\ key \in [Orders -> Keys \cup {NoKey}]
  /\ guards \subseteq Orders
  /\ holder \in [Rows -> Actors \cup {NoOne}]
  /\ at \in [Orders -> Stages]
  /\ seen \in [Orders -> [Items -> 0 .. MaxStock]]
  /\ answer \in [Orders -> Orders \cup Verdicts]
  /\ lapsed \in BOOLEAN

(* A row somebody has locked is on sale and is what its holder has read.   *)
RowsHeld ==
  \A o \in Orders, r \in Rows :
    holder[r] = o =>
      /\ at[o] = "rows" /\ r \in onSale
      /\ r \in Items => seen[o][r] = stock[r]

(* Only a stored order has used the keys of its reservations. *)
KeysOfPlaced ==
  \A o \in Orders : \A m \in ledger : m.key = ReserveKey(o) => Placed(o)

(* AnswersNameTheOrder, and what a call can have been told where it is.    *)
AnswersFit ==
  /\ \A o, q \in Orders : Placed(o) /\ Placed(q) /\ key[o] = key[q] => o = q
  /\ \A o \in Orders :
       /\ Placed(o) => at[o] \in {"unlocking", "replaying", "done"}
       /\ at[o] \in {"new", "locking", "locked", "rows"} => answer[o] = "none"
       /\ \A q \in Orders : answer[o] = q =>
            Placed(q) /\ key[q] = key[o] /\ Fingerprint[q] = Fingerprint[o]
       /\ answer[o] = "conflict" => \E q \in Orders :
            Placed(q) /\ key[q] = key[o] /\ Fingerprint[q] # Fingerprint[o]
       /\ answer[o] = "duplicate" =>
            /\ at[o] \in {"unlocking", "replaying"}
            /\ \E q \in Orders : Placed(q) /\ key[q] = key[o]

(* No two calls have the lock of one resource, and as long as none has     *)
(* lapsed a call at work has it and no order of its key has appeared.      *)
GuardsApart ==
  /\ \A o \in guards : at[o] \notin {"new", "locking"}
  /\ \A o, q \in guards : o # q => ~Clash(o, q)
  /\ ~lapsed => \A o \in Orders :
       /\ at[o] \in {"locked", "rows"} => o \in guards
       /\ at[o] = "rows" => KeyFree(o)

PlacementInv ==
  RunTyped /\ RowsHeld /\ KeysOfPlaced /\ AnswersFit /\ GuardsApart

-----------------------------------------------------------------------------
LEMMA PlacementInit0 == PlacementInit => PlacementInv
<1> SUFFICES ASSUME PlacementInit
             PROVE  PlacementInv
  OBVIOUS
<1>1. RunTyped
  <2>1. NothingRead \in [Items -> 0 .. MaxStock]
    BY InventoryAssumption DEF NothingRead
  <2> QED
    BY <2>1, InventoryAssumption
    DEF PlacementInit, InventoryInit, RunTyped, Stages, Verdicts
<1>2. \A o \in Orders : ~Placed(o) /\ at[o] = "new" /\ answer[o] = "none"
  BY DEF PlacementInit, InventoryInit, Placed
<1>3. RowsHeld
  BY PlacementAssumption DEF PlacementInit, RowsHeld, Actors
<1>4. KeysOfPlaced /\ GuardsApart
  BY <1>2 DEF PlacementInit, InventoryInit, KeysOfPlaced, GuardsApart
<1>5. AnswersFit
  BY <1>2, PlacementAssumption DEF AnswersFit, Verdicts
<1> QED
  BY <1>1, <1>3, <1>4, <1>5 DEF PlacementInv

(* The rows that hold an order. *)
LEMMA RowsTyped ==
  ASSUME NEW o \in Orders
  PROVE  /\ LinesOf(o) \subseteq Items /\ LinesOf(o) # {}
         /\ RowsOf(o) \subseteq Rows /\ LinesOf(o) \subseteq RowsOf(o)
BY InventoryAssumption, PlacementAssumption DEF LinesOf, RowsOf, Rows

-----------------------------------------------------------------------------
(* A step that stores nothing: everything said about stored orders stays.  *)
LEMMA StoredStays ==
  ASSUME UNCHANGED reservation
  PROVE  \A o \in Orders : Placed(o)' <=> Placed(o)
BY DEF Placed

(* The end of a transaction. *)
LEMMA CloseTyped ==
  ASSUME RunTyped, NEW o \in Orders, Close(o)
  PROVE  /\ holder' \in [Rows -> Actors \cup {NoOne}]
         /\ seen' \in [Orders -> [Items -> 0 .. MaxStock]]
         /\ \A r \in Rows : holder'[r] # o \/ o = NoOne
<1>1. NothingRead \in [Items -> 0 .. MaxStock]
  BY InventoryAssumption DEF NothingRead
<1>2. Without(o) \in [Rows -> Actors \cup {NoOne}]
  BY DEF RunTyped, Without
<1> QED
  BY <1>1, <1>2 DEF RunTyped, Close, Without

(* The answer of a call that finds the order of its key. *)
LEMMA ReplayTyped ==
  ASSUME RunTyped, NEW o \in Orders, NEW k, NEW stage \in Stages, Replay(o, k, stage)
  PROVE  at' \in [Orders -> Stages] /\ answer' \in [Orders -> Orders \cup Verdicts]
<1>1. PICK q \in UnderKey(k) :
        Reply(o, IF Fingerprint[q] = Fingerprint[o] THEN q ELSE "conflict", stage)
  BY DEF Replay
<1>2. q \in Orders /\ "conflict" \in Verdicts
  BY DEF UnderKey, Verdicts
<1> QED
  BY <1>1, <1>2 DEF RunTyped, Reply, Go

LEMMA AdjustmentTyped ==
  ASSUME NEW x \in Adjustments
  PROVE  /\ x.item \in Items /\ x.item \in Rows /\ ProductOf[x.item] \in Rows
         /\ x.key \in Requests /\ x.delta \in Int
         /\ x \in Actors
<1>1. x \in [caller : Callers, item : Items, key : Requests, delta : Deltas]
  BY PlacementAssumption
<1>2. ProductOf \in [Items -> Products] /\ Deltas \subseteq Int
  BY PlacementAssumption, InventoryAssumption
<1> QED
  BY <1>1, <1>2 DEF Rows, Actors

LEMMA TypedStep ==
  ASSUME PlacementInv, PlacementNext
  PROVE  RunTyped'
<1> USE DEF PlacementInv, RunTyped
<1>1. ASSUME NEW o \in Orders, Serve(o)
      PROVE  RunTyped'
  <2>1. ASSUME NEW k \in Keys, Ask(o, k)
        PROVE  RunTyped'
    BY <2>1, ReplayTyped DEF Ask, Go, inventoryVars, adjustVars, Stages
  <2>2. CASE Acquire(o)
    BY <2>2 DEF Acquire, Go, inventoryVars, adjustVars, Stages
  <2>3. CASE FailToAcquire(o)
    BY <2>3 DEF FailToAcquire, Reply, Go, inventoryVars, adjustVars, Stages, Verdicts
  <2>4. CASE Open(o)
    BY <2>4, ReplayTyped DEF Open, Go, inventoryVars, adjustVars, Stages
  <2>5. ASSUME NEW r \in Rows, LockRow(o, r)
        PROVE  RunTyped'
    <3>1. CASE r \in onSale
      <4>1. Refreshed(o, r) \in [Items -> 0 .. MaxStock]
        BY DEF Refreshed
      <4> QED
        BY <2>5, <3>1, <4>1 DEF LockRow, Actors, inventoryVars, adjustVars
    <3>2. CASE r \notin onSale
      <4>1. Close(o)
        BY <2>5, <3>2 DEF LockRow
      <4> QED
        BY <2>5, <3>2, <4>1, CloseTyped
        DEF LockRow, Reply, Go, inventoryVars, adjustVars, Stages, Verdicts
    <3> QED
      BY <3>1, <3>2
  <2>6. CASE RefuseShort(o)
    <3>1. Close(o)
      BY <2>6 DEF RefuseShort
    <3> QED
      BY <2>6, <3>1, CloseTyped DEF RefuseShort, Reply, Go, inventoryVars, adjustVars, Stages, Verdicts
  <2>7. CASE Commit(o)
    <3>1. \A i \in LinesOf(o) : seen[o][i] - Demand[o][i] \in 0 .. MaxStock
      BY <2>7, RowsTyped, InventoryAssumption DEF Commit, Enough
    <3>2. stock' \in [Items -> 0 .. MaxStock]
      BY <2>7, <3>1 DEF Commit, inventoryVars
    <3>3. reservation' \in [Orders -> [Items -> {"NONE"} \cup ReservationStatus]]
      <4>1. [i \in Items |-> IF i \in LinesOf(o) THEN "RESERVED" ELSE "NONE"]
              \in [Items -> {"NONE"} \cup ReservationStatus]
        BY DEF ReservationStatus
      <4> QED
        BY <2>7, <4>1 DEF Commit, inventoryVars
    <3>4. Close(o)
      BY <2>7 DEF Commit
    <3> QED
      BY <2>7, <3>2, <3>3, <3>4, CloseTyped
      DEF Commit, Reply, Go, inventoryVars, adjustVars, Stages, Verdicts
  <2>8. CASE FailTransaction(o)
    <3>1. Close(o)
      BY <2>8 DEF FailTransaction
    <3> QED
      BY <2>8, <3>1, CloseTyped DEF FailTransaction, Reply, Go, inventoryVars, adjustVars, Stages, Verdicts
  <2>9. CASE Unlock(o)
    BY <2>9 DEF Unlock, Go, inventoryVars, adjustVars, Stages
  <2>10. CASE ReplayDuplicate(o)
    BY <2>10, ReplayTyped DEF ReplayDuplicate, Go, inventoryVars, adjustVars, Stages
  <2>11. CASE Crash(o)
    <3>1. Close(o)
      BY <2>11 DEF Crash
    <3> QED
      BY <2>11, <3>1, CloseTyped DEF Crash, Reply, Go, inventoryVars, adjustVars, Stages, Verdicts
  <2>12. CASE Lapse(o)
    BY <2>12 DEF Lapse, inventoryVars, adjustVars
  <2> QED
    BY <1>1, <2>1, <2>2, <2>3, <2>4, <2>5, <2>6, <2>7, <2>8, <2>9, <2>10, <2>11, <2>12 DEF Serve
<1>2. ASSUME NEW x \in Adjustments, Discover(x) \/ LockProduct(x)
      PROVE  RunTyped'
  BY <1>2, AdjustmentTyped DEF Discover, LockProduct, inventoryVars, callVars
<1>3. ASSUME NEW x \in Adjustments, Settle(x)
      PROVE  RunTyped'
  <2>1. stock' \in [Items -> 0 .. MaxStock] /\ UNCHANGED reservation
    BY <1>3, AdjustmentTyped DEF Settle, inventoryVars
  <2>2. holder' \in [Rows -> Actors \cup {NoOne}]
    BY <1>3 DEF Settle, Without
  <2> QED
    BY <1>3, <2>1, <2>2 DEF Settle, callVars
<1>4. ASSUME NEW r \in Rows, ChangeSale(r)
      PROVE  RunTyped'
  BY <1>4 DEF ChangeSale, inventoryVars, callVars
<1> QED
  BY <1>1, <1>2, <1>3, <1>4 DEF PlacementNext

-----------------------------------------------------------------------------
(* A placement that holds no rows after its step disturbs nobody's rows.   *)
LEMMA HeldAround ==
  ASSUME RowsHeld, NEW o \in Orders,
         \A q \in Orders \ {o} : at'[q] = at[q] /\ seen'[q] = seen[q],
         \A r \in Rows : holder'[r] # o,
         \A r \in Rows : holder'[r] \in Orders =>
           /\ holder'[r] = holder[r]
           /\ r \in Items => stock'[r] = stock[r],
         UNCHANGED onSale
  PROVE  RowsHeld'
BY DEF RowsHeld

(* While it has no transaction, a placement holds no rows. *)
LEMMA HoldsNone ==
  ASSUME RowsHeld, NEW o \in Orders, at[o] # "rows"
  PROVE  \A r \in Rows : holder[r] # o
BY DEF RowsHeld

LEMMA CloseHeld ==
  ASSUME PlacementInv, NEW o \in Orders, Close(o), UNCHANGED <<stock, onSale>>,
         \A q \in Orders \ {o} : at'[q] = at[q]
  PROVE  RowsHeld'
<1>1. \A r \in Rows : holder'[r] \in Orders => holder'[r] = holder[r] /\ holder'[r] # o
  BY PlacementAssumption DEF Close, Without, Actors
<1>2. \A r \in Rows : holder'[r] # o
  BY <1>1
<1>3. \A q \in Orders \ {o} : seen'[q] = seen[q]
  BY DEF Close, PlacementInv, RunTyped
<1> QED
  BY <1>1, <1>2, <1>3, HeldAround DEF PlacementInv

(* A placement that has all its rows reserves on the stock there is.       *)
LEMMA ReadIsStock ==
  ASSUME PlacementInv, NEW o \in Orders, HasRows(o)
  PROVE  \A i \in LinesOf(o) : seen[o][i] = stock[i]
BY RowsTyped DEF PlacementInv, RowsHeld, HasRows, Rows

LEMMA CommitHeld ==
  ASSUME PlacementInv, NEW o \in Orders, Commit(o)
  PROVE  RowsHeld'
<1>1. \A q \in Orders \ {o} : at'[q] = at[q] /\ seen'[q] = seen[q]
  BY DEF Commit, Close, Reply, Go, PlacementInv, RunTyped
<1>2. \A r \in Rows : holder'[r] # o
  BY CloseTyped, PlacementAssumption DEF Commit, PlacementInv, Actors
<1>3. \A r \in Rows : holder'[r] \in Orders => holder'[r] = holder[r]
  BY PlacementAssumption DEF Commit, Close, Without, Actors
<1>4. \A r \in Items : holder[r] # o => stock'[r] = stock[r]
  BY RowsTyped DEF Commit, HasRows, inventoryVars, PlacementInv, RunTyped
<1>5. UNCHANGED onSale /\ Items \subseteq Rows
  BY DEF Commit, Rows
<1>6. \A r \in Rows : holder'[r] \in Orders =>
        holder'[r] = holder[r] /\ (r \in Items => stock'[r] = stock[r])
  BY <1>2, <1>3, <1>4
<1> QED
  BY <1>1, <1>2, <1>5, <1>6, HeldAround DEF PlacementInv

LEMMA LockHeld ==
  ASSUME PlacementInv, NEW o \in Orders, NEW r \in Rows, LockRow(o, r)
  PROVE  RowsHeld'
<1>1. at[o] = "rows"
  BY DEF LockRow, Wanted
<1>2. CASE r \in onSale
  <2>1. /\ holder' = [holder EXCEPT ![r] = o]
        /\ seen' = [seen EXCEPT ![o] = Refreshed(o, r)]
        /\ UNCHANGED <<at, stock, onSale>>
    BY <1>2 DEF LockRow, inventoryVars
  <2>2. \A i \in Items : Refreshed(o, r)[i] = IF i = r THEN stock[i] ELSE seen[o][i]
    BY DEF Refreshed, PlacementInv, RunTyped
  <2>3. \A s \in Rows : holder'[s] = IF s = r THEN o ELSE holder[s]
    BY <2>1 DEF PlacementInv, RunTyped
  <2>4. \A q \in Orders : seen'[q] = IF q = o THEN Refreshed(o, r) ELSE seen[q]
    BY <2>1 DEF PlacementInv, RunTyped
  <2> QED
    BY <1>1, <1>2, <2>1, <2>2, <2>3, <2>4 DEF PlacementInv, RowsHeld
<1>3. CASE r \notin onSale
  <2>1. Close(o) /\ UNCHANGED <<stock, onSale>>
    BY <1>3 DEF LockRow, inventoryVars
  <2>2. \A q \in Orders \ {o} : at'[q] = at[q]
    BY <1>3 DEF LockRow, Reply, Go, PlacementInv, RunTyped
  <2> QED
    BY <2>1, <2>2, CloseHeld
<1> QED
  BY <1>2, <1>3

LEMMA HeldStep ==
  ASSUME PlacementInv, PlacementNext
  PROVE  RowsHeld'
<1>1. ASSUME NEW o \in Orders, Serve(o)
      PROVE  RowsHeld'
  <2>1. ASSUME at[o] # "rows", UNCHANGED <<stock, onSale, holder>>,
               \A q \in Orders \ {o} : at'[q] = at[q] /\ seen'[q] = seen[q]
        PROVE  RowsHeld'
    BY <2>1, HoldsNone, HeldAround DEF PlacementInv
  <2>2. ASSUME NEW k \in Keys, Ask(o, k)
        PROVE  RowsHeld'
    BY <2>1, <2>2 DEF Ask, Replay, Reply, Go, inventoryVars, PlacementInv, RunTyped
  <2>3. Acquire(o) => RowsHeld'
    BY <2>1 DEF Acquire, Go, inventoryVars, PlacementInv, RunTyped
  <2>4. FailToAcquire(o) => RowsHeld'
    BY <2>1 DEF FailToAcquire, Reply, Go, inventoryVars, PlacementInv, RunTyped
  <2>5. Open(o) => RowsHeld'
    BY <2>1 DEF Open, Replay, Reply, Go, inventoryVars, PlacementInv, RunTyped
  <2>6. RefuseShort(o) => RowsHeld'
    BY CloseHeld DEF RefuseShort, Reply, Go, inventoryVars, PlacementInv, RunTyped
  <2>7. FailTransaction(o) => RowsHeld'
    BY CloseHeld DEF FailTransaction, Reply, Go, inventoryVars, PlacementInv, RunTyped
  <2>8. Unlock(o) => RowsHeld'
    BY <2>1 DEF Unlock, Go, inventoryVars, PlacementInv, RunTyped
  <2>9. ReplayDuplicate(o) => RowsHeld'
    BY <2>1 DEF ReplayDuplicate, Replay, Reply, Go, inventoryVars, PlacementInv, RunTyped
  <2>10. Crash(o) => RowsHeld'
    BY CloseHeld DEF Crash, Reply, Go, inventoryVars, PlacementInv, RunTyped
  <2>11. Lapse(o) => RowsHeld'
    BY DEF Lapse, inventoryVars, PlacementInv, RowsHeld
  <2> QED
    BY <1>1, <2>2, <2>3, <2>4, <2>5, <2>6, <2>7, <2>8, <2>9, <2>10, <2>11, LockHeld, CommitHeld
    DEF Serve
<1>2. ASSUME NEW x \in Adjustments, Discover(x)
      PROVE  RowsHeld'
  BY <1>2 DEF Discover, inventoryVars, callVars, PlacementInv, RowsHeld
<1>3. ASSUME NEW x \in Adjustments, LockProduct(x)
      PROVE  RowsHeld'
  <2>1. \A r \in Rows : holder'[r] = holder[r] \/ holder'[r] \notin Orders
    BY <1>3, AdjustmentTyped, PlacementAssumption DEF LockProduct, PlacementInv, RunTyped
  <2> QED
    BY <1>3, <2>1 DEF LockProduct, inventoryVars, callVars, PlacementInv, RowsHeld
<1>4. ASSUME NEW x \in Adjustments, Settle(x)
      PROVE  RowsHeld'
  <2>1. \A r \in Rows : holder'[r] = holder[r] \/ holder'[r] \notin Orders
    BY <1>4, PlacementAssumption DEF Settle, Without, Actors
  <2>2. \A i \in Items : i # x.item => stock'[i] = stock[i]
    BY <1>4 DEF Settle, inventoryVars, PlacementInv, RunTyped
  <2>3. holder[x.item] = NoOne /\ NoOne \notin Orders
    BY <1>4, PlacementAssumption DEF Settle, Actors
  <2>4. UNCHANGED <<at, seen, onSale>>
    BY <1>4 DEF Settle, callVars
  <2> QED
    BY <2>1, <2>2, <2>3, <2>4 DEF PlacementInv, RowsHeld
<1>5. ASSUME NEW r \in Rows, ChangeSale(r)
      PROVE  RowsHeld'
  <2>1. \A s \in Rows : s # r /\ s \in onSale => s \in onSale'
    BY <1>5 DEF ChangeSale
  <2>2. holder[r] \notin Orders /\ UNCHANGED <<holder, at, seen, stock>>
    BY <1>5, PlacementAssumption DEF ChangeSale, Actors, inventoryVars, callVars
  <2> QED
    BY <2>1, <2>2 DEF PlacementInv, RowsHeld
<1> QED
  BY <1>1, <1>2, <1>3, <1>4, <1>5 DEF PlacementNext

-----------------------------------------------------------------------------
(* What is stored changes only when a placement commits on a free key.     *)
Stores(o) == Commit(o) /\ KeyFree(o)

LEMMA WhoStores ==
  ASSUME PlacementInv, PlacementNext
  PROVE  UNCHANGED reservation \/ \E o \in Orders : Stores(o)
<1>1. ASSUME NEW o \in Orders, Serve(o)
      PROVE  UNCHANGED reservation \/ Stores(o)
  BY <1>1 DEF Serve, Ask, Acquire, FailToAcquire, Open, LockRow, RefuseShort, Commit,
    FailTransaction, Unlock, ReplayDuplicate, Crash, Lapse, inventoryVars, Stores
<1>2. ASSUME NEW x \in Adjustments, Discover(x) \/ LockProduct(x) \/ Settle(x)
      PROVE  UNCHANGED reservation
  BY <1>2 DEF Discover, LockProduct, Settle, inventoryVars
<1>3. ASSUME NEW r \in Rows, ChangeSale(r)
      PROVE  UNCHANGED reservation
  BY <1>3 DEF ChangeSale, inventoryVars
<1> QED
  BY <1>1, <1>2, <1>3 DEF PlacementNext

LEMMA StoresOne ==
  ASSUME PlacementInv, NEW o \in Orders, Stores(o)
  PROVE  \A q \in Orders : Placed(q)' <=> Placed(q) \/ q = o
<1>1. reservation' = [reservation EXCEPT ![o] =
        [i \in Items |-> IF i \in LinesOf(o) THEN "RESERVED" ELSE "NONE"]]
  BY DEF Stores, Commit
<1>2. \A q \in Orders \ {o} : reservation'[q] = reservation[q]
  BY <1>1 DEF PlacementInv, RunTyped
<1>3. \E i \in Items : reservation'[o][i] # "NONE"
  BY <1>1, RowsTyped DEF PlacementInv, RunTyped
<1> QED
  BY <1>2, <1>3 DEF Placed

(* Once stored, always stored. *)
LEMMA PlacedGrows ==
  ASSUME PlacementInv, PlacementNext, NEW o \in Orders, Placed(o)
  PROVE  Placed(o)'
BY WhoStores, StoresOne, StoredStays

LEMMA KeysOfPlacedStep ==
  ASSUME PlacementInv, PlacementNext
  PROVE  KeysOfPlaced'
<1> SUFFICES ASSUME NEW o \in Orders, NEW m \in ledger', m.key = ReserveKey(o)
             PROVE  Placed(o)'
  BY DEF KeysOfPlaced, ReserveKey
<1>1. CASE m \in ledger
  BY <1>1, PlacedGrows DEF PlacementInv, KeysOfPlaced
<1>2. CASE m \notin ledger
  <2>1. ASSUME NEW q \in Orders, Serve(q)
        PROVE  Stores(q) /\ m.key = ReserveKey(q)
    BY <1>2, <2>1 DEF Serve, Ask, Acquire, FailToAcquire, Open, LockRow, RefuseShort, Commit,
      FailTransaction, Unlock, ReplayDuplicate, Crash, Lapse, inventoryVars, Stores
  <2>2. ASSUME NEW x \in Adjustments, Discover(x) \/ LockProduct(x) \/ Settle(x)
        PROVE  FALSE
    <3>1. m.key = x.key
      BY <1>2, <2>2 DEF Discover, LockProduct, Settle, inventoryVars
    <3>2. Requests \cap {ReserveKey(q) : q \in Orders} = {}
      BY PlacementAssumption
    <3> QED
      BY <2>2, <3>1, <3>2, AdjustmentTyped
  <2>3. ASSUME NEW r \in Rows, ChangeSale(r)
        PROVE  FALSE
    BY <1>2, <2>3 DEF ChangeSale, inventoryVars
  <2>4. PICK q \in Orders : Stores(q) /\ m.key = ReserveKey(q)
    BY <2>1, <2>2, <2>3 DEF PlacementNext
  <2> QED
    BY <2>4, StoresOne DEF ReserveKey
<1> QED
  BY <1>1, <1>2

-----------------------------------------------------------------------------
(* A step whose only placement is o leaves the answers of the others fit.  *)
AroundOne(o) ==
  \A q \in Orders \ {o} :
    at'[q] = at[q] /\ answer'[q] = answer[q] /\ key'[q] = key[q]

(* Stored orders stay, under their keys. *)
LEMMA OrdersStay ==
  ASSUME PlacementInv, PlacementNext,
         NEW o \in Orders, AroundOne(o), at[o] = "new" \/ key'[o] = key[o],
         NEW q \in Orders, Placed(q)
  PROVE  Placed(q)' /\ key'[q] = key[q]
BY PlacedGrows DEF AroundOne, PlacementInv, AnswersFit

(* It is enough to look at o itself, and at what o stores.                 *)
LEMMA AnswersAround ==
  ASSUME PlacementInv, PlacementNext,
         NEW o \in Orders, AroundOne(o), at[o] = "new" \/ key'[o] = key[o],
         \A q \in Orders \ {o} : Placed(q)' => Placed(q),
         Placed(o)' => at'[o] \in {"unlocking", "replaying", "done"},
         Placed(o)' /\ ~Placed(o) => KeyFree(o) /\ key'[o] = key[o],
         at'[o] \in {"new", "locking", "locked", "rows"} => answer'[o] = "none",
         answer'[o] = "duplicate" =>
           /\ at'[o] \in {"unlocking", "replaying"}
           /\ \E q \in Orders : Placed(q)' /\ key'[q] = key'[o],
         \A q \in Orders : answer'[o] = q =>
           Placed(q)' /\ key'[q] = key'[o] /\ Fingerprint[q] = Fingerprint[o],
         answer'[o] = "conflict" => \E q \in Orders :
           Placed(q)' /\ key'[q] = key'[o] /\ Fingerprint[q] # Fingerprint[o]
  PROVE  AnswersFit'
<1>1. ASSUME NEW p \in Orders, NEW q \in Orders, Placed(p)', Placed(q)', key'[p] = key'[q]
      PROVE  p = q
  <2>1. CASE p # o /\ q # o
    BY <2>1, <1>1 DEF AroundOne, PlacementInv, AnswersFit
  <2>2. ASSUME NEW s \in Orders \ {o}, Placed(s)', key'[s] = key'[o], Placed(o)'
        PROVE  FALSE
    <3>1. Placed(s) /\ key[s] = key'[o]
      BY <2>2 DEF AroundOne
    <3>2. CASE Placed(o)
      BY <3>1, <3>2 DEF PlacementInv, AnswersFit
    <3>3. CASE ~Placed(o)
      BY <2>2, <3>1, <3>3 DEF KeyFree, UnderKey
    <3> QED
      BY <3>2, <3>3
  <2> QED
    BY <1>1, <2>1, <2>2
<1>2. ASSUME NEW q \in Orders \ {o}
      PROVE  /\ Placed(q)' => at'[q] \in {"unlocking", "replaying", "done"}
             /\ at'[q] \in {"new", "locking", "locked", "rows"} => answer'[q] = "none"
             /\ \A p \in Orders : answer'[q] = p =>
                  Placed(p)' /\ key'[p] = key'[q] /\ Fingerprint[p] = Fingerprint[q]
             /\ answer'[q] = "conflict" => \E p \in Orders :
                  Placed(p)' /\ key'[p] = key'[q] /\ Fingerprint[p] # Fingerprint[q]
             /\ answer'[q] = "duplicate" =>
                  /\ at'[q] \in {"unlocking", "replaying"}
                  /\ \E p \in Orders : Placed(p)' /\ key'[p] = key'[q]
  BY OrdersStay DEF AroundOne, PlacementInv, AnswersFit
<1>3. \A q \in Orders : q = o \/ q \in Orders \ {o}
  OBVIOUS
<1> QED
  BY <1>1, <1>2, <1>3 DEF AnswersFit

(* An answer found under the key of the call.                              *)
LEMMA ReplayFits ==
  ASSUME PlacementInv, NEW o \in Orders, NEW k, NEW stage \in {"unlocking", "done"},
         Replay(o, k, stage), UNCHANGED reservation, key'[o] = k,
         \A q \in Orders : Placed(q) => key'[q] = key[q]
  PROVE  /\ AroundOne(o) <=> \A q \in Orders \ {o} : key'[q] = key[q]
         /\ at'[o] = stage
         /\ answer'[o] # "duplicate"
         /\ \A q \in Orders : answer'[o] = q =>
              Placed(q)' /\ key'[q] = key'[o] /\ Fingerprint[q] = Fingerprint[o]
         /\ answer'[o] = "conflict" => \E q \in Orders :
              Placed(q)' /\ key'[q] = key'[o] /\ Fingerprint[q] # Fingerprint[o]
<1>1. PICK p \in UnderKey(k) :
        Reply(o, IF Fingerprint[p] = Fingerprint[o] THEN p ELSE "conflict", stage)
  BY DEF Replay
<1>2. p \in Orders /\ Placed(p)' /\ key'[p] = key'[o]
  BY StoredStays DEF UnderKey
<1>3. /\ at'[o] = stage
      /\ answer'[o] = IF Fingerprint[p] = Fingerprint[o] THEN p ELSE "conflict"
      /\ \A q \in Orders \ {o} : at'[q] = at[q] /\ answer'[q] = answer[q]
  BY <1>1 DEF Reply, Go, PlacementInv, RunTyped
<1>4. "conflict" \notin Orders /\ "duplicate" \notin Orders
  BY PlacementAssumption DEF Verdicts
<1> QED
  BY <1>2, <1>3, <1>4 DEF AroundOne

(* A step of o that stores nothing and finds nothing.                      *)
LEMMA AnswersPlain ==
  ASSUME PlacementInv, PlacementNext, NEW o \in Orders, AroundOne(o),
         UNCHANGED <<reservation, key>>,
         Placed(o) => at'[o] \in {"unlocking", "replaying", "done"},
         at'[o] \in {"new", "locking", "locked", "rows"} => answer'[o] = "none",
         \/ answer'[o] \in {"none", "refused", "busy", "failed", "lost"}
         \/ answer'[o] = answer[o] /\ answer[o] # "duplicate"
         \/ answer'[o] = answer[o] /\ at'[o] \in {"unlocking", "replaying"}
  PROVE  AnswersFit'
<1>1. \A q \in Orders : Placed(q)' <=> Placed(q)
  BY StoredStays
<1>2. \A q \in Orders : q \notin {"none", "refused", "busy", "failed", "lost", "duplicate", "conflict"}
  BY PlacementAssumption DEF Verdicts
<1> QED
  BY <1>1, <1>2, AnswersAround DEF PlacementInv, AnswersFit

LEMMA AnswersServed ==
  ASSUME PlacementInv, PlacementNext, NEW o \in Orders, Serve(o)
  PROVE  AnswersFit'
<1>1. \A q \in Orders : q \notin Verdicts
  BY PlacementAssumption
<1>2. ASSUME NEW k \in Keys, Ask(o, k)
      PROVE  AnswersFit'
  <2>1. /\ at[o] = "new" /\ ~Placed(o) /\ UNCHANGED reservation
        /\ key'[o] = k /\ \A q \in Orders \ {o} : key'[q] = key[q]
    BY <1>2 DEF Ask, inventoryVars, PlacementInv, RunTyped, AnswersFit
  <2>2. \A q \in Orders : (Placed(q)' <=> Placed(q)) /\ (Placed(q) => key'[q] = key[q])
    BY <2>1, StoredStays
  <2>3. CASE UnderKey(k) # {}
    <3>1. Replay(o, k, "done")
      BY <1>2, <2>3 DEF Ask
    <3> QED
      BY <2>1, <2>2, <3>1, ReplayFits, AnswersAround
  <2>4. CASE UnderKey(k) = {}
    <3>1. /\ AroundOne(o) /\ at'[o] = "locking" /\ answer'[o] = "none"
      BY <1>2, <2>1, <2>4 DEF Ask, Go, AroundOne, PlacementInv, RunTyped, AnswersFit
    <3> QED
      BY <1>1, <2>1, <2>2, <3>1, AnswersAround DEF Verdicts
  <2> QED
    BY <2>3, <2>4
<1> DEFINE early == at[o] \in {"new", "locking", "locked", "rows"}
<1>a. early => answer[o] = "none" /\ ~Placed(o)
  BY DEF PlacementInv, AnswersFit
<1>3. ASSUME Acquire(o)
      PROVE  AnswersFit'
  <2>1. early /\ UNCHANGED <<reservation, key, answer>>
    BY <1>3 DEF Acquire, inventoryVars
  <2>2. AroundOne(o)
    BY <1>3 DEF Acquire, Go, AroundOne, PlacementInv, RunTyped
  <2> QED
    BY <1>a, <2>1, <2>2, AnswersPlain
<1>4. ASSUME FailToAcquire(o)
      PROVE  AnswersFit'
  <2>1. early /\ UNCHANGED <<reservation, key>>
    BY <1>4 DEF FailToAcquire, inventoryVars
  <2>2. AroundOne(o) /\ (answer'[o] = answer[o] \/ (at'[o] = "done" /\ answer'[o] = "busy"))
    <3>1. CASE tries[o] < MaxRetries
      <4>1. at' = at /\ answer' = answer
        BY <1>4, <3>1 DEF FailToAcquire
      <4> QED
        BY <2>1, <4>1 DEF AroundOne
    <3>2. CASE ~(tries[o] < MaxRetries)
      BY <1>4, <3>2 DEF FailToAcquire, Reply, Go, AroundOne, PlacementInv, RunTyped
    <3> QED
      BY <3>1, <3>2
  <2> QED
    BY <1>a, <2>1, <2>2, AnswersPlain
<1>5. ASSUME Open(o)
      PROVE  AnswersFit'
  <2>1. UNCHANGED <<reservation, key>> /\ at[o] = "locked" /\ ~Placed(o)
    BY <1>5 DEF Open, inventoryVars, PlacementInv, AnswersFit
  <2>2. CASE UnderKey(key[o]) # {}
    <3>1. Replay(o, key[o], "unlocking")
      BY <1>5, <2>2 DEF Open
    <3>2. \A q \in Orders : Placed(q)' <=> Placed(q)
      BY <2>1, StoredStays
    <3> QED
      BY <2>1, <3>1, <3>2, ReplayFits, AnswersAround
  <2>3. CASE UnderKey(key[o]) = {}
    <3>1. AroundOne(o) /\ UNCHANGED answer
      BY <1>5, <2>1, <2>3 DEF Open, Go, AroundOne, PlacementInv, RunTyped
    <3> QED
      BY <1>a, <2>1, <3>1, AnswersPlain
  <2> QED
    BY <2>2, <2>3
<1>6. ASSUME NEW r \in Rows, LockRow(o, r)
      PROVE  AnswersFit'
  BY <1>6, AnswersPlain
  DEF LockRow, Wanted, Reply, Go, AroundOne, inventoryVars, PlacementInv, RunTyped, AnswersFit
<1>7. RefuseShort(o) => AnswersFit'
  BY AnswersPlain DEF RefuseShort, Reply, Go, AroundOne, inventoryVars, PlacementInv, RunTyped
<1>8. ASSUME Commit(o)
      PROVE  AnswersFit'
  <2>1. at[o] = "rows" /\ ~Placed(o) /\ UNCHANGED key
    BY <1>8 DEF Commit, HasRows, PlacementInv, AnswersFit
  <2>2. CASE KeyFree(o)
    <3>1. \A q \in Orders : Placed(q)' <=> Placed(q) \/ q = o
      BY <1>8, <2>2, StoresOne DEF Stores
    <3>2. AroundOne(o) /\ at'[o] = "unlocking" /\ answer'[o] = o
      BY <1>8, <2>1, <2>2 DEF Commit, Reply, Go, AroundOne, PlacementInv, RunTyped
    <3>3. o # "none" /\ o # "conflict" /\ o # "duplicate"
      BY <1>1 DEF Verdicts
    <3> QED
      BY <2>1, <2>2, <3>1, <3>2, <3>3, AnswersAround
  <2>3. CASE ~KeyFree(o)
    <3>1. /\ UNCHANGED reservation
          /\ AroundOne(o) /\ at'[o] = "unlocking" /\ answer'[o] = "duplicate"
      BY <1>8, <2>1, <2>3 DEF Commit, Reply, Go, AroundOne, inventoryVars, PlacementInv, RunTyped
    <3>2. \A q \in Orders : Placed(q)' <=> Placed(q)
      BY <3>1, StoredStays
    <3>3. PICK p \in Orders : Placed(p)' /\ key'[p] = key'[o]
      BY <2>1, <2>3, <3>2 DEF KeyFree, UnderKey
    <3>4. \A q \in Orders : q # "duplicate"
      BY <1>1 DEF Verdicts
    <3> QED
      BY <2>1, <3>1, <3>2, <3>3, <3>4, AnswersAround
  <2> QED
    BY <2>2, <2>3
<1>9. FailTransaction(o) => AnswersFit'
  BY AnswersPlain DEF FailTransaction, Reply, Go, AroundOne, inventoryVars, PlacementInv, RunTyped
<1>10. Unlock(o) => AnswersFit'
  BY AnswersPlain DEF Unlock, Go, AroundOne, inventoryVars, PlacementInv, RunTyped, AnswersFit
<1>11. ASSUME ReplayDuplicate(o)
       PROVE  AnswersFit'
  <2>1. UNCHANGED <<reservation, key>> /\ at[o] = "replaying"
    BY <1>11 DEF ReplayDuplicate, inventoryVars
  <2>2. CASE UnderKey(key[o]) # {}
    <3>1. Replay(o, key[o], "done")
      BY <1>11, <2>2 DEF ReplayDuplicate
    <3>2. \A q \in Orders : Placed(q)' <=> Placed(q)
      BY <2>1, StoredStays
    <3> QED
      BY <2>1, <3>1, <3>2, ReplayFits, AnswersAround
  <2>3. CASE UnderKey(key[o]) = {}
    <3>1. answer[o] # "duplicate"
      BY <2>3 DEF UnderKey, PlacementInv, AnswersFit
    <3> QED
      <4>1. AroundOne(o) /\ at'[o] = "done" /\ UNCHANGED answer
        BY <1>11, <2>1, <2>3 DEF ReplayDuplicate, Go, AroundOne, PlacementInv, RunTyped
      <4> QED
        BY <2>1, <3>1, <4>1, AnswersPlain
  <2> QED
    BY <2>2, <2>3
<1>12. Crash(o) => AnswersFit'
  BY AnswersPlain DEF Crash, Reply, Go, AroundOne, inventoryVars, PlacementInv, RunTyped
<1>13. Lapse(o) => AnswersFit'
  BY StoredStays DEF Lapse, inventoryVars, PlacementInv, AnswersFit
<1> QED
  BY <1>2, <1>3, <1>4, <1>5, <1>6, <1>7, <1>8, <1>9, <1>10, <1>11, <1>12, <1>13 DEF Serve

LEMMA AnswersStep ==
  ASSUME PlacementInv, PlacementNext
  PROVE  AnswersFit'
<1>1. ASSUME NEW x \in Adjustments, Discover(x) \/ LockProduct(x) \/ Settle(x)
      PROVE  AnswersFit'
  BY <1>1, StoredStays
  DEF Discover, LockProduct, Settle, inventoryVars, callVars, PlacementInv, AnswersFit
<1>2. ASSUME NEW r \in Rows, ChangeSale(r)
      PROVE  AnswersFit'
  BY <1>2, StoredStays DEF ChangeSale, inventoryVars, callVars, PlacementInv, AnswersFit
<1> QED
  BY <1>1, <1>2, AnswersServed DEF PlacementNext

-----------------------------------------------------------------------------
(* A step of o past the lock that stores nothing. *)
LEMMA GuardsOnward ==
  ASSUME PlacementInv, NEW o \in Orders,
         UNCHANGED <<key, reservation, guards, lapsed>>,
         \A q \in Orders \ {o} : at'[q] = at[q],
         at'[o] \notin {"new", "locking", "locked"},
         at'[o] = "rows" => at[o] \in {"locked", "rows"} /\ KeyFree(o)
  PROVE  GuardsApart'
<1>1. \A q \in Orders : KeyFree(q)' <=> KeyFree(q)
  BY StoredStays DEF KeyFree, UnderKey
<1>2. \A q \in guards : q \in Orders
  BY DEF PlacementInv, RunTyped
<1>3. \A q, p \in guards : Clash(q, p)' <=> Clash(q, p)
  BY DEF Clash, LinesOf
<1> QED
  BY <1>1, <1>2, <1>3 DEF PlacementInv, GuardsApart

LEMMA GuardsServed ==
  ASSUME PlacementInv, PlacementNext, NEW o \in Orders, Serve(o)
  PROVE  GuardsApart'
<1>1. guards \subseteq Orders
  BY DEF PlacementInv, RunTyped
<1>2. ASSUME NEW k \in Keys, Ask(o, k)
      PROVE  GuardsApart'
  <2>1. /\ at[o] = "new" /\ ~Placed(o) /\ UNCHANGED <<reservation, guards, lapsed>>
        /\ \A q \in Orders \ {o} : key'[q] = key[q]
    BY <1>2 DEF Ask, inventoryVars, PlacementInv, RunTyped, AnswersFit
  <2>2. \A q \in Orders \ {o} : at'[q] = at[q]
    BY <1>2 DEF Ask, Replay, Reply, Go, PlacementInv, RunTyped
  <2>3. at'[o] \in {"locking", "done"}
    BY <1>2 DEF Ask, Replay, Reply, Go, PlacementInv, RunTyped
  <2>4. o \notin guards
    BY <2>1 DEF PlacementInv, GuardsApart
  <2>5. \A q \in Orders \ {o} : KeyFree(q) => KeyFree(q)'
    BY <2>1, StoredStays DEF KeyFree, UnderKey
  <2>6. \A q, p \in guards : Clash(q, p)' <=> Clash(q, p)
    BY <1>1, <2>1, <2>4 DEF Clash, LinesOf
  <2> QED
    BY <1>1, <2>1, <2>2, <2>3, <2>4, <2>5, <2>6 DEF PlacementInv, GuardsApart
<1>3. ASSUME Acquire(o)
      PROVE  GuardsApart'
  <2>1. /\ at[o] = "locking" /\ guards' = guards \cup {o}
        /\ \A q \in guards : ~Clash(o, q)
        /\ UNCHANGED <<reservation, key, lapsed>>
    BY <1>3 DEF Acquire, inventoryVars
  <2>2. \A q \in Orders : at'[q] = IF q = o THEN "locked" ELSE at[q]
    BY <1>3 DEF Acquire, Go, PlacementInv, RunTyped
  <2>3. \A q \in Orders : KeyFree(q)' <=> KeyFree(q)
    BY <2>1, StoredStays DEF KeyFree, UnderKey
  <2>4. \A q, p \in Orders : (Clash(q, p)' <=> Clash(q, p)) /\ (Clash(q, p) => Clash(p, q))
    BY <2>1 DEF Clash, LinesOf
  <2> QED
    BY <1>1, <2>1, <2>2, <2>3, <2>4 DEF PlacementInv, GuardsApart
<1>4. ASSUME FailToAcquire(o)
      PROVE  GuardsApart'
  <2>1. UNCHANGED <<reservation, key, guards, lapsed>> /\ at[o] = "locking"
    BY <1>4 DEF FailToAcquire, inventoryVars
  <2>2. CASE tries[o] < MaxRetries
    <3>1. UNCHANGED at
      BY <1>4, <2>2 DEF FailToAcquire
    <3>2. \A q \in Orders : KeyFree(q)' <=> KeyFree(q)
      BY <2>1, StoredStays DEF KeyFree, UnderKey
    <3>3. \A q, p \in guards : Clash(q, p)' <=> Clash(q, p)
      BY <2>1 DEF Clash, LinesOf
    <3> QED
      BY <1>1, <2>1, <3>1, <3>2, <3>3 DEF PlacementInv, GuardsApart
  <2>3. CASE ~(tries[o] < MaxRetries)
    <3>1. at' = [at EXCEPT ![o] = "done"]
      BY <1>4, <2>3 DEF FailToAcquire, Reply, Go
    <3> QED
      BY <2>1, <3>1, GuardsOnward DEF PlacementInv, RunTyped
  <2> QED
    BY <2>2, <2>3
<1>5. ASSUME Open(o)
      PROVE  GuardsApart'
  <2>1. UNCHANGED <<reservation, key, guards, lapsed>> /\ at[o] = "locked"
    BY <1>5 DEF Open, inventoryVars
  <2>2. \/ at' = [at EXCEPT ![o] = "unlocking"]
        \/ at' = [at EXCEPT ![o] = "rows"] /\ KeyFree(o)
    BY <1>5 DEF Open, Replay, Reply, Go, KeyFree
  <2> QED
    BY <2>1, <2>2, GuardsOnward DEF PlacementInv, RunTyped
<1>6. ASSUME NEW r \in Rows, LockRow(o, r)
      PROVE  GuardsApart'
  <2>1. UNCHANGED <<reservation, key, guards, lapsed>> /\ at[o] = "rows"
    BY <1>6 DEF LockRow, Wanted, inventoryVars
  <2>2. UNCHANGED at \/ at' = [at EXCEPT ![o] = "unlocking"]
    BY <1>6 DEF LockRow, Reply, Go
  <2>3. CASE UNCHANGED at
    <3>1. \A q \in Orders : KeyFree(q)' <=> KeyFree(q)
      BY <2>1, StoredStays DEF KeyFree, UnderKey
    <3>2. \A q, p \in guards : Clash(q, p)' <=> Clash(q, p)
      BY <2>1 DEF Clash, LinesOf
    <3> QED
      BY <1>1, <2>1, <2>3, <3>1, <3>2 DEF PlacementInv, GuardsApart
  <2> QED
    BY <2>1, <2>2, <2>3, GuardsOnward DEF PlacementInv, RunTyped
<1>7. RefuseShort(o) => GuardsApart'
  BY GuardsOnward DEF RefuseShort, Reply, Go, inventoryVars, PlacementInv, RunTyped
<1>8. ASSUME Commit(o)
      PROVE  GuardsApart'
  <2>1. UNCHANGED <<key, guards, lapsed>> /\ at[o] = "rows" /\ at' = [at EXCEPT ![o] = "unlocking"]
    BY <1>8 DEF Commit, HasRows, Reply, Go
  <2>2. CASE ~KeyFree(o)
    BY <1>8, <2>1, <2>2, GuardsOnward DEF Commit, inventoryVars, PlacementInv, RunTyped
  <2>3. CASE KeyFree(o)
    <3>1. \A q \in Orders : Placed(q)' <=> Placed(q) \/ q = o
      BY <1>8, <2>3, StoresOne DEF Stores
    <3>2. ASSUME ~lapsed, NEW q \in Orders \ {o}, at[q] = "rows"
          PROVE  KeyFree(q)'
      <4>1. o \in guards /\ q \in guards /\ KeyFree(q)
        BY <2>1, <3>2 DEF PlacementInv, GuardsApart
      <4>2. key[q] # key[o]
        BY <4>1 DEF Clash, PlacementInv, GuardsApart
      <4> QED
        BY <2>1, <3>1, <4>1, <4>2 DEF KeyFree, UnderKey
    <3>3. \A q \in Orders : at'[q] = IF q = o THEN "unlocking" ELSE at[q]
      BY <2>1 DEF PlacementInv, RunTyped
    <3>4. \A q, p \in guards : Clash(q, p)' <=> Clash(q, p)
      BY <2>1 DEF Clash, LinesOf
    <3> QED
      BY <1>1, <2>1, <3>2, <3>3, <3>4 DEF PlacementInv, GuardsApart
  <2> QED
    BY <2>2, <2>3
<1>9. FailTransaction(o) => GuardsApart'
  BY GuardsOnward DEF FailTransaction, Reply, Go, inventoryVars, PlacementInv, RunTyped
<1>10. ASSUME guards' = guards \ {o}, UNCHANGED <<reservation, key>>,
              at[o] \in {"locked", "rows"} => lapsed',
              lapsed => lapsed', at'[o] \notin {"locked", "rows"} \/ lapsed',
              \A q \in Orders \ {o} : at'[q] = at[q]
       PROVE  GuardsApart'
  <2>1. \A q \in Orders : KeyFree(q)' <=> KeyFree(q)
    BY <1>10, StoredStays DEF KeyFree, UnderKey
  <2>2. \A q, p \in guards : Clash(q, p)' <=> Clash(q, p)
    BY <1>10 DEF Clash, LinesOf
  <2> QED
    BY <1>1, <1>10, <2>1, <2>2 DEF PlacementInv, GuardsApart
<1>11. ASSUME Unlock(o)
       PROVE  GuardsApart'
  <2>1. /\ UNCHANGED <<reservation, key, lapsed>> /\ at[o] = "unlocking"
        /\ guards' = guards \ {o} \/ guards' = guards
        /\ at'[o] \in {"replaying", "done"}
        /\ \A q \in Orders \ {o} : at'[q] = at[q]
    BY <1>11 DEF Unlock, Go, inventoryVars, PlacementInv, RunTyped
  <2> QED
    BY <1>10, <2>1, GuardsOnward
<1>12. ASSUME ReplayDuplicate(o)
       PROVE  GuardsApart'
  <2>1. UNCHANGED <<reservation, key, guards, lapsed>> /\ at' = [at EXCEPT ![o] = "done"]
    BY <1>12 DEF ReplayDuplicate, Replay, Reply, Go, inventoryVars
  <2> QED
    BY <2>1, GuardsOnward DEF PlacementInv, RunTyped
<1>13. Crash(o) => GuardsApart'
  BY GuardsOnward DEF Crash, Reply, Go, inventoryVars, PlacementInv, RunTyped
<1>14. Lapse(o) => GuardsApart'
  BY <1>10 DEF Lapse, inventoryVars, PlacementInv, RunTyped
<1> QED
  BY <1>2, <1>3, <1>4, <1>5, <1>6, <1>7, <1>8, <1>9, <1>11, <1>12, <1>13, <1>14 DEF Serve

LEMMA GuardsStep ==
  ASSUME PlacementInv, PlacementNext
  PROVE  GuardsApart'
<1>1. ASSUME UNCHANGED <<reservation, key, guards, lapsed, at>>
      PROVE  GuardsApart'
  <2>1. \A q \in Orders : KeyFree(q)' <=> KeyFree(q)
    BY <1>1, StoredStays DEF KeyFree, UnderKey
  <2>2. \A q, p \in guards : Clash(q, p)' <=> Clash(q, p)
    BY <1>1 DEF Clash, LinesOf
  <2> QED
    BY <1>1, <2>1, <2>2 DEF PlacementInv, GuardsApart
<1>2. ASSUME NEW x \in Adjustments, Discover(x) \/ LockProduct(x) \/ Settle(x)
      PROVE  GuardsApart'
  BY <1>1, <1>2 DEF Discover, LockProduct, Settle, inventoryVars, callVars
<1>3. ASSUME NEW r \in Rows, ChangeSale(r)
      PROVE  GuardsApart'
  BY <1>1, <1>3 DEF ChangeSale, inventoryVars, callVars
<1> QED
  BY <1>2, <1>3, GuardsServed DEF PlacementNext

-----------------------------------------------------------------------------
LEMMA PlacementStep ==
  ASSUME PlacementInv, [PlacementNext]_placementVars
  PROVE  PlacementInv'
<1>1. CASE PlacementNext
  BY <1>1, TypedStep, HeldStep, KeysOfPlacedStep, AnswersStep, GuardsStep DEF PlacementInv
<1>2. CASE UNCHANGED placementVars
  <2>1. UNCHANGED <<stock, reservation, ledger, key, onSale, guards, holder, at, seen, answer, lapsed>>
    BY <1>2 DEF placementVars, inventoryVars, callVars
  <2>2. RunTyped' /\ RowsHeld'
    BY <2>1 DEF PlacementInv, RunTyped, RowsHeld
  <2>3. KeysOfPlaced' /\ AnswersFit'
    BY <2>1, StoredStays DEF PlacementInv, KeysOfPlaced, AnswersFit, ReserveKey
  <2>4. GuardsApart'
    BY <2>1 DEF PlacementInv, GuardsApart, KeyFree, UnderKey, Placed, Clash, LinesOf
  <2> QED
    BY <2>2, <2>3, <2>4 DEF PlacementInv
<1> QED
  BY <1>1, <1>2

LEMMA PlacementInvariant == PlacementSpec => []PlacementInv
<1>1. PlacementInit => PlacementInv
  BY PlacementInit0
<1>2. PlacementInv /\ [PlacementNext]_placementVars => PlacementInv'
  BY PlacementStep
<1> QED
  BY <1>1, <1>2, PTL DEF PlacementSpec

(* A key has one order, an answer names it, a conflict has its reason and  *)
(* a violated index is resolved, for any calls, keys, faults and lapses    *)
(* (order.service.ts 59-84).                                               *)
THEOREM AnswersCorrect == PlacementSpec => []AnswersNameTheOrder
<1>1. PlacementInv => AnswersNameTheOrder
  BY DEF PlacementInv, AnswersFit, AnswersNameTheOrder, UnderKey
<1> QED
  BY <1>1, PlacementInvariant, PTL

(* Statement by statement, what commits is one placement or adjustment of  *)
(* Inventory, whether or not the distributed lock holds                    *)
(* (order.service.ts 142-240, inventory.service.ts 81-227).                *)
THEOREM AtomicAfterAllCorrect == PlacementSpec => AtomicAfterAll
<1> DEFINE Whole == \/ \E o \in Orders : Reserve(o) /\ RowsOf(o) \subseteq onSale
                    \/ \E x \in Adjustments : Adjust(x.item, x.key, x.delta)
<1>1. ASSUME PlacementInv, [PlacementNext]_placementVars
      PROVE  [Whole]_inventoryVars
  <2>1. ASSUME NEW o \in Orders, Stores(o)
        PROVE  Reserve(o) /\ RowsOf(o) \subseteq onSale
    <3>1. /\ HasRows(o) /\ Enough(o)
          /\ stock' = [i \in Items |-> IF i \in LinesOf(o)
                                         THEN seen[o][i] - Demand[o][i] ELSE stock[i]]
      BY <2>1 DEF Stores, Commit
    <3>2. \A i \in LinesOf(o) : seen[o][i] = stock[i] /\ stock[i] >= Demand[o][i]
      BY <1>1, <3>1, ReadIsStock DEF Enough
    <3>3. \A i \in Items : i \notin LinesOf(o) => stock[i] - Demand[o][i] = stock[i]
      BY <1>1, InventoryAssumption DEF LinesOf, PlacementInv, RunTyped
    <3>4. stock' = [i \in Items |-> stock[i] - Demand[o][i]]
      BY <3>1, <3>2, <3>3
    <3>5. ~Placed(o)
      BY <1>1, <3>1 DEF HasRows, PlacementInv, AnswersFit
    <3>6. \A i \in LinesOf(o) : ~Recorded(i, ReserveKey(o))
      BY <1>1, <3>5 DEF Recorded, PlacementInv, KeysOfPlaced
    <3>7. RowsOf(o) \subseteq onSale
      BY <1>1, <3>1, RowsTyped DEF HasRows, PlacementInv, RowsHeld
    <3> QED
      BY <2>1, <3>2, <3>4, <3>6, <3>7 DEF Reserve, Stores, Commit
  <2>2. ASSUME NEW o \in Orders, Serve(o)
        PROVE  UNCHANGED inventoryVars \/ Stores(o)
    BY <2>2 DEF Serve, Ask, Acquire, FailToAcquire, Open, LockRow, RefuseShort, Commit,
      FailTransaction, Unlock, ReplayDuplicate, Crash, Lapse, Stores
  <2>3. ASSUME NEW x \in Adjustments, Discover(x) \/ LockProduct(x) \/ Settle(x)
        PROVE  UNCHANGED inventoryVars \/ Adjust(x.item, x.key, x.delta)
    BY <2>3 DEF Discover, LockProduct, Settle, IndexFree, Adjust
  <2>4. ASSUME NEW r \in Rows, ChangeSale(r)
        PROVE  UNCHANGED inventoryVars
    BY <2>4 DEF ChangeSale
  <2>5. CASE PlacementNext
    BY <2>1, <2>2, <2>3, <2>4, <2>5 DEF PlacementNext
  <2>6. CASE UNCHANGED placementVars
    BY <2>6 DEF placementVars
  <2> QED
    BY <1>1, <2>5, <2>6
<1> QED
  BY <1>1, PlacementInvariant, PTL DEF PlacementSpec, AtomicAfterAll

(* As long as no distributed lock lapsed on a call at work, no retry is    *)
(* refused goods its own order already has (order.service.ts 62-77).       *)
THEOREM LockSparesRetriesCorrect == PlacementSpec => LockSparesRetries
<1> DEFINE Spared == \A o \in Orders :
                       answer[o] = "none" /\ answer'[o] = "refused" => KeyFree(o) \/ lapsed
<1>1. ASSUME PlacementInv, [PlacementNext]_placementVars
      PROVE  [Spared]_placementVars
  <2>1. ASSUME NEW o \in Orders, answer[o] = "none", answer'[o] = "refused", PlacementNext
        PROVE  at[o] = "rows"
    <3>1. \A q \in Orders : q # "refused"
      BY PlacementAssumption DEF Verdicts
    <3>2. PICK p \in Orders : Serve(p)
      BY <2>1 DEF PlacementNext, Discover, LockProduct, Settle, ChangeSale, callVars
    <3>3. CASE \E k \in Keys : Ask(p, k)
      BY <1>1, <2>1, <3>1, <3>3 DEF Ask, Replay, Reply, UnderKey, PlacementInv, RunTyped
    <3>4. CASE FailToAcquire(p) \/ FailTransaction(p) \/ Crash(p) \/ Commit(p)
      BY <1>1, <2>1, <3>1, <3>4
      DEF FailToAcquire, FailTransaction, Crash, Commit, Reply, PlacementInv, RunTyped
    <3>5. CASE Open(p) \/ ReplayDuplicate(p)
      BY <1>1, <2>1, <3>1, <3>5 DEF Open, ReplayDuplicate, Replay, Reply, UnderKey, PlacementInv, RunTyped
    <3>6. CASE Acquire(p) \/ Unlock(p) \/ Lapse(p)
      BY <2>1, <3>6 DEF Acquire, Unlock, Lapse
    <3>7. CASE RefuseShort(p) \/ \E r \in Rows : LockRow(p, r)
      BY <1>1, <2>1, <3>7 DEF RefuseShort, HasRows, LockRow, Wanted, Reply, PlacementInv, RunTyped
    <3> QED
      BY <3>2, <3>3, <3>4, <3>5, <3>6, <3>7 DEF Serve
  <2> QED
    BY <1>1, <2>1 DEF PlacementInv, GuardsApart
<1> QED
  BY <1>1, PlacementInvariant, PTL DEF PlacementSpec, LockSparesRetries

-----------------------------------------------------------------------------
(* Whoever holds a row holds every row of its own that comes before it.    *)
RowsInOrder ==
  /\ adjusting \in [Adjustments -> {"new", "product", "item", "done"}]
  /\ \A o \in Orders, r \in Rows : holder[r] = o => r \in RowsOf(o) /\ Due(o, r)
  /\ \A x \in Adjustments, r \in Rows :
       holder[r] = x => r = ProductOf[x.item] /\ adjusting[x] = "item"

(* A transaction that ends gives all its rows back. *)
LEMMA OrderAfterEnd ==
  ASSUME RunTyped, RowsInOrder, NEW a \in Actors, holder' = Without(a),
         adjusting' \in [Adjustments -> {"new", "product", "item", "done"}],
         \A x \in Adjustments : x # a => adjusting'[x] = adjusting[x]
  PROVE  RowsInOrder'
<1>1. \A r \in Rows : holder'[r] = (IF holder[r] = a THEN NoOne ELSE holder[r])
  BY DEF Without
<1>2. NoOne \notin Actors
  BY PlacementAssumption
<1>3. \A b \in Actors, r \in Rows : holder'[r] = b <=> holder[r] = b /\ b # a
  BY <1>1, <1>2
<1>4. \A o \in Orders, r \in Rows : holder'[r] = o => r \in RowsOf(o) /\ Due(o, r)'
  <2> SUFFICES ASSUME NEW o \in Orders, NEW r \in Rows, holder'[r] = o
               PROVE  r \in RowsOf(o) /\ Due(o, r)'
    OBVIOUS
  <2>1. o \in Actors /\ holder[r] = o /\ o # a
    BY <1>3 DEF Actors
  <2>2. r \in RowsOf(o) /\ Due(o, r)
    BY <2>1 DEF RowsInOrder
  <2> QED
    BY <1>3, <2>1, <2>2, RowsTyped DEF Due
<1>5. \A x \in Adjustments, r \in Rows :
        holder'[r] = x => r = ProductOf[x.item] /\ adjusting'[x] = "item"
  BY <1>3 DEF RowsInOrder, Actors
<1> QED
  BY <1>4, <1>5 DEF RowsInOrder, RowsOf, LinesOf

LEMMA OrderAfterClose ==
  ASSUME RunTyped, RowsInOrder, NEW o \in Orders, Close(o), UNCHANGED adjusting
  PROVE  RowsInOrder'
<1>1. o \in Actors /\ holder' = Without(o)
  BY DEF Close, Actors
<1>2. adjusting' = adjusting
  OBVIOUS
<1>3. adjusting' \in [Adjustments -> {"new", "product", "item", "done"}]
  BY DEF RowsInOrder
<1> QED
  BY <1>1, <1>2, <1>3, OrderAfterEnd

LEMMA OrderAfterLock ==
  ASSUME RunTyped, RowsInOrder, NEW o \in Orders, NEW r \in Rows, LockRow(o, r)
  PROVE  RowsInOrder'
<1>1. CASE r \notin onSale
  BY <1>1, OrderAfterClose DEF LockRow, adjustVars
<1>2. CASE r \in onSale
  <2>1. holder' = [holder EXCEPT ![r] = o] /\ UNCHANGED adjusting /\ holder[r] = NoOne
    BY <1>2 DEF LockRow, adjustVars
  <2>2. \A s \in Rows : holder'[s] = IF s = r THEN o ELSE holder[s]
    BY <2>1 DEF RunTyped
  <2>3. r \in RowsOf(o) /\ Due(o, r) /\ NoOne \notin Actors /\ o \notin Adjustments
    BY PlacementAssumption DEF LockRow, Wanted
  <2>4. \A q \in Orders, s \in Rows : holder'[s] = q => s \in RowsOf(q) /\ Due(q, s)'
    <3> SUFFICES ASSUME NEW q \in Orders, NEW s \in Rows, holder'[s] = q
                 PROVE  s \in RowsOf(q) /\ Due(q, s)'
      OBVIOUS
    <3>1. s \in RowsOf(q) /\ Due(q, s)
      BY <2>2, <2>3 DEF RowsInOrder
    <3>2. \A t \in Rows : holder[t] = q => holder'[t] = q
      BY <2>1, <2>2, <2>3 DEF Actors
    <3> QED
      BY <3>1, <3>2, RowsTyped DEF Due
  <2>5. \A x \in Adjustments, s \in Rows :
          holder'[s] = x => s = ProductOf[x.item] /\ adjusting'[x] = "item"
    BY <2>1, <2>2, <2>3 DEF RowsInOrder
  <2> QED
    BY <2>1, <2>4, <2>5 DEF RowsInOrder, RowsOf, LinesOf
<1> QED
  BY <1>1, <1>2

LEMMA OrderStep ==
  ASSUME RunTyped, RowsInOrder, [PlacementNext]_placementVars
  PROVE  RowsInOrder'
<1>1. UNCHANGED <<holder, adjusting>> => RowsInOrder'
  BY DEF RowsInOrder, Due, RowsOf, LinesOf
<1>2. ASSUME NEW o \in Orders, Serve(o)
      PROVE  RowsInOrder'
  <2>1. CASE \/ \E k \in Keys : Ask(o, k)
             \/ Acquire(o) \/ FailToAcquire(o) \/ Open(o)
             \/ Unlock(o) \/ ReplayDuplicate(o) \/ Lapse(o)
    BY <1>1, <2>1
    DEF Ask, Acquire, FailToAcquire, Open, Unlock, ReplayDuplicate, Lapse, adjustVars
  <2>2. CASE RefuseShort(o) \/ Commit(o) \/ FailTransaction(o) \/ Crash(o)
    BY <2>2, OrderAfterClose DEF RefuseShort, Commit, FailTransaction, Crash, adjustVars
  <2> QED
    BY <1>2, <2>1, <2>2, OrderAfterLock DEF Serve
<1>3. ASSUME NEW x \in Adjustments, Discover(x)
      PROVE  RowsInOrder'
  <2>1. UNCHANGED holder /\ adjusting[x] = "new" /\ adjusting' = [adjusting EXCEPT ![x] = "product"]
    BY <1>3 DEF Discover, Move
  <2>2. adjusting' \in [Adjustments -> {"new", "product", "item", "done"}]
    BY <2>1 DEF RowsInOrder
  <2>3. \A y \in Adjustments : adjusting'[y] = IF y = x THEN "product" ELSE adjusting[y]
    BY <2>1 DEF RowsInOrder
  <2>4. \A y \in Adjustments, r \in Rows :
          holder'[r] = y => r = ProductOf[y.item] /\ adjusting'[y] = "item"
    BY <2>1, <2>3 DEF RowsInOrder
  <2> QED
    BY <2>1, <2>2, <2>4 DEF RowsInOrder, Due, RowsOf, LinesOf
<1>4. ASSUME NEW x \in Adjustments, LockProduct(x)
      PROVE  RowsInOrder'
  <2> DEFINE p == ProductOf[x.item]
  <2>1. /\ holder[p] = NoOne /\ adjusting[x] = "product"
        /\ holder' = [holder EXCEPT ![p] = x]
        /\ adjusting' = [adjusting EXCEPT ![x] = "item"]
    BY <1>4 DEF LockProduct, Move
  <2>2. p \in Rows /\ NoOne \notin Actors /\ x \notin Orders
    BY AdjustmentTyped, PlacementAssumption
  <2>3. \A r \in Rows : holder'[r] = IF r = p THEN x ELSE holder[r]
    BY <2>1 DEF RunTyped
  <2>4. adjusting' \in [Adjustments -> {"new", "product", "item", "done"}]
    BY <2>1 DEF RowsInOrder
  <2>5. \A y \in Adjustments : adjusting'[y] = IF y = x THEN "item" ELSE adjusting[y]
    BY <2>1 DEF RowsInOrder
  <2> HIDE DEF p
  <2>6. \A q \in Orders, s \in Rows : holder'[s] = q => s \in RowsOf(q) /\ Due(q, s)'
    <3> SUFFICES ASSUME NEW q \in Orders, NEW s \in Rows, holder'[s] = q
                 PROVE  s \in RowsOf(q) /\ Due(q, s)'
      OBVIOUS
    <3>1. s \in RowsOf(q) /\ Due(q, s)
      BY <2>2, <2>3 DEF RowsInOrder
    <3>2. \A t \in Rows : holder[t] = q => holder'[t] = q
      BY <2>1, <2>2, <2>3 DEF Actors
    <3> QED
      BY <3>1, <3>2, RowsTyped DEF Due
  <2>7. \A y \in Adjustments, r \in Rows :
          holder'[r] = y => r = ProductOf[y.item] /\ adjusting'[y] = "item"
    <3> SUFFICES ASSUME NEW y \in Adjustments, NEW r \in Rows, holder'[r] = y
                 PROVE  r = ProductOf[y.item] /\ adjusting'[y] = "item"
      OBVIOUS
    <3>1. CASE r = p
      BY <3>1, <2>3, <2>5 DEF p
    <3>2. CASE r # p
      BY <3>2, <2>1, <2>3, <2>5 DEF RowsInOrder
    <3> QED
      BY <3>1, <3>2
  <2> QED
    BY <2>4, <2>6, <2>7 DEF RowsInOrder, RowsOf, LinesOf
<1>5. ASSUME NEW x \in Adjustments, Settle(x)
      PROVE  RowsInOrder'
  <2>1. holder' = Without(x) /\ adjusting' = [adjusting EXCEPT ![x] = "done"]
    BY <1>5 DEF Settle, Move
  <2>2. adjusting' \in [Adjustments -> {"new", "product", "item", "done"}]
    BY <2>1 DEF RowsInOrder
  <2>3. \A y \in Adjustments : y # x => adjusting'[y] = adjusting[y]
    BY <2>1 DEF RowsInOrder
  <2> QED
    BY <2>1, <2>2, <2>3, AdjustmentTyped, OrderAfterEnd
<1>6. ASSUME NEW r \in Rows, ChangeSale(r)
      PROVE  RowsInOrder'
  BY <1>1, <1>6 DEF ChangeSale, adjustVars
<1>7. CASE UNCHANGED placementVars
  BY <1>1, <1>7 DEF placementVars, adjustVars
<1> QED
  BY <1>2, <1>3, <1>4, <1>5, <1>6, <1>7 DEF PlacementNext

(* A row of the highest rank among some rows. *)
Above(r) == {s \in Rows : Rank[s] > Rank[r]}

LEMMA HighestRow ==
  ASSUME NEW W \in SUBSET Rows, W # {}
  PROVE  \E r \in W : \A s \in W : Rank[s] <= Rank[r]
<1> DEFINE T == {Above(r) : r \in W}
<1>1. Rank \in [Rows -> Nat] /\ IsFiniteSet(Rows)
  BY PlacementAssumption
<1>2. T \subseteq FiniteSubsetsOf(Rows) /\ T # {}
  <2>1. T \subseteq SUBSET Rows /\ T # {}
    BY DEF Above
  <2> QED
    BY <1>1, <2>1, FS_FiniteSubsetsOfFinite
<1>3. PICK U \in T : \A V \in T : <<V, U>> \notin StrictSubsetOrdering(Rows)
  <2> HIDE DEF T
  <2>1. IsWellFoundedOn(StrictSubsetOrdering(Rows), FiniteSubsetsOf(Rows))
    BY FS_StrictSubsetOrderingWellFounded
  <2> QED
    BY <1>2, <2>1, WFMin
<1>4. PICK r \in W : U = Above(r)
  BY <1>3
<1>5. ASSUME NEW s \in W, Rank[s] > Rank[r]
      PROVE  FALSE
  <2>1. Above(s) \subseteq Above(r) /\ s \in Above(r) /\ s \notin Above(s)
    BY <1>1, <1>5 DEF Above
  <2>2. Above(s) \in SUBSET Rows /\ Above(r) \in SUBSET Rows /\ Above(s) \in T
    BY DEF Above
  <2>3. <<Above(s), Above(r)>> \in StrictSubsetOrdering(Rows)
    BY <2>1, <2>2 DEF StrictSubsetOrdering
  <2> QED
    BY <1>3, <1>4, <2>2, <2>3
<1> QED
  BY <1>1, <1>5

(* Whoever waits has every row it holds below the one it waits for.        *)
LEMMA WaitsAbove ==
  ASSUME RowsInOrder, NEW a \in Actors, NEW r \in Rows, holder[r] = a, Wanted(a) # {}
  PROVE  \E s \in Wanted(a) : Rank[s] > Rank[r]
<1>1. CASE a \in Orders
  <2>1. PICK s \in RowsOf(a) : s \in Wanted(a) /\ holder[s] # a
    BY <1>1 DEF Wanted
  <2>2. s \in Rows /\ s # r /\ ~(Rank[s] < Rank[r])
    BY <1>1, <2>1, RowsTyped DEF RowsInOrder, Due
  <2> QED
    BY <2>1, <2>2, PlacementAssumption
<1>2. CASE a \in Adjustments
  <2>1. r = ProductOf[a.item] /\ adjusting[a] = "item" /\ a \notin Orders
    BY <1>2, PlacementAssumption DEF RowsInOrder
  <2>2. Wanted(a) = {a.item} /\ a.item \in Items
    BY <1>2, <2>1, AdjustmentTyped DEF Wanted
  <2>3. r \in Products
    BY <2>1, <2>2, PlacementAssumption
  <2>4. Rank[r] < Rank[a.item] /\ Rank[r] \in Nat /\ Rank[a.item] \in Nat
    BY <2>2, <2>3, PlacementAssumption DEF Rows
  <2> QED
    BY <2>2, <2>4
<1> QED
  BY <1>1, <1>2 DEF Actors

(* Any number of placements and adjustments, with lines in any order and   *)
(* however their distributed locks fail, never wait for each other's rows  *)
(* in a circle (order.service.ts 190-239, inventory.service.ts 176-198).   *)
THEOREM NobodyStuckCorrect == PlacementSpec => []NobodyStuck
<1>1. PlacementInit => RowsInOrder
  BY PlacementAssumption DEF PlacementInit, RowsInOrder, Actors
<1>2. PlacementInv /\ RowsInOrder /\ [PlacementNext]_placementVars => RowsInOrder'
  BY OrderStep DEF PlacementInv
<1>3. RowsInOrder => NobodyStuck
  <2> SUFFICES ASSUME RowsInOrder,
                      NEW S \in SUBSET {a \in Actors : Wanted(a) # {}}, S # {}
               PROVE  \E a \in S : \E r \in Wanted(a) : holder[r] \notin S
    BY DEF NobodyStuck
  <2> DEFINE W == UNION {Wanted(a) : a \in S}
  <2>1. \A a \in S : a \in Actors /\ Wanted(a) # {} /\ Wanted(a) \subseteq Rows
    <3> SUFFICES ASSUME NEW a \in S
                 PROVE  Wanted(a) \subseteq Rows
      OBVIOUS
    <3>1. CASE a \in Orders
      BY <3>1, RowsTyped DEF Wanted
    <3>2. CASE a \in Adjustments
      BY <3>2, AdjustmentTyped, PlacementAssumption DEF Wanted
    <3> QED
      BY <3>1, <3>2 DEF Actors
  <2>2. W \in SUBSET Rows /\ W # {}
    BY <2>1
  <2>3. PICK r \in W : \A s \in W : Rank[s] <= Rank[r]
    <3> HIDE DEF W
    <3> QED
      BY <2>2, HighestRow
  <2>4. PICK a \in S : r \in Wanted(a)
    BY <2>3
  <2>5. ASSUME holder[r] \in S
        PROVE  FALSE
    <3>1. PICK s \in Wanted(holder[r]) : Rank[s] > Rank[r]
      BY <2>1, <2>2, <2>5, WaitsAbove
    <3>2. s \in W /\ s \in Rows /\ r \in Rows
      BY <2>2, <2>5, <3>1
    <3>3. Rank[s] <= Rank[r] /\ Rank[s] \in Nat /\ Rank[r] \in Nat
      BY <2>3, <3>2, PlacementAssumption
    <3> QED
      BY <3>1, <3>3
  <2> QED
    BY <2>4, <2>5
<1> QED
  BY <1>1, <1>2, <1>3, PlacementInvariant, PTL DEF PlacementSpec
===============================================================================
