------------------------------- MODULE Placement -------------------------------
(***************************************************************************)
(* A placement and a stock adjustment step by step, as they run beside     *)
(* each other (src/src/api/order/application/order.service.ts 55-85 and     *)
(* 142-258, src/src/api/inventory/application/inventory.service.ts 81-227,  *)
(* src/src/global/common/lock/distributed-lock.service.ts).                 *)
(*                                                                         *)
(* A placement is guarded three times.  The distributed lock (Redlock, on   *)
(* the member's idempotency key and on every item) only keeps calls apart  *)
(* as long as its 30 seconds last: it is never extended, a crash leaves it  *)
(* behind and Redis may fail.  The row locks of the products and items are *)
(* held to the end of the transaction.  The unique index on (member,       *)
(* idempotency key) has the last word.                                     *)
(*                                                                         *)
(* The life-cycle modules take placing and adjusting as single steps of    *)
(* Inventory.  This module shows that they may.  Every call o of Orders     *)
(* would create an order of its own; the calls with one key are the        *)
(* retries of one request, or different requests under one key if their    *)
(* Fingerprint differs.                                                          *)
(***************************************************************************)
EXTENDS Inventory

CONSTANTS
  Products,
  ProductOf,      \* the product of each item
  Rank,           \* the order of the rows' ids, products before items
  Keys,           \* the pairs of member and idempotency key
  MayCarry,       \* MayCarry[o]: the keys the call may be sent under
  NoKey,          \* the key of a call that was not sent yet
  Fingerprints,
  Fingerprint,    \* Fingerprint[o]: the digest of the lines it asks for
  Callers,
  Adjustments,    \* the calls of adjust, a record each
  Withdrawable,   \* the rows whose sale an operator stops and resumes
  NoOne,          \* the holder of a row that nobody has locked
  MaxRetries,     \* further tries to get the distributed lock
  MaxFaults       \* bound: crashes, lost sessions and failures of Redis

Rows == Products \cup Items
Actors == Orders \cup Adjustments
Verdicts == {"none", "conflict", "refused", "busy", "failed", "duplicate", "lost"}

ASSUME PlacementAssumption ==
  /\ ProductOf \in [Items -> Products]
  /\ Products \cap Items = {}
  /\ Rank \in [Rows -> Nat]
  /\ \A p \in Products, i \in Items : Rank[p] < Rank[i]
  /\ \A r, s \in Rows : r # s => Rank[r] # Rank[s]
  /\ IsFiniteSet(Rows)
  /\ MayCarry \in [Orders -> SUBSET Keys] /\ NoKey \notin Keys
  /\ Fingerprint \in [Orders -> Fingerprints]
  /\ \A o, q \in Orders : Fingerprint[o] = Fingerprint[q] => Demand[o] = Demand[q]
  /\ Adjustments \subseteq [caller : Callers, item : Items, key : Requests, delta : Deltas]
  /\ Requests \cap {ReserveKey(o) : o \in Orders} = {}
  /\ Withdrawable \subseteq Rows
  /\ Orders \cap Adjustments = {} /\ NoOne \notin Actors
  /\ Orders \cap Verdicts = {}
  /\ MaxRetries \in Nat /\ MaxFaults \in Nat

VARIABLES
  key,            \* the key a placement was sent under
  onSale,         \* products that are ACTIVE and items that are ALLOWed
  guards,         \* the calls whose distributed lock is in Redis
  holder,         \* who has each row locked
  at,             \* where a placement is
  tries,          \* how often it was refused the distributed lock
  seen,           \* the stock of the items as the transaction read it
  answer,         \* the order a placement returned, or what became of it
  adjusting,      \* where an adjustment is
  repeated,       \* its key was on record in its transaction's snapshot
  lapsed,         \* a guard lapsed while its call was at work
  faults

callVars == <<key, guards, at, tries, seen, answer>>
adjustVars == <<adjusting, repeated>>
placementVars ==
  <<inventoryVars, onSale, holder, callVars, adjustVars, lapsed, faults>>

(* Where a placement can be: sent, waiting for the distributed lock, holding *)
(* it, locking rows in its transaction, giving the lock back, looking again. *)
Stages == {"new", "locking", "locked", "rows", "unlocking", "replaying", "done"}

NothingRead == [i \in Items |-> 0]

PlacementInit ==
  /\ InventoryInit
  /\ key = [o \in Orders |-> NoKey]
  /\ onSale = Rows
  /\ guards = {}
  /\ holder = [r \in Rows |-> NoOne]
  /\ at = [o \in Orders |-> "new"]
  /\ tries = [o \in Orders |-> 0]
  /\ seen = [o \in Orders |-> NothingRead]
  /\ answer = [o \in Orders |-> "none"]
  /\ adjusting = [x \in Adjustments |-> "new"]
  /\ repeated = [x \in Adjustments |-> FALSE]
  /\ lapsed = FALSE
  /\ faults = 0

-----------------------------------------------------------------------------
(* The orders that are stored under a key; the index lets there be one. *)
Placed(o) == \E i \in Items : reservation[o][i] # "NONE"
UnderKey(k) == {o \in Orders : Placed(o) /\ key[o] = k}

RowsOf(o) == LinesOf(o) \cup {ProductOf[i] : i \in LinesOf(o)}

(* Two calls that ask Redis for one resource: the key or an item. *)
Clash(o, q) == key[o] = key[q] \/ LinesOf(o) \cap LinesOf(q) # {}

(* The end of a transaction gives its row locks back. *)
Without(a) == [r \in Rows |-> IF holder[r] = a THEN NoOne ELSE holder[r]]

(* A placement's transaction ends, and with it what it had read. *)
Close(o) ==
  /\ holder' = Without(o)
  /\ seen' = [seen EXCEPT ![o] = NothingRead]

Fault == faults < MaxFaults /\ faults' = faults + 1

Go(o, stage) == at' = [at EXCEPT ![o] = stage]
Reply(o, a, stage) == answer' = [answer EXCEPT ![o] = a] /\ Go(o, stage)

(* assertSamePlaceOrder: the stored order, if it was asked for the same. *)
Replay(o, k, stage) ==
  \E q \in UnderKey(k) :
    Reply(o, IF Fingerprint[q] = Fingerprint[o] THEN q ELSE "conflict", stage)

(* order, up to the distributed lock. *)
Ask(o, k) ==
  /\ at[o] = "new" /\ k \in MayCarry[o]
  /\ key' = [key EXCEPT ![o] = k]
  /\ IF UnderKey(k) # {} THEN Replay(o, k, "done") ELSE Go(o, "locking") /\ UNCHANGED answer
  /\ UNCHANGED <<inventoryVars, onSale, guards, holder, tries, seen, adjustVars, lapsed, faults>>

(* acquire: all resources together or none. *)
Acquire(o) ==
  /\ at[o] = "locking"
  /\ \A q \in guards : ~Clash(o, q)
  /\ guards' = guards \cup {o}
  /\ tries' = [tries EXCEPT ![o] = 0]
  /\ Go(o, "locked")
  /\ UNCHANGED <<inventoryVars, key, onSale, holder, seen, answer, adjustVars, lapsed, faults>>

(* Mutant of FailToAcquire: after the last try the task runs without lock. *)
FailToAcquireRuns(o) ==
  /\ at[o] = "locking"
  /\ \/ (\E q \in guards : Clash(o, q)) /\ UNCHANGED faults
     \/ Fault
  /\ IF tries[o] < MaxRetries
       THEN tries' = [tries EXCEPT ![o] = @ + 1] /\ UNCHANGED <<at, answer>>
       ELSE Go(o, "locked") /\ UNCHANGED <<tries, answer>>
  /\ UNCHANGED <<inventoryVars, key, onSale, guards, holder, seen, adjustVars, lapsed>>

(* acquire refused, by another call or because Redis does not answer. *)
FailToAcquire(o) ==
  /\ at[o] = "locking"
  /\ \/ (\E q \in guards : Clash(o, q)) /\ UNCHANGED faults
     \/ Fault
  /\ IF tries[o] < MaxRetries
       THEN tries' = [tries EXCEPT ![o] = @ + 1] /\ UNCHANGED <<at, answer>>
       ELSE Reply(o, "busy", "done") /\ tries' = [tries EXCEPT ![o] = 0]
  /\ UNCHANGED <<inventoryVars, key, onSale, guards, holder, seen, adjustVars, lapsed>>

(* createOrder: look for the order once more, then read the items.  The    *)
(* reads are not locked.                                                   *)
Open(o) ==
  /\ at[o] = "locked"
  /\ IF UnderKey(key[o]) # {}
       THEN Replay(o, key[o], "unlocking") /\ UNCHANGED seen
       ELSE Go(o, "rows") /\ seen' = [seen EXCEPT ![o] = stock] /\ UNCHANGED answer
  /\ UNCHANGED <<inventoryVars, key, onSale, guards, holder, tries, adjustVars, lapsed, faults>>

(* The locks are taken in the order of the rows' ids. *)
DueUnsorted(o, r) == TRUE                           \* mutant of Due
Due(o, r) == \A s \in RowsOf(o) : Rank[s] < Rank[r] => holder[s] = o

(* The rows an actor's next statement locks. *)
Wanted(a) ==
  IF a \in Orders
    THEN {r \in RowsOf(a) : at[a] = "rows" /\ holder[r] # a /\ Due(a, r)}
    ELSE CASE adjusting[a] = "product" -> {ProductOf[a.item]}
           [] adjusting[a] = "item"    -> {a.item}
           [] OTHER                    -> {}

(* "refresh": a locked item is read again. *)
NotRefreshed(o, r) == seen[o]                       \* mutant of Refreshed
Refreshed(o, r) == IF r \in Items THEN [seen[o] EXCEPT ![r] = stock[r]] ELSE seen[o]

(* findLiveItemsForUpdate: one row; off sale, the call is refused. *)
LockRow(o, r) ==
  /\ r \in Wanted(o) /\ holder[r] = NoOne
  /\ IF r \in onSale
       THEN /\ holder' = [holder EXCEPT ![r] = o]
            /\ seen' = [seen EXCEPT ![o] = Refreshed(o, r)]
            /\ UNCHANGED <<at, answer>>
       ELSE Reply(o, "refused", "unlocking") /\ Close(o)
  /\ UNCHANGED <<inventoryVars, key, onSale, guards, tries, adjustVars, lapsed, faults>>

HasRows(o) == at[o] = "rows" /\ \A r \in RowsOf(o) : holder[r] = o
Enough(o) == \A i \in LinesOf(o) : seen[o][i] >= Demand[o][i]

(* reserveForPlacementBatch finds too little stock. *)
RefuseShort(o) ==
  /\ HasRows(o)
  /\ ~Enough(o)
  /\ Reply(o, "refused", "unlocking")
  /\ Close(o)
  /\ UNCHANGED <<inventoryVars, key, onSale, guards, tries, adjustVars, lapsed, faults>>

(* The unique index on member and idempotency key. *)
KeyIgnored(o) == TRUE                               \* mutant of KeyFree
KeyFree(o) == UnderKey(key[o]) = {}

(* The flush: order, reservations, movements and the new stock. *)
Commit(o) ==
  /\ HasRows(o)
  /\ Enough(o)
  /\ IF KeyFree(o)
       THEN /\ stock' = [i \in Items |-> IF i \in LinesOf(o)
                                           THEN seen[o][i] - Demand[o][i] ELSE stock[i]]
            /\ reservation' = [reservation EXCEPT ![o] =
                 [i \in Items |-> IF i \in LinesOf(o) THEN "RESERVED" ELSE "NONE"]]
            /\ ledger' = ledger \cup
                 {[item |-> i, key |-> ReserveKey(o), kind |-> "RESERVATION",
                   delta |-> -Demand[o][i], order |-> o] : i \in LinesOf(o)}
            /\ Reply(o, o, "unlocking")
       ELSE Reply(o, "duplicate", "unlocking") /\ UNCHANGED inventoryVars
  /\ Close(o)
  /\ UNCHANGED <<key, onSale, guards, tries, adjustVars, lapsed, faults>>

(* The session is lost, or a lock is waited for too long: rolled back. *)
FailTransaction(o) ==
  /\ at[o] \in {"locked", "rows"}
  /\ Fault
  /\ Reply(o, "failed", "unlocking")
  /\ Close(o)
  /\ UNCHANGED <<inventoryVars, key, onSale, guards, tries, adjustVars, lapsed>>

(* The "finally" of run: the lock is given back, unless Redis fails.  Only *)
(* a violated index then leads to another look at the stored order.        *)
Unlock(o) ==
  /\ at[o] = "unlocking"
  /\ \/ guards' = guards \ {o} /\ UNCHANGED faults
     \/ Fault /\ UNCHANGED guards
  /\ Go(o, IF answer[o] = "duplicate" THEN "replaying" ELSE "done")
  /\ UNCHANGED <<inventoryVars, key, onSale, holder, tries, seen, answer, adjustVars, lapsed>>

ReplayDuplicate(o) ==
  /\ at[o] = "replaying"
  /\ IF UnderKey(key[o]) # {} THEN Replay(o, key[o], "done") ELSE Go(o, "done") /\ UNCHANGED answer
  /\ UNCHANGED <<inventoryVars, key, onSale, guards, holder, tries, seen, adjustVars, lapsed, faults>>

(* The process dies; the server ends its session, Redis keeps its lock. *)
Crash(o) ==
  /\ at[o] \notin {"new", "done"}
  /\ Fault
  /\ Reply(o, "lost", "done")
  /\ Close(o)
  /\ tries' = [tries EXCEPT ![o] = 0]
  /\ UNCHANGED <<inventoryVars, key, onSale, guards, adjustVars, lapsed>>

(* The lock outlives its 30 seconds, whether or not its call is done. *)
Lapse(o) ==
  /\ o \in guards
  /\ guards' = guards \ {o}
  /\ lapsed' = (lapsed \/ at[o] \in {"locked", "rows"})
  /\ UNCHANGED <<inventoryVars, key, onSale, holder, at, tries, seen, answer, adjustVars, faults>>

-----------------------------------------------------------------------------
Move(x, stage) == adjusting' = [adjusting EXCEPT ![x] = stage]

(* adjust finds the item: its transaction's snapshot dates from here. *)
Discover(x) ==
  /\ adjusting[x] = "new"
  /\ Move(x, "product")
  /\ repeated' = [repeated EXCEPT ![x] = Recorded(x.item, x.key)]
  /\ UNCHANGED <<inventoryVars, onSale, holder, callVars, lapsed, faults>>

LockProduct(x) ==
  /\ adjusting[x] = "product"
  /\ holder[ProductOf[x.item]] = NoOne
  /\ holder' = [holder EXCEPT ![ProductOf[x.item]] = x]
  /\ Move(x, "item")
  /\ UNCHANGED <<inventoryVars, onSale, callVars, repeated, lapsed, faults>>

(* From the item's lock to the commit.  The duplicate is looked up in the  *)
(* snapshot: one that was stored since is only met as the violated index.  *)
IndexFree(x) == ~Recorded(x.item, x.key)

Settle(x) ==
  /\ adjusting[x] = "item"
  /\ holder[x.item] = NoOne
  /\ IF ~repeated[x] /\ IndexFree(x) /\ stock[x.item] + x.delta \in 0 .. MaxStock
       THEN /\ stock' = [stock EXCEPT ![x.item] = @ + x.delta]
            /\ ledger' = ledger \cup
                 {[item |-> x.item, key |-> x.key, kind |-> "ADJUSTMENT",
                   delta |-> x.delta, order |-> NoOrder]}
            /\ UNCHANGED reservation
       ELSE UNCHANGED inventoryVars
  /\ holder' = Without(x)
  /\ Move(x, "done")
  /\ repeated' = [repeated EXCEPT ![x] = FALSE]
  /\ UNCHANGED <<onSale, callVars, lapsed, faults>>

(* A catalog command: it locks the product's row, and the item's. *)
ChangeSale(r) ==
  /\ r \in Withdrawable
  /\ holder[r] = NoOne
  /\ r \in Items => holder[ProductOf[r]] = NoOne
  /\ onSale' = IF r \in onSale THEN onSale \ {r} ELSE onSale \cup {r}
  /\ UNCHANGED <<inventoryVars, holder, callVars, adjustVars, lapsed, faults>>

-----------------------------------------------------------------------------
Serve(o) ==
  \/ \E k \in Keys : Ask(o, k)
  \/ Acquire(o) \/ FailToAcquire(o) \/ Open(o)
  \/ \E r \in Rows : LockRow(o, r)
  \/ RefuseShort(o) \/ Commit(o) \/ FailTransaction(o) \/ Unlock(o)
  \/ ReplayDuplicate(o) \/ Crash(o) \/ Lapse(o)

PlacementNext ==
  \/ \E o \in Orders : Serve(o)
  \/ \E x \in Adjustments : Discover(x) \/ LockProduct(x) \/ Settle(x)
  \/ \E r \in Rows : ChangeSale(r)

PlacementSpec == PlacementInit /\ [][PlacementNext]_placementVars

-----------------------------------------------------------------------------
(* Whatever was read before a lock was waited for, whatever else runs and  *)
(* whether or not the distributed lock still holds: what is committed is   *)
(* one whole placement, on the stock of that moment and with every line on *)
(* sale, or one adjustment, whose key is new (order.service.ts 142-240,    *)
(* inventory.service.ts 97-141, 167-227).                                  *)
AtomicAfterAll ==
  [][\/ \E o \in Orders : Reserve(o) /\ RowsOf(o) \subseteq onSale
     \/ \E x \in Adjustments : Adjust(x.item, x.key, x.delta)]_inventoryVars

(* A key has one order for good.  A call that returns an order returns     *)
(* that one, and it is what the call asked for; a conflict is only told to *)
(* a call that asked for something else; and a violated index is always    *)
(* turned into the order that violated it (order.service.ts 59-84,         *)
(* 253-258).                                                               *)
AnswersNameTheOrder ==
  /\ \A o, q \in Orders : Placed(o) /\ Placed(q) /\ key[o] = key[q] => o = q
  /\ \A o \in Orders :
       /\ answer[o] \in Orders =>
            /\ answer[o] \in UnderKey(key[o])
            /\ Fingerprint[answer[o]] = Fingerprint[o]
       /\ answer[o] = "conflict" => \E q \in UnderKey(key[o]) : Fingerprint[q] # Fingerprint[o]
       /\ at[o] = "done" => answer[o] # "duplicate"

(* A retry is told that goods are gone or off sale, while its order is     *)
(* already stored, only if a distributed lock lapsed on a call at work:    *)
(* this is what the lock is for (order.service.ts 62-77).                  *)
LockSparesRetries ==
  [][\A o \in Orders :
       answer[o] = "none" /\ answer'[o] = "refused" => KeyFree(o) \/ lapsed]_placementVars

(* No placements and adjustments wait for each other's rows in a circle:   *)
(* products before items and each in the order of their ids, whatever the  *)
(* lines name and however the distributed lock fails (order.service.ts     *)
(* 190-239, inventory.service.ts 176-198).                                 *)
NobodyStuck ==
  \A S \in SUBSET {a \in Actors : Wanted(a) # {}} :
    S # {} => \E a \in S : \E r \in Wanted(a) : holder[r] \notin S
===============================================================================
