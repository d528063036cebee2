# Verification of the commerce back end

The repository is a shop back end: NestJS services over MySQL (MikroORM, REPEATABLE READ, row
locks), Redis for sessions and a placement lock, OpenSearch for product search. This directory holds
TLA+ models of the parts that must stay right under concurrency and failure, the TLC runs that check
them on small instances and the TLAPS proofs that hold for every size. Paths below are relative to
`src/src/`; `IS` is `api/inventory/application/inventory.service.ts`, `PS` is
`api/payment/application/payment.service.ts`, `FS` is
`api/fulfillment/application/fulfillment.service.ts`.

## 1. The system's parts

| Part | State it keeps | Operations | What makes it correct |
| --- | --- | --- | --- |
| Order (`api/order`) | `orders.status`, status history, request fingerprint | place, cancel, expire (administrator, batch) | one life cycle; stock, money and parcels follow it |
| Inventory (`api/inventory`) | `Item.stock`, reservations, append-only movements | reserve, consume, restore, adjust | stock = initial stock + movements; nothing restored twice or never |
| Payment (`api/payment`) | attempts, append-only transactions | create attempt, capture, fail, refund | status = what the transactions add up to; captured money belongs to a paid order |
| Payment webhooks (`api/payment`) | inbox event, lease, retry count | receive, apply, fail, relay claim and mark | every stored event is applied exactly once or refused, whatever crashes |
| Fulfillment (`api/fulfillment`) | shipments and their quantities | create, pack, ship, deliver, cancel | parcels only for paid orders; completed = all delivered |
| Catalog commands (`api/catalog`) | products, items, options, revision, snapshots | create, update, replace, delete, restore | a snapshot and an outbox row per change; every past revision can be restored unless its slug is taken; no legal edit meets a unique key; items are kept |
| Search outbox (`infra/search`) | outbox rows with lease and attempts | claim, heartbeat, mark, dead-letter, requeue | each change reaches the index or a dead letter |
| Search projection | external version per document | write, delete, converge | an older projection never replaces a newer one |
| Maintenance gate, rebuild, reconciliation | gate owner, aliases | close, build, cut over, reopen | no write is lost during a rebuild; a crash leaves the gate closed; repairs converge |
| Tokens and login (`global/jwt`, `api/auth`) | Redis session and used-token keys, login counters, `lastLoginAt` | issue, rotate, limit, log in | a refresh token works once; its reuse ends its family, and nothing else does; one login is the first |
| Members, passwords (`api/member`) | member row, hash, places for key derivations | sign up, verify, rehash | an address belongs to one member; every place comes back |
| Distributed lock (`global/common/lock`) | Redis keys with 30 s to live | acquire, retry, release | spares retries; nothing relies on it for integrity |
| Product search (`api/catalog/search`), mail, GraphQL, logging, CLI, migrations | none that behaviour depends on | queries, wiring | not modelled |

How the parts interact. The four commerce aggregates are changed by services that call each other
inside one MySQL transaction: placement reserves stock, a capture consumes the reservations and
confirms the order, cancellation and expiry restore stock and cancel attempts and shipments, the last
delivery completes the order. Almost every service first takes the order's row `FOR UPDATE`, then the
rows below it in one fixed order (`api/order/application/order-dependents.lock.ts`); placement and
stock adjustment lock items directly. Requests repeat (clients retry with an idempotency key, the
provider delivers a webhook several times), arrive late (a capture after the deadline) and race (a
refund against a new shipment). The catalog side writes an outbox row with each change, and a leased
worker projects it to OpenSearch; a rebuild shuts both out, builds a new index and moves the aliases.
Accounts share nothing with either but the member's id.

Hard behaviours: capture, cancellation and expiry racing for one order; retries whose first answer was
lost; late and duplicate provider messages; partial refunds and split shipments that must add up;
reads that a wait for a lock makes stale; a placement lock that lapses; worker leases that run out; a
crash between two commits; unique keys that are checked in the middle of an edit; a refresh whose answer
was lost; requests to the search engine that outlive their sender. The hazards in `PROJECT.json` name the lines.

## 2. Modules

| Module | Models |
| --- | --- |
| `Inventory` | stock, reservations and the movement ledger; `Reserve`, `Consume`, `Restore`, `Adjust` |
| `Payment` | attempts and transactions; `OpenAttempt`, `CaptureAttempt`, `FailAttempt`, `RefundAttempt`, `CancelAttempts` |
| `Fulfillment` | shipments and quantities; `CreateShipment`, `AdvanceShipment`, `CancelShipments`, `FullyDeliveredWith` |
| `CommerceLifecycle` | the order and the use cases that cross the three modules above; the system specification |
| `OrderContract` | the abstract promise about one order: where its goods and its money are, and whether parcels travel |
| `CommerceRefinement` | the mapping from the commerce rows to `OrderContract` |
| `ShipmentReads` | pack, ship, deliver and cancel of a shipment with their unlocked reads as steps of their own, on top of `CommerceLifecycle` |
| `Placement` | placement and adjustment statement by statement, with the distributed lock, on top of `Inventory` |
| `PaymentWebhook` | the webhook inbox on top of `CommerceLifecycle`: deliveries, recovery relays, administrators |
| `ProductCatalog` | product rows and their audit history; `Create`, `Update`, `Delete`, `ChangeCatalog`, `Restore` |
| `CatalogGraph` | the options, values, items, selections, categories and tags of a product and the five flushes that change them; implements the commands of `ProductCatalog` |
| `SearchIndex` | the search engine as the code uses it: indices with externally versioned documents, the two aliases |
| `CatalogSearch` | commands, outbox, relays, maintenance gate and rebuild over the two modules above; the system specification of the catalog side |
| `SearchRepair` | `search:reconcile --repair` on top of `CatalogSearch` |
| `Accounts` | members, logins, key derivations, refresh tokens |
| `MCCommerce`, `MCShipmentReads`, `MCPlacement`, `MCWebhook`, `MCCatalog`, `MCRepair`, `MCCatalogGraph`, `MCAccounts` | constants of the runs |
| `CommerceLifecycleProofs`, `CommerceSumsProofs`, `CommerceRefinementProofs` (also of `ShipmentReads`), `PlacementProofs`, `PaymentWebhookProofs`, `CatalogSearchProofs`, `CatalogGraphProofs`, `AccountsProofs` | the theorems |

### State and steps

One action of `CommerceLifecycle` is one committed transaction. That is what the locks give: a handler
reads what it decides on under `FOR UPDATE`, so between its reads and its commit nobody else changes
those rows. A handler that throws rolls back (a guard that is false), and a repeated request is
answered from what is stored (no step); both are part of the guards, for instance `Recorded` and
`KnownTransaction`. Handlers of different clients interleave freely. Two places where a handler does use
what it read before a lock have modules of their own (`ShipmentReads`, `Placement`).

- `stock`, `reservation`, `ledger`: `Item.stock`, `InventoryReservation.status`, `inventory_movements`.
  Idempotency keys are tuples that say what the services digest: two digests are equal exactly when
  their inputs are. Lines of one order that name the same item are merged.
- `attempt`, `txns`: `PaymentAttempt.status`, `payment_transactions`. `AUTHORIZED` and
  `REQUIRES_ACTION` belong to the type, but no code under `src/` sets them.
- `shipment`, `allocation`: `Fulfillment.status` and its quantities per line.
- `order`, `closing`: `Order.status`, and the reason and request of the history row that closed it.
- `lapsed`: time is one flag per order, set when the clock passes the `expiresAt` its reservations
  share. A handler samples `now` before it waits for the order's lock; `LateHandlers` lets it act on a
  time from before the deadline after the deadline passed.

The administrator's `release` (`IS` 283-299) is not an action: it restores a `RESERVED` reservation of
a `CANCELLED` order, and `ReservationsCorrect` proves there is none.

### Reads before a lock

`fulfillment.service.ts` finds a shipment without a lock, waits for the order's row, and then reads order
and shipment `FOR UPDATE` but populates the payment attempts without a lock (`FS` 183-210): under
REPEATABLE READ they come out of the snapshot of the first read. `ShipmentReads` keeps that snapshot in
`view[h]`: `Discover` opens it, every other request commits in `OtherNext`, and `Finish` does the work on
what the handler saw (`SeenFunded`). `StaleReadsHarmless` says that each step is still a step of
`CommerceLifecycle`, and `ViewsHold` that a handler is not refused either for what it saw before.

`Placement` does the same for `order` and `adjust`. `OS` is `api/order/application/order.service.ts`.

- `at`, `tries`, `answer`: where a placement stands between two awaits. It looks for the order of its key
  (`Ask`), takes the distributed lock (`Acquire`, `FailToAcquire`), looks again and reads the items (`Open`),
  locks products and then items, each by id (`LockRow`), commits under the unique key (`Commit`), gives the
  lock back (`Unlock`), and answers a violated key with the stored order (`ReplayDuplicate`).
- `holder`, `seen`: who has each row locked, and the stock as the transaction last read it.
- `guards`, `lapsed`: the calls whose lock is in Redis. It may vanish at any time (`Lapse`): it has 30 s and
  nobody extends it. A crash leaves it there.
- `adjusting`, `repeated`: `adjust` opens its snapshot (`Discover`), locks the product, and from the item's
  lock to its commit is one step (`Settle`), which looks the key up in that snapshot.
- `onSale`: products and items that a catalog command withdraws and brings back (`ChangeSale`).

Two things this shows that are no flaws: after the lock lapsed a retry can be told that goods are gone
although its order exists (it has taken them), which is why `LockSparesRetries` has that excuse; and a
repeat of `adjust` that overlaps with the first meets the unique index as an error instead of the
stored movement. `docs/graphql-api-migration.md` 162-164 says that row locks are the boundary, and
`AtomicAfterAll` shows it.

### The webhook inbox

`PaymentWebhook` extends `CommerceLifecycle` by the rows of `payment_webhook_events` and by everybody
who works on them. `WH` is `api/payment/application/payment-webhook.service.ts`, `WR` is
`payment-webhook-recovery.relay.ts` beside it.

- `event`, `verified`, `retryCount`, `lease`: the row's status, whether its verified command is stored,
  `retry_count` and `lease_token`. A worker stands for the token of its latest claim: it claims only
  when it has worked off or lost its last batch, so two of its tokens are never in use at once.
- `overdue`: `lease_until` has passed. `next_retry_at` is not state: a claim may simply come later.
- `delivery`, `claims`: where a signed delivery or a claimed event stands between two commits. Storing
  (`StoreVerified`), applying (`Process`) and recording a refusal (`DeliveryFails`, `RelayMarks`) are
  transactions of their own; everybody else moves in between, and the process may die
  (`DeliveryDies`, `RelayDies`) or lose its lease (`LeaseLapses`).
- `Process` applies the command as `Capture`, `Refund` or `Fail` of the commerce module, or finds that
  it is recorded already, and sets the row `PROCESSED` in the same commit: `processWebhook` holds the
  order's, the attempt's and the row's locks.
- `Recover` is `recoverStoredWebhook`: what it answers, and `ERROR` for an exception it does not
  expect (a lost connection, a deadlock), which rolls back.

A command is well formed apart from its amount, and an administrator enters the provider's command (for
a verified event the code compares them; an unverified event is compared by payload hash only). Keys
of clients are not digests of events. The link from the row to its attempt is the command's attempt.

### From a catalog change to the index

`CatalogSearch` follows a change of a product to the two aliases. It shares nothing with the commerce
modules: stock is not part of a search document, and placement reads items, not the index. `CM`, `CI`,
`CR`, `CW` and `SR` are `catalog-maintenance.service.ts`, `catalog-index.manager.ts`,
`catalog-rebuild.service.ts`, `catalog-search.worker.ts` and `search-outbox.relay.ts` under
`infra/search`.

- `history[p]`: the sequence of snapshots of product `p`; the last one is the row, its position the
  revision. `status`, `attempts`, `lease`, `overdue`, `requeues`: the outbox row of each revision, with
  the lines of the retry history counted. A command, its snapshot and its outbox row are one step,
  `CommitCommand`, as they are one transaction.
- `index`, `readAlias`, `writeAlias`: what the engine stores. A document is a function of the product
  and the revision it was read at, so an entry is a revision and whether it is a document or the mark of
  a deletion. The engine accepts a write only with a higher version, carries out alias requests as a
  whole, refuses one whose removals do not exist (`must_exist`) or that gives an alias two write
  indices, and may drop marks of deletions (`ForgetDeletion`).
- `owner`, `shared`, `exclusive`: the row `catalog_maintenance` and its locks, all asked for with NOWAIT. A
  session that dies loses its lock at once (`LoseGate`, `LoseLock`) and its process notices at the next
  statement on that connection: `Confirm`, `EndProjection`, `Owns`.
- `worker`: a relay goes through `Claim`, `Admit`, `Resolve`, `Confirm`, `Read`, `WriteAnswered`,
  `Verify`, `EndProjection` and one of `MarkProcessed`, `MarkFailed`, `DeferForMaintenance`; everybody
  else moves in between. A worker stands for the token of its latest claim. `late` holds writes whose
  sender has given up and which the engine may still carry out.
- `rebuild`: a rebuild goes through `CloseGate`, `LockGate`, two `AskAlias` in either order,
  `StartBuild`, one `IndexBatch` per product, `VerifyIndex`, `SendCutOver`, `CutOverAnswered`, `Reopen`,
  and may fail at each (`GiveUp`); its alias request may then still arrive (`LateCutOverLands`). A
  rebuild with `--resume-maintenance` takes an owned gate over; which of the two an operator asks for is
  open, so `CloseGate` does either. Every build has an index of its own.
- `repair` (`SearchRepair`): a repair holds the gate like a projection (`BeginRepair`, `PinTarget`,
  `ConfirmOnce`; it asks for its ownership once, at the start). It lists a batch of what should be found
  (`ListBatch`), compares it with the index a moment later (`CompareBatch`), then goes through a point in
  time of the index (`OpenScan`, `CompareScanned`) and hands every difference to the worker's
  `synchronize` (`Resynchronize`, `RepairAnswered`, `VerifyRepair`), which reads the row once more. Without
  `--repair` the command only reads: `Matches`, which a rebuild asks for in `VerifyIndex`. What differs
  under the very same revision, where the code writes with `external_gte`, does not arise: a document is a
  function of its revision here.

Options, items, prices and texts are told apart by the revision that wrote them; of the product graph
only whether something can be bought is kept, because activation and search depend on it
(`ImplementsCatalog` shows that the real commands do that to it). `NewStatuses` are the statuses an
update is asked for; the runs take `ACTIVE` and `PAUSED`, since `DRAFT`, `SUSPENDED` and `CLOSED` differ from
`PAUSED` for nothing but roles. Roles are left out (an administrator may do what a seller may). The poll of
a replica waits for the write alias, the command `search:outbox:drain` does not; the model does as the latter.

### Inside a catalog command

`CatalogGraph` follows one product through `product-catalog.writer.ts` (`PW`). A command holds the
product's row from its first read, so one runs at a time; it may still die between two flushes.

- `rows`: the rows of options, values, items, selections, categories and tags, as the open transaction has
  them; `history`: the snapshots with their graphs; `tx`: the command that holds the product, its resolved
  graph and its phase; `outcome`: what the last command was told.
- A command is `Begin` (validate the graph, match every part with its row by id or code), then `Stage`,
  `RemoveUnused`, `ApplyOptions`, `ApplyItems`, `ApplySelections` (one flush each) and `Commit`. A flush that
  meets a unique key rolls all of it back. The first flush writes the product's row too. Within a flush
  rows are written one by one in an order the library chooses: a written row can meet the old value of another as well as its new one (`Collides`).
- `slugsTaken`: the slugs of all other products. A slug is unique in the whole catalog
  (`domain/entity/product.entity.ts` 59-61), and `OtherProducts` takes and gives them up at any time, except the
  slug this product has, or has written and not yet committed. `Create`, `Update` (`SaveProduct`) and a restore,
  which brings the old slug back (`restoreFrom`, 181), end in a conflict when another product has theirs.
- `Changes`: the pairs of status and slug an `Update` is asked for; either may be what the product has already.
- Texts are model values that the database compares under `Collation`, while the code compares them
  exactly; the staging key `!k` is the number k, which a name may be as well. `Codes` are the texts
  `PRODUCT_OPTION_CODE_PATTERN` allows and ids of categories, `Skus` those a caller can give: all but a
  random SKU or what the database takes for one. `Limits` is `PRODUCT_CATALOG_LIMITS`, how many of each a
  graph may have, and `Top` the largest place (`MAX_UNSIGNED_INTEGER`), from which parking counts down.

The category tree has no code that changes it; prices, media and the limits on lengths are left out.

### Accounts

`Accounts` has one step for every await of a sign-up, a login and a refresh that others can tell apart. `TP` is
`global/jwt/token.provider.ts`.

- `member`: hash and whether `lastLoginAt` is set; `active`: the places for key derivations a process has
  given away; `attempts`: the two login counters, in windows (`WindowEnds`).
- `session`, `used`: `token:<member>` and `token:used:<hash>`, changed by the two Lua scripts, each of which
  Redis runs in one piece. Tokens are numbered as they are made, a family has the number of its first
  token, and a session left behind by an older release is the bare token (`Legacy`).
- `call`: what each call is about to do; `given`: the tokens an answer has brought to a client. A client
  shows any token it was ever given, or one nobody made, under the expired access token of any member.
- Faults: the client library sends a script again when the connection broke (`SendAgain`), a process dies
  (`Crash`). Keys run out in any order, but a session never before the marks of its used tokens, because
  each script that writes a mark sets the session with the same time to live.
- `firsts`, `dead` only observe.

A used token shown under another member's access token revokes nothing: the script compares families
with the session of the member who asks (`TP` 52-57). `TokensRotateOnce` therefore speaks of a second use
by the token's own member.

Definitions marked "Mutant" are plausible bugs of the definition below them. They are used by no
specification; each property was checked to fail when the definition is replaced by its mutant.

## 3. Runs

All runs say `CHECK_DEADLOCK FALSE`: once every order is cancelled or completed, every key used or every
call answered, the system has nothing left to do. Faults (crashes, leases that run out under a worker,
scripts sent again, a lock server that does not answer) are bounded by `MaxFaults`; a lease whose worker is gone
always runs out.

| Run | Question | Bounds |
| --- | --- | --- |
| `stock` | Do stock, ledger and reservations stay in step while two orders compete and operators adjust, and does an overdue order always end? | 2 orders, 2 items (one too scarce for both orders in full), a column maximum of 3 so that restores and adjustments reach it, 2 client keys, 1 attempt per order, late handlers; fairness below |
| `money` | Do refunds and shipments of one order add up, does the order end exactly when everything arrived, and is every transaction one move of the order contract? | 1 order of 2 lines (2 and 1 units), 2 attempts, 3 shipments that carry one unit of either line, one of both, or all of it, refunds of 1 to 3 out of 3, 4 keys and 3 provider ids: a capture and several refunds or failures in every order, with repeats |
| `reads` | Can a payment attempt read before a wait mislead a shipment handler? | 1 order of 2 units, 2 attempts, 2 shipments, 2 handlers waiting at once, refunds of 1 and 2, 3 keys |
| `placement` | Is what placements and adjustments commit one whole step, and does each answer name the right order? | 3 placements (one request twice, another request under its key or a second one), 2 products with an item of 1 unit each, a stock adjustment twice, one product that goes off sale, 1 retry, 1 fault, a lock that lapses at any time, so that in some behaviours rows and unique key are all that is left |
| `inbox` | Does each event move money once, does a refund wait for its capture, and is every step still a commerce step? | a capture and the refund of all of it as 2 events, 1 shipment that can stand in the way, 1 delivery at a time, 1 relay, 1 retry, 1 fault, and a client key with which the shop can do the same by itself |
| `settle` | Is every event whose time has come settled, and do late results of relays that lost their lease undo anything? | the failure report of an attempt that the shop may capture or cancel, 2 relays, 3 retries, 2 faults: both relays can overrun, and a retry count can be behind by two; fairness below |
| `projection` | Does a change that counts as projected stay visible, across a change of index too, and does every outcome stand? | 1 product with 2 past revisions and 2 changes of any kind, 2 interchangeable relays, 1 rebuild, 1 attempt, 1 requeue, 1 fault: an older projection can be under way in one relay, or late, while the other finishes a newer one |
| `cutover` | Whatever happens to a rebuild, do the aliases and the gate end up right? | 2 products, 2 rebuilds of which either may overtake the other, 2 faults, no relay, deletions forgotten; up to 2 changes of one product, 1 of the other |
| `delivery` | Does every change reach the index or a dead letter, with attempts counted right, and do repairs end with an exact index? | a product on sale and one more change of any kind, a write of an earlier attempt still under way, or no index at all; 1 relay, 1 repair at a time, as often as it likes, 2 attempts, 1 requeue, 2 faults, deletions forgotten; fairness below |
| `first` | A violation: see the finding | no product, 2 rebuilds, 1 fault |
| `graph` | Do all edits and restores arrive exactly unless another product has the slug, and does only a real clash meet a unique key? | 2 slugs, which other products take and give up at any time; 2 changes (paused under one slug, on sale under the other); 6 graphs and 2 items to choose from, up to 5 revisions: names of options and values that swap, items that swap places and selections, names spelled like parking keys or equal only to the database, items named that are gone; at most 2 options of 2 values, 3 items, 1 category and 1 tag, and 33 places, as few as `RoomAssumption` lets them be; a crash between any two flushes |
| `accounts` | Does a token work once, does a session end only for cause, is one login the first, does every place come back? | 1 member who may be left from an older release, 1 client, 2 calls on 1 process with room for 1 derivation, limits of 1, 3 tokens, 1 fault: two logins, or a login and a refresh, or two refreshes with one token overlap in every way |

Finding (`AliasesTogether`). `getActiveAliasTargets` (`CI` 204-210) reads the read and the write alias with
two requests. If the alias request of a dead first rebuild lands between the two, the rebuild that resumed
sees no read index and the dead one's write index. Its own request then removes only the write alias, is
accepted, and the read alias ends on two indices; nothing fails, the gate reopens, and searches find every
product in both. The comment at `CI` 222 and `docs/search/opensearch-index-synchronization.md` 122 say that
the competing first activation is rejected as a whole. That is so when both aliases are read before or after
the request lands. With an index in service the torn read does no harm, because the removals name the old
index (`cutover`).

Fairness. `FairSpec` (run `stock`) assumes weak fairness of `ExpireByBatch(o)`: `src/cli/inventory-expire.ts` is
the command operations schedule (`docs/operations/local-runtime-runbook.md` 152-165), every order it
could expire is selected again until it is closed. A restore that would overflow `Item.stock` is refused
(`IS` 438-444), and the order then stays open until an operator makes room: `LapsedOrdersClose` has that
excuse, `NoRoom`. The batch takes the oldest due reservations up to its limit, so this also assumes fewer
of them than the limit that can not be given back.

`FairWebhookSpec` assumes that a relay works off what it claimed (weak fairness of `RelayWorks`: one
loop that awaits each event in turn, `WR` 53-70), that leases run out (weak fairness of `LeaseLapses`:
`lease_until` is a fixed time), and that a row which is claimable again and again is claimed at last
(strong fairness of `ClaimEvent`). Each replica polls every second for ever
(`payment-webhook-recovery.worker.ts` 36-51) and takes the oldest due rows that are not locked just
then, at most 25; so this also assumes fewer than 1,500 rows that are waiting for something and come back
every minute. Weak fairness would not do, because an administrator or a delivery can lock the row at any poll.
Deliveries, administrators, clients and the success of processing are not assumed: `EventsSettle` holds
even if every attempt throws, since the retry budget then ends it. Nothing else is assumed to happen.

`DeliverySpec` (`RepairFairness` from two starts the service can be in) assumes that a relay goes on with
what it claimed and claims what it can (weak fairness of `WorkerStep`: `drainUntilEmpty` in a loop, a
replica polls for ever, `search-outbox.worker.ts` 59-100) and that leases run out. The code takes rows by
id, the model in any order. The run has no rebuild: behind a gate that stays shut rows wait, as they
should. Commands, requeues, repairs and success are not assumed. `RepairConverges` says instead: if repairs
succeed again and again, the index is exact from some moment on, because commands, faults and late
writes are bounded here. It rests on `OpenScan`: only the second pass finds a document that came back.

## 4. Proofs

The proofs are for all orders, items, quantities, attempts, shipments and keys, and for all members, calls,
processes, placements and rows, from the named assumptions on the constants (`InventoryAssumption`,
`PaymentAssumption`, `FulfillmentAssumption`, `CommerceAssumption`, `ReadsAssumption`,
`PlacementAssumption`, `WebhookAssumption`, `CatalogAssumption`, `IndexAssumption`, `SearchAssumption`,
`GraphAssumption`, `AccountAssumption`), which say that constants have their types and that values which stand for nothing are
none of the others. `PlacementAssumption` adds that there are finitely many rows, each with a `Rank` of its
own and products before items, and that equal fingerprints ask for equal lines, and `AccountAssumption` that
there are finitely many calls. `GraphAssumption` says what callers can name: items by id, but never options,
values or signatures, for which the commands have no field (`application/product-write.command.ts` 33-78),
and no SKU that the database could take for a random one; and that `Changes` are statuses and slugs there are
(`CatalogAssumption` says so of `NewStatuses`). `TextAssumption`: texts are no numbers, and the
database tells codes apart, which are lower case letters, digits, `_` and `-` (`domain/product.rules.ts` 6).
`RoomAssumption`: there are twice as many places as a graph may have options, values of an option,
categories or tags, and for items, which never leave the table, `2 * MaxRevision + 1` times as many. The
code allows 500 items and places up to 2^32 - 1, so that this holds up to more than four million
revisions of one product.

- `TypeCorrect`: the type invariant, including `stock \in 0 .. MaxStock`: no order sells what is not
  there and no restore overflows.
- `ReservationsCorrect`: reservations follow the order. `ReservationsFollowOrder` is inductive together
  with the type invariant: each action changes the order's status and all its reservations in one step.
- `MoneyCorrect`: needs `ReservationsFollowOrder` too, because a capture is refused for its
  reservations, not for another attempt's status.
- `ShipmentsFundedCorrect`, `RestoredOnceCorrect`, `EndedStaysEndedCorrect`: from the invariants
  before them. `RestoredOnce` needs that a pending order has no restoring movement at all.
- `StockConserved`, `AttemptMatchesCorrect`, `CompletionCorrect` (`CommerceSumsProofs`): these speak of sums
  over finite sets. `SumTakesOut`, `SumAdds` and the other laws of `SumFunctionOnSet` are proved there from the
  library's facts on finite sets; where an induction is needed, the smallest set that would refute the
  law is looked at instead. `StockInv` makes conservation inductive: reservations that hold goods, the ledger
  and the stock of each item move in one step, and a movement's key is new. `PaymentInv` says what the
  transactions of an attempt in each status add up to; `DeliveryInv` that a line's quantities in shipments
  which are not cancelled add up to at most what was ordered, and that a completed order's add up to all of it.
- `GoodsMoveTogetherCorrect` and `ContractImplemented`: the refinement. The inductive invariant adds
  `DeliveredKeepsOrder` (a delivered parcel's order is never cancelled), which `GiveBack` needs.
- `StaleReadsHarmlessCorrect`, `ViewsHoldCorrect`: by one induction over both levels. As long as shipments
  on their way are funded, a check of what a handler saw passes only where the check of what there is
  would, so the step is a commerce step, and commerce steps keep such shipments funded; `ViewsSeen` adds
  that what a handler saw of such a shipment was funded, because no shipment comes back from its end.
- `AtomicAfterAllCorrect`, `AnswersCorrect`, `LockSparesRetriesCorrect`: from `PlacementInv`. Its heart is
  `RowsHeld`: what a placement has locked is on sale and is what it has read. It has all its rows when it
  commits, so it reserves on the stock of that moment; the distributed lock plays no part. `AnswersFit`
  says what a call can have been told where it stands, `KeysOfPlaced` that an unplaced call's keys are
  unused, and `GuardsApart`, for the third theorem only, that until a lock lapses nobody else stores an
  order under the key of a call at work.
- `NobodyStuckCorrect`: from `RowsInOrder`: whoever holds a row holds all of its own rows that come before
  it. So among those who wait, the one that waits for the row of the highest rank waits for nobody who waits.
  That there is such a row is the only place where the number of rows must be finite.
- `CommerceImplemented`: with webhooks at work every step is a commerce step or none, so all theorems
  above hold there too (`CommerceSafe`). From `WebhookAssumption`: commands and keys have their types
  and different events have different keys.
- `InboxTypeCorrect`: not inductive alone, because an error result stores the count the claim read
  plus one. `InboxInv` adds that a row still to be processed has retries left (`RowsInBudget`), that a
  worker which holds the lease knows the row's count (`ClaimsCurrent`), and that whoever is under way
  has stored its command (`DeliveriesStored`).
- `EventAppliedOnceCorrect`: from `InboxInv` and the commerce theorem that transactions are never
  removed; only `Process` makes an event `PROCESSED`, and only from another status.
- `SettledEventsStayCorrect`: from `InboxInv`; the lease token makes stale counts harmless, the status
  in the `WHERE` clause stale verdicts.
- `EarlyEventsKeptCorrect`: needs `VerdictsStand`, that a refusal given long ago is still right when it
  is written, because an attempt never returns to `PENDING`. That waiting is not charged needs
  `ClaimsCurrent`: a mark writes the count read at the claim (`Charged`), and only a worker whose count is
  the row's may still write.

The catalog side is proved in `CatalogSearchProofs`, for all products, relays, rebuilds, faults and
bounds, and for an index in service or none, from `CatalogAssumption`, `IndexAssumption` and
`SearchAssumption`. The first inductive invariant is `SearchInv`, whose parts are:

- `CatalogInv`: types, no product beyond its bound, and whoever is under way knows its event
  (`SearchTypeCorrect`).
- `GateInv`: a gate that is owned is held by nobody `FOR SHARE`. With it no command can commit while a
  rebuild owns the gate (`CatalogStandsStill`), dead or not.
- `RowsFollowHistory`: there is no row ahead of the catalog, so a command never meets a row with an
  outcome; a claim and a release meet none either (`OutcomesAreFinal`).
- `BudgetInv`: each row's count is within its budget for its status, and a worker whose token the row
  still holds saw the count the row has. Without the second part the first is not inductive:
  `MarkFailed` judges by the count of the claim (`AttemptsStayWithinBudget`).

`RowSteps` sorts the steps by what they do to the rows, so that each of these is proved for five kinds
of step instead of thirty actions. `AliasSteps` does the same for the aliases, the indices and the rebuilds.
Where the aliases go and what a search finds then takes one invariant more each:

- `AliasesMoveToExactIndex` from `CutOverInv`: until a rebuild's request is carried out nobody else knows of its
  index (`NewIndexUnknown`), so the write alias never comes back to where it was; hence a rebuild for which
  the write alias is what it read, alive or dead, knows that nothing moved since, that the gate still has an
  owner (`CutOversExact`), and with `CatalogStandsStill` that what was exact is exact. No hypothesis.
- `GateReopensOntoOwnIndex` and `AliasesStayTogether` from `ServiceInv`, for an index in service from the start
  (`InService = {TRUE}`): a rebuild that sends its request has found a read index to remove. Without the
  hypothesis they are false: the run `first` shows it.
- `SearchNeverRegresses` from `VersionInv`: whatever is in an index or on its way to one was the catalog at some
  time, and a relay sends what is no older than its event. For an index in service.
- `ProcessedStaysVisible` from `VisibleInv`: for the index behind the aliases and each product there is one
  revision that the index shows, that covers every event which is `PROCESSED` or about to be, and that nothing
  under way can undercut: each job and each late write is at least as new or will be refused. The
  revision is not the entry's version, because a product that was never searchable has none, and it jumps to
  the current one when the aliases move. For an index in service and deletions that are remembered
  (`DeletesForgotten = FALSE`): once the engine drops the mark of a deletion a late write can bring the
  document back, which is what `search:reconcile` is for.

`CatalogGraphProofs` has one invariant, `GraphInv`, for all drafts, collations and bounds. `HistoryInv` and
`RowsInv` say what holds between commands: every snapshot is a graph that may be stored (`Complete`), a
revision that restores is its source again (`RestoredIsSource`), the rows are the last snapshot
(`Stored`), and no item of any snapshot has left the table or changed its SKU. `TxInv` says that a command
under way holds such a graph too, and `PhaseInv` how far its flushes have got (`Reached`).

- `GraphMatched` is where a command's graph becomes complete: parts are matched with rows by id or code, and
  those that are new get ids above every id that was ever given. So no two parts share a row; among the
  values of different options this needs that ids are never used twice, which is why `EverValues` and not the
  rows decides.
- `ItemsWritten` needs that the flush met no unique key: two new items without a SKU are told apart by
  their ids, two with one by the key on it.
- `StoredIsGraph` reads rows back: sorted by their places they are the lists of the graph (`InOrderNumbered`),
  and selections written as row ids come back as the codes they were. `GraphAppliedCorrect` follows at the
  commit (`AtCommit`) and between commands.
- `ItemsKeptCorrect` and `ImplementsCatalogCorrect` need only the steps that change what is committed; what can
  be bought is told alike from rows and from graph (`SaleableStored`).

Whether a flush meets a key needlessly is the second invariant, `WriterInv`, which rests on the first.

- `Fitting` says what the rows have in common with those still to be written: nothing. Parked options and
  values have no code or name of the graph or of each other, because `unusedStagingKeys` avoids both
  (`FirstKey`), and parked rows of every kind have places beyond those of the graph. That enough free places
  are left is counted: `TableInv` bounds the items by those each revision can have added.
- So `stage` and `remove` meet nothing; the options flush meets a key only if two names are one text to
  the database, and leaves `NamesDiffer`; the items flush only if a SKU is taken; the selections
  flush nothing, because staging deleted all of them. `ConflictsAreRealCorrect` reads this off (`ConflictStep`);
  what is left is the slug, which only `stage` writes and the model compares with `slugsTaken` in the same step.
- `HistorySound`: what was stored has passed all of that. Its names differ, its SKUs are those of its items'
  rows, which keep them, and if it was on sale it has something to sell. So a restore is refused by no
  check (`ToldInv`) and meets no key but that of the slug; with `RestoredIsSource`, which covers status and slug
  too, this is `RestoreIsExactCorrect`, step by step: a restore that ends, and whose process lives, is stored
  exactly, or is a conflict while another product has the slug. Without
  `HistorySound` neither is inductive: a graph of two equal names could not be restored.

Accounts are proved in `AccountsProofs`, in four parts that together are `AccountInv`: `CallTyped`;
`MemberInv` (`FirstLoginOnceCorrect`), which needs that a call past its verification found a hash;
`PlaceInv` (`PlacesComeBackCorrect`), where the calls that derive are counted with the library's facts on
finite sets; and `SessionInv` (`TokensRotateOnceCorrect`, `SessionsEndForCauseCorrect`): the token of a
session has never been exchanged and its family is not dead, a family belongs to one member, and the token
of a login whose answer is still under way is known to nobody. The last is what makes a script that is
sent again harmless: it can only bring back a token nobody could show in the meantime.

Every invariant and action property of the passing runs has a theorem. Only model-checked:
`LapsedOrdersClose`, `EventsSettle`, `EventsDelivered` and `RepairConverges`, liveness properties, which are out
of the prover's reach. The theorems about `CatalogSearch` are about it without repairs.

## Not modelled

Product search (`infra/search/opensearch-product-search.adapter.ts`, the query compiler, cursors) only
reads. The signup mail is one handler without state. Migrations and seeders are declarations and one-off
scripts; their unique keys and ranges appear where behaviour depends on them. HTTP, GraphQL, logging and
configuration are wiring. Of modelled parts: builds with `--no-activate`, and repairs under one and the same
revision; in the catalog graph prices, media, limits on lengths, the product's texts other than its slug, and what sellers
may not do; the administrator's
`release`, which is unreachable; the window of a batch or poll over more rows than TLC can hold; row locks
that a `populate` under a lock mode takes and gaps InnoDB locks for absent rows, which the library and the
engine decide. The keys `token:family:*` are written and deleted but read by nobody. Login limits are in the
model because they decide which logins go on; no property speaks of them. How often ioredis sends a command
again is external.

## 5. Plan

Done: the commerce core, the webhook inbox, `CatalogSearch` from command to index and through a rebuild,
repairs, the handlers split at their reads (`ShipmentReads`, `Placement`), the product graph
(`CatalogGraph`), sessions and logins (`Accounts`). Left:

1. Builds that are not activated, and repairs beside a rebuild.
2. The window of the expiry batch and of a relay's poll over rows that can not make progress.
3. The order of row locks of cancellation, expiry and payment, once it is clear which rows the library
   locks for a `populate` under a lock mode.

Abstract specifications worth stating for these: a search that finds each product at some revision
between the last one processed and the current one, and a gate that is open, shut or owned.
