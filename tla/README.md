# Verification of the mercado-artesanal backend

TLA+ modules of the parts of this Express/Prisma/PostgreSQL/Stripe backend
where requests, webhooks and administrators race on the same rows. TLC checks
the modules on small instances; the theorems hold for every value of the
constants and are checked by TLAPS.

## Inventory

All state but that of the backups is in PostgreSQL. Every request runs in some Node process; the
interactive transactions run under READ COMMITTED, so between two statements
of one transaction any other may commit. Locks are row locks: taken by
UPDATE/DELETE/`FOR UPDATE`, kept to the end of the transaction, and ignored by
plain reads. Paths are relative to `src/src/modules` unless they start with
`shared`.

| Component | State | Operations | What makes it correct |
|---|---|---|---|
| orders (`orders/services/orders.service.ts`) | orders, sub_orders, order_lines | createOrderFromPayment, cancelOrder, list, detail | one order per paid intent, all or nothing; a cancellation returns the units once |
| order numbers (`order-number-allocator.ts`) | order_number_counters | allocate | 1, 2, ... per buyer, no gap after rollbacks |
| sub-orders | sub_orders.status, tracking_number | transition, list, detail | the producer's state machine; tracking before "sent" |
| payments | payments, pending_checkouts, Stripe | createPaymentIntent, three webhook handlers, getPaymentStatus | a paid record is final; a charge is never lost; the order costs what was charged |
| inventory | products.stock | decrementStock, restockProduct, findLowStock | never negative; units conserved |
| cart | carts, cart_items | addItem, updateItemQuantity, removeItem, clearCart, getCartForCheckout | a row is bought once, and asks for no more than there was |
| delivery modes | delivery_modes | create, update, hardDelete | the configuration fits the type; a mode with sub-orders stays; what is shipped has an address |
| products | products | create, update, softDelete, report, moderate | no withdrawn product with open lines; moderation decisions last |
| producers | producers, producer_categories_on_producers | patch, softDelete | no deleted producer with open sub-orders; the specialities are those of the last PATCH |
| account lifecycle (`shared/account-lifecycle.ts`, `shared/utils/user-row-lock.ts`) | users.deactivated_at, deleted_at | lockAndAssertOwnersActive, lockUserRows | no order between accounts that are not ACTIVE |
| admin users | users, addresses, pending_checkouts | activate, deactivate, delete | deletion is final, guarded by open orders, and leaves no personal data |
| notifications, email | notifications | createNotification, markAsRead, dispatchEmails | notified exactly when the change committed |
| addresses (`addresses/services/addresses.service.ts`) | addresses | create, update, softDeleteWithPromotion | exactly one default |
| auth sync, onboarding, users | users.role, producers | syncFromClaims, completeConsumer, completeProducer | one role, set once |
| incidents (`incidents/services`) | incidents | createIncident, listAllIncidents, resolveIncident | resolved once, by the first; each report and resolution told once; no report missed in the inbox |
| images | product_images, S3 | presign, upload, confirm | an image is shown only after its upload, and keeps its place |
| categories | categories | create, update, deactivate | a product is created in an active category |
| statistics | none | revenue, counts, low stock | only what was sent earns; nothing cancelled counts |
| database backups (`admin/services/database-backups.service.ts`, `shared/database-backups`) | lock directory, receipts, archives, manifests | prepare and reconcile at startup, create and its runner, getOperation | one operation at a time, recoverable after a crash |
| HTTP layer (`app.ts`, middleware, errors) | none | | role and ACTIVE guards before each operation |

How they interact: the webhook handlers read the cart, take the User locks of
buyer and producers, write payment, number, order, sub-orders, lines and
notifications, decrement the stock and clear the cart in one transaction.
`cancelOrder` and `transition` meet on sub_orders rows, `transition` reads the
type of a mode its producer may be changing, `cancelOrder` and checkout meet on products rows, administrators and checkout on users rows. The
withdrawal of a product, a producer or a mode counts open sub-orders that a
checkout is about to add to. Incidents hang on paid sub-orders and write
notifications in their own transactions. Emails leave after the commit, best
effort.

What is hard: READ COMMITTED read-then-write transactions that claim to be
atomic; Stripe's repeated and reordered events; the rollback of a transaction
that has written six tables; lock order; costs, carts, modes and accounts that change
between a check and its use; processes that die between two file operations. `PROJECT.json` lists each such place with its line
and the property that watches it.

## Modules

### OrderFulfilment: `cancelOrder` against `transition`

A step is one SQL statement. Committed columns are the variables `status`,
`tracking`, `notified`, `stock` and `carrier`, the modes whose type ships; what an open transaction has read and
written is in `tx[c]` and is published by its commit step.

| Code | Action |
|---|---|
| `cancelOrder` steps 1-2 (read, `deriveOrderStatus`) | `BeginCancel` |
| step 3, `restockProduct` of each line (row lock) | `RestockLine` |
| step 4, `updateMany ... status = 'pending'`, row by row | `ClaimRow` |
| count guard and commit, or throw and rollback | `CommitCancel`, `RejectCancel` |
| `transition` steps 1-4: the read, and the checks that need nothing else | `BeginTransition` |
| step 2, rules (b) and (d): the type of the mode, read live | `PassGate`, `RefuseTransition` |
| step 5, `update where id` (row lock) | `UpdateRow` |
| step 5a and commit | `CommitTransition` |
| `delivery-modes.update` of the type | `StartShipping`, `StopShipping` |
| crash, lost connection, 5 s timer, deadlock victim | `Rollback` |

`Earning` and `Counted` are what the statistics of a producer include.
`restocks`, `overwritten` and `retyped` are history variables: committed
cancellations, sub-orders whose status was replaced by a PATCH that had read
another, and the open PATCHes that were past the gate when the mode of their
sub-order came to ship. The nested `include` of a mode is a SELECT of its own,
so the gate is a step after the read of the row. `Retypable` is a bound: which
modes a producer retypes; the others never ship. `updateMany` re-evaluates
its WHERE clause on the committed version of a row it had to wait for, which
is why `ClaimRow` reads `status` when it gets the lock. `transition`'s update
has no such clause.

### PaymentWebhooks: from the paid intent to the order

`session[c]` is the request a server session is handling. The succeeded handler
goes through the phases payment, reconcile, begin, lock, items, price and
insert; the other events, and a charge that does not match, go through update,
find, create and again.

| Code | Action |
|---|---|
| `createPaymentIntent` | `CreatePaymentIntent` |
| Stripe emitting and delivering events | `StripeEvent`, `Receive` |
| `handleFailedEvent`, `handleCanceledEvent` | `HandleFailedOrCanceled` |
| `upsertNonTerminalPayment` | `UpdatePayment`, `FindPayment`, `CreatePayment` |
| `handleSucceededEvent`: cart, existing payment, reconciliation | `HandleSucceeded`, `ReadPayment`, `Reconcile` |
| its transaction: deleteMany FAILED, step 0 | `BeginTransaction` |
| `createOrderFromPayment` 1b-1c, 2, 3, 4 | `LockOwners`, `CheckItems`, `PriceOrder` |
| steps 5-9 and the commit | `CommitOrder` |
| P2002 and the one retry | `RetryTransaction` |
| a check that throws, crash, timeout, deadlock victim | `Refused`, `Throw` |
| `cart.addItem` of a product that is not in the cart | `AddItem` |
| `cart.updateItemQuantity`, `removeItem`, `addItem` of one that is | `EditCart` |
| `delivery-modes.update` | `EditDeliveryMode` |
| `products.update` / `softDelete`: count, then write | `BeginWithdrawal`, `WithdrawProduct`, `OfferProduct` |
| `admin-users` lifecycle actions | `ActivateUser`, `DeactivateUser`, `DeleteUser` |

Simplifications, each deliberate: the rows of a lock set are taken in one step
(`lockUserRows` takes them in ascending id order, so the wait it leaves out
cannot close a cycle by itself); steps 5 to 9 are one step, because checkouts
that share a buyer or a producer are kept apart by the User locks and the
product rows a checkout writes belong to producers it has locked; a
quantity change is one step; each producer has one delivery mode and the
selections of an intent are the sellers of the cart it was created for;
prices are integers; orders stay open (what happens to them later is
OrderFulfilment). `Item` are row ids: `unused` has those nobody has been given,
`AddItem` takes one, and a removed or bought row does not return, since `addItem`
makes a row with a new id.

### PaymentLedger: the abstract specification

What the webhooks promise of a payment record: SUCCEEDED comes with the order
and only over no record or FAILED; SUCCEEDED and CANCELED never change. The
mapping in PaymentWebhooks reads the record's status and the set of intents
with an order.

### DatabaseBackups: lease, creation and startup reconciliation

State is the file system, shared by the processes of one host, and the place in
the code where each process is. A step is what a process does between two
awaits; a file that is written, chmodded and renamed is one step, since nobody
reads it before the rename, but what a write cut short leaves in `.tmp` is kept.
`lock` says what a reader of the lock directory finds: no directory, no
`info.json`, an empty one, or the owner's pid.

| Code | Action |
|---|---|
| `server.start`, `prepareDatabaseBackups` | `Boot` |
| `reclaimDeadLease`: read, judge the pid, `rm -r` (file, then directory) | `ReadLease`, `CheckOwner`, `UnlinkInfo`, `ReclaimLease` |
| `acquireLease`: mkdir, open and write `info.json` | `MakeLock`, `OpenInfo`, `WriteInfo` |
| `release`: `rm -r` | `UnlinkInfo`, `ReleaseLease` |
| `reconcileBackupOperations`: each receipt, then `.tmp` | `Reconcile`, `SkipReceipt`, `CleanTemps` |
| `create`: lease, ACCEPTED receipt | `BeginCreate`, `Accept` |
| `executeCreatePipeline` | `TransitionStage`, `Dump`, `PublishArchive`, `PublishManifest` |
| deadline, failed tool or write; `failCreateOperation`; `finally` | `PipelineError`, `FailOperation`, `FailUnrecorded`, `RemoveDump` |
| errors elsewhere | `LeaseError`, `PersistError` |
| kill, shutdown with a runner at work | `Kill` |

`holder` is a history variable, the process whose mkdir made the lock. A
`create` that meets the lease leaves no trace, so each process is given one
operation at a time. A process that restarts keeps its pid, which stands for
any reuse of pids. Left out: the loss of the host (renames are not followed by
a directory fsync), processes in separate pid namespaces, a `pg_dump` that
outlives its killed server (its file has been removed from `.tmp`), and the
checksum, which always is that of the archive.

### OperationLease: the abstract specification

At most one process works under the lease (`inside`), only its holder releases
it, and only the lease of a process that has stopped is reclaimed. The variable
`inside` is what makes this a promise: without it a lock removed from under a
working process would look like a release. DatabaseBackups implements it with
`holder`, the running processes, and those between their mkdir and the end of
their work, as long as one process starts at a time beside at most one other
(Observations). Nothing in the repository starts a second server (no cluster, no
process manager), so what remains are restarts, and a redeployment that starts
the new server, up to its health check, before it stops the old one.

### Accounts: from the first sync to the tombstone

`request[c]` is the request a session is handling: where it is in the code and
what its statements have read. `user`, `producer`, `address` and `checkout` are
rows; `bound` the checkouts whose `provider_ref` is set. `overlapped` and
`late` are history variables: users who had two requests in flight at some
time, and users deleted with one in flight.

| Code | Action |
|---|---|
| `loadUser`, `onboardingGate`, `requireRole` | `Admit` |
| `syncFromClaims`: lookup, then insert or update | `FindBySub`, `CreateUser`, `VerifyEmail` |
| `completeConsumer`, `completeProducer`: read, then write by id | `ReadRole`, `SetConsumer`, `SetProducer` |
| `updateMe` | `UpdateProfile` |
| addresses `create`: count, demote, insert | `CountAddresses`, `MatchDefaults`, `InsertAddress` |
| addresses `update`: find, demote, update by id | `FindForUpdate`, `MatchDefaults`, `UpdateAddress` |
| `softDeleteWithPromotion`: find, retire, promote by id | `FindForRemoval`, `RetireAddress`, `PromoteHeir` |
| `createPaymentIntent`: address, preflight lock, upsert, Stripe, bind | `ReadAddress`, `Preflight`, `UpsertCheckout`, `StripeAnswers`, `BindIntent` |
| admin `activateUser`, `deactivateUser`, `deleteUser` | `ActivateUser`, `DeactivateUser`, `DeleteUser` |
| rejected input, failed Stripe call, rollback | `Abandon` |

`MatchDefaults` keeps the rows the demoting `updateMany` matched and `Demoted`
looks at them again, as PostgreSQL does after a wait. `Commit` applies the
partial unique index `one_default_address_per_user`. The locks that matter are
the User rows the preflight holds over the upsert, which the lifecycle actions,
the updates by id and the foreign key check of an insert wait for.

Simplifications: content is "personal" or "redacted" and nothing else; the
fingerprint of a checkout is the address it is for, since the rest of it does
not change what is redacted; addresses get their ids in the order of
`created_at`; carts are shipped (a pickup cart copies no address); ADMIN users
and the demo policy only refuse; categories, emails and notifications are left
out. The active-order guard of `deleteUser` is in PaymentWebhooks: here a user
may have none at any time, which allows more deletions, not fewer.

### Catalogue: what is offered

Nearly every handler reads, checks and writes one row by id, in a transaction
that does not lock what it read. It is two steps: `request[c]` keeps what the
read saw, and the write is made whatever has committed since.

| Code | Action |
|---|---|
| products `create`: category, then insert | `ReadCategory`, `InsertProduct` |
| products `update`, `softDelete`: count open lines, then write | `ReadForUpdate`, `WriteUpdate`, `ReadForDelete`, `WriteDelete` |
| `report` | `ReadForReport`, `WriteReport` |
| `moderate`: read, then the conditional `updateMany` | `ReadForModerate`, `WriteModerate` |
| categories `create`, `update`, `deactivate` | `CreateCategory`, `UpdateCategory` |
| images `presign`; the client's PUT; `confirm`: HEAD, then insert | `Presign`, `Upload`, `HeadObject`, `InsertImage` |
| producers `patch`: `deleteMany`, then `createMany` of the join rows | `MatchSpecialities`, `ReplaceSpecialities` |
| producers `softDelete`: count open sub-orders, then write | `ReadForClose`, `WriteClose` |

`deleteMany` removes only the join rows its statement sees: `request[c].matched`.
A row another PATCH inserted since survives, or is P2002 when it is chosen by
both. The open orders the withdrawals count are a parameter (`active`), which
Storefront supplies. Names, descriptions and prices are left out.

### Storefront: modes, carts and one line on its way to an order

EXTENDS Catalogue, and adds who reads it.

| Code | Action |
|---|---|
| delivery-modes `create` | `CreateMode` |
| `update`: read and validate the merge, then write | `ReadForConfigure`, `Configure` |
| `hardDelete`: count, then delete under the foreign key | `ReadForDiscard`, `Discard` |
| `addItem`: product; cart and item; upsert; P2002; P2025 | `ReadProduct`, `ReadItem`, `UpsertItem`, `RetryAdd`, `AddFails` |
| `updateItemQuantity`, `removeItem`: load, then write by id | `ReadForSet`, `ReadForRemove`, `WriteItem` |
| `clearCart`: look up the cart, then delete its items | `ReadForClear`, `ClearCart` |
| `createPaymentIntent`; `createOrderFromPayment` 0-3a, 5-9 | `CreatePaymentIntent`, `CheckOrder`, `CommitOrder` |
| the end of an order (OrderFulfilment) | `CloseOrder` |

`WrittenMode` writes the columns `data` names: the whole configuration merged
with the row that was read, the type and `is_active` only when the patch has
them. An order has one line and one mode, and meets here only what it reads
and writes of the shop; events, locks, records and numbers are those of
PaymentWebhooks. A request the code refuses changes nothing and is no step.

History variables: `peak` is the highest stock a product has had, `verdict`
the last decision of an administrator, `chosen` the last committed choice of
specialities, and `raced` the rows that were written from a read that no
longer held. Each property that exempts `raced` says in its comment what the
race may leave behind; without the exemption it does not hold, and what is
claimed is that nothing else breaks it.

### Support: incidents, notifications, mails

| Code | Action |
|---|---|
| `createIncident`: target; insert and list of administrators; commit | `ReadTarget`, `InsertIncident`, `CommitIncident` |
| `resolveIncident`: existence; conditional claim, audit, notification | `ReadIncident`, `ResolveIncident`, `RefuseResolve` |
| `dispatchEmails` in the controllers, each mail on its own | `Send`, `Respond` |
| the process ends | `Crash` |
| `markAsRead`: find, then write | `ReadNotice`, `MarkAsRead` |
| `listAllIncidents`, page by page: rows and total unordered | `StartWalk`, `ListRows`, `CountRows`, `NextPage` |
| `cancelOrder` (OrderFulfilment) | `CancelSubOrder` |
| `scripts/create-admin.ts`: count, then insert | `CountAdmins`, `CreateAdmin` |
| docs/admin-recovery.md, by hand | `DeleteAdmin` |

Rows appear at the commit, so a crash before it leaves nothing and one after it
loses the mails that were not sent. Incident ids stand for `created_at`.
History variables: `audience`, the administrators at the commit of a report;
`late`, reports whose list of administrators had changed by then; `twice`,
notices that two requests found unread.

## Runs

| Run | Instance | Question |
|---|---|---|
| races | 2 sessions, 1 order of 2 sub-orders (a mode that is retyped, a pickup) with a line of a product each, 2 tracking numbers, fairness | do cancellations and PATCHes keep stock, tracking, revenue and cancellation consistent in every interleaving with each other and with retypings, and does every request end but for restocks that deadlock? |
| replays | 2 sessions, 1 buyer, 2 intents for one cart of a row and another added later, 2 changes to the shop | do repeated and reordered events, edits and account changes keep records, orders, numbers, stock and accounts consistent? |
| contention | 2 sessions, 2 buyers, the last unit, fairness | is the unit sold once, and does every delivery end unless two handlers wait for each other's record and accounts? |
| charge_total, charge_record | replays with 1 change | disagreements with the documented money rules (below) |
| crashes | 3 processes, 2 at a time and 1 starting, 2 operations, 3 kills or I/O errors | is a reported backup complete, an outcome final, a startup's reconciliation thorough, and the lock directory a lease? |
| recovery | 2 processes, 1 operation, 1 fault, fairness | disagreement with the reclaim promise (below) |
| tombstones | 2 sessions, 1 user, 2 addresses, 1 tax number | does a deletion leave nothing personal, even of a checkout in flight; do books have their default; does the producers row follow the role? |
| defaults | the same with 3 addresses | disagreement with the documented single default (below) |
| storefront | 1 product, mode, buyer and order, 2 keys, 2 specialities, 2 sessions, 3 requests | what do withdrawals, moderation, patches, uploads and carts leave behind when they overlap with each other and with a checkout? |
| address | the same with 1 request | disagreement with the documented address snapshot (below) |
| support | 2 sessions, 2 administrators, 2 buyers, 1 sub-order, 2 incidents, pages of 1, 3 requests | is everybody told exactly once, is a resolution final, does the inbox miss nothing? |

Bounds. `MaxEdits` caps the changes of carts, modes, products and accounts: two
are enough to withdraw and offer, or deactivate and activate, around one
checkout, or to add a row after the first was bought, which gives the buyer a
second order and the series of numbers a second member. `MaxQuantity` is the largest quantity of a cart row. Every transaction
may roll back at every step and every event may come again without bound: the
state spaces are finite without further caps. `MaxFaults` caps kills and I/O
errors together: three let a creation fail, its FAILED receipt be lost and the
next startup be killed while it reconciles. `MaxAlive` is the number of
processes that run at once, and `MaxStarting` of those that start: a host that
starts the new server while the old one still answers has 2 and 1. The third
process of crashes is one that has no share in what the first two left behind. `MaxRequests` caps what a shop or the support desk serves: three are two
that overlap and one before or after them, which is what the races of these
modules take; orders, uploads and mails are not counted. The initial states of
storefront include a shop that has its product, mode and cart already, so that
no request is spent on building it. Two sessions give every pairwise race; what
a third could add to the safety of cancellations, checkouts, accounts, shop and
incidents is settled by the theorems, which hold for any number. Accounts has
one user: requests of different users meet only in the lock set of a checkout,
which PaymentWebhooks exercises with sellers, and in the uniqueness of `nif`.
Two addresses are the least with an heir to promote. Pages of one incident make
every report between two pages shift a page. Sessions, processes, operations,
keys, specialities and administrators are symmetric in the safety runs.
Deadlock checking is off: when all orders are delivered, all intents closed or
all requests served the system rests, and the liveness properties say instead
that no session rests in the middle of a request.

Fairness. A handler that can go on does so, even when others get the lock in
between (strong fairness of `Step`): PostgreSQL queues lock waiters in arrival
order. Nothing else is assumed: not of users, Stripe, administrators or
producers, and neither that a timer fires nor that PostgreSQL's deadlock detector
does, since with either every request would end whatever the code locks in
whatever order. So `RequestsFinish` and `HandlersFinish` say what the lock order of
the code does by itself. Each names the one wait cycle there is: cancellations that
restock the same products in opposite orders (`RestockDeadlock`), and two handlers of
which one has deleted the FAILED record and waits for the accounts, while the
other has the accounts and waits for the record (`RecordAgainstAccounts`). In
production the detector ends both; any other cycle, a lock never given up or an
unbounded retry would violate the properties.
In recovery a process goes on with what it does, and when none runs somebody
starts one, as a process manager would.

## What the runs found

- `charge_total`: the delivery cost is compared with the charge before the
  transaction and read again in step 3; a change in between gives an order whose
  total was never charged.
- `charge_record`: a failed event that arrives after the charge was set aside
  as PENDING turns its record into FAILED.
- `recovery`: a process killed between its mkdir and the end of the write of
  `info.json` leaves a lock that `reclaimDeadLease` takes for none, or cannot
  parse. Every later startup conflicts or throws, until somebody removes the
  directory by hand.
- `defaults`: a creation counts one address and does not make its own the
  default; a removal of the counted one commits before the insert, and the book
  has an address and no default. The index only forbids two. The removal and
  the promotion write by id from stale reads too, with the same effect.
- `address`: whether an address is copied is decided from the type of the mode
  when the intent is created, and whether the sub-order is shipped from its type
  at the webhook. A PICKUP mode retyped in between, at the same cost, gives a
  sub-order to ship without a destination.

### Observations

Met while modelling; no run states them, but the properties that pass name them
as their exceptions.

- `transition` updates by id alone, so of two PATCHes that read a null number a
  second into "sent" replaces the number that rule D calls immutable. The same
  race writes over "cancelled" and "delivered"; the comment of `cancelOrder`
  accepts the first. `ShipmentsKept` exempts `overwritten` for this.
- `delivery-modes.update` changes the type of a mode that has sub-orders, without a
  guard and without a lock that `transition` would meet. A sub-order that was sent
  as a pickup and whose mode then comes to ship is a shipped one without a tracking
  number, and so is one whose mode changed between the gate and the commit of its
  PATCH, although the comment of `transition` says that its transaction prevents
  TOCTOU "between the read and write". After that rule (a) refuses the missing
  number: it is accepted only on the way into "sent". `SentCarriesTracking` speaks of
  the moment of sending and names the second race (`retyped`); the mode that
  changes back, so that a pickup has a number, is its mirror image.
- The live part of an incident's detail (status, tracking number and mode of the
  sub-order) goes on changing after the resolution, so what the administrator
  saw when resolving is not kept. `ResolutionIsFinal` is about the status and the audit.
- `reclaimDeadLease` removes the lock directory by its path some time after it
  judged the owner dead. Two startups at once can both reconcile; and one startup
  beside two running processes can read the lock of the first, see it die after
  it has released, and remove the lock the second has taken meanwhile.
- The comment at producers.service.ts:153 says that concurrent patches cannot
  interleave; two of them can leave the union of what both chose.
- A report that read a product before its removal writes REPORTED over REMOVED,
  and a dismissal of that report publishes it again (`RemovalStands`). REMOVED
  hides a product from the listing, but carts and checkout look only at
  `isAvailable`, so who has it in a cart can still buy it.
- An order that commits between the count and the write of a withdrawal keeps a
  withdrawn product, or a deleted producer (`WithdrawnWithoutOrders`).
- Two patches of a delivery mode that overlap can leave a place or carrier of one
  type in a row of another (`ModesAreConsistent`).
- `addItem` compares with a stock read outside its transaction: two at once pass
  it together (`CartsWithinStock`). The checkout compares again.
- A page of the inbox is two statements: one whose total was counted before its
  rows were read may pass for the last (`WalkSeesAll`).
- Two runs of `create-admin` that overlap both count none and both insert.
- `countActiveOrders` looks only at what a PRODUCER has received, so a producer
  who buys can be deleted while waiting for an order, although the comment of
  `deleteUser` names both kinds.
- Two overlapping onboardings leave a CONSUMER with a producers row.
- An onboarding or an address update that passed `loadUser` before `deleteUser`
  and writes after it puts names or an address back on the tombstone:
  `RedactionHolds` excludes users in `late` for this, and only `updateProfile`
  repeats the ACTIVE predicate in its write.

## Proofs

The six `_proofs` modules prove, for any sets of sessions, processes, orders,
users, products, operations, incidents and any bounds, every safety property
the passing runs check. The seventh module with lemmas, `Sums`, has what they
need of finite sums: what a changed, dropped or additional term does to a sum
of SumFunctionOnSet. The value of a fold is that of a recursive function that
takes the elements in the order of CHOOSE, and that the order does not matter
is an induction over subsets. The induction theorems of the library take an
operator as a parameter, which the provers cannot instantiate; `WFMin` does not,
so the lemmas look at a smallest subset that would refute them.

- `TypeCorrect` (OrderFulfilment, PaymentWebhooks): TypeOK is inductive as it stands. For stock this is the
  argument that `CommitOrder` looks at the stock it decrements.
- `RestockedOnce`: the invariant adds that a cancellation in its claim phase
  holds, by its row locks, rows that were pending when claimed; since a
  committed cancellation leaves no pending row that a later one could claim
  completely, a second commit is impossible.
- `StockIsConserved`: inductive with TypeOK. A cancellation keeps what it has
  restocked to itself until `CommitCancel` adds the units of the order to the
  stock and one to its term of the sum; nothing else writes either.
- `CancelledStays`, `CancelSpares`: from the same facts about claimed rows, and
  from what a transition in flight has read.
- `SentTracked`: by `TrackingReady`, a PATCH into "sent" that is past the gate by a mode
  that ships carries a number, unless it is in `retyped`. `StartShipping` puts those
  there that would have none, and the commit reads the fact off.
- `ShipmentsStand`: by `KeptInv`, a sub-order with a number has been sent and a
  PATCH in flight that carries one has read it as "preparing"; so only a stale
  read takes a number or revenue away.
- `OrdersArePaid`: the invariant adds that a handler in `upsert` never targets a
  paid record when it writes, and that a transaction that deleted the FAILED
  record still sees it FAILED in the committed data, because its lock keeps the
  others out.
- `DeletedAreClear`, `OrdersBetweenActive`: a session past `LockOwners` holds
  the User rows of all parties and they are ACTIVE; that is inductive because
  every lifecycle action needs the lock.
- `NumbersGapless`: `NumbersInv` says that the numbers of a buyer's orders are
  exactly 1 to the counter and as many; only `CommitOrder` allocates, and only
  for an intent without an order.
- `ItemsBoughtOnce`: `SoldInv` adds that the User locks of two sessions are
  disjoint, that a checkout's lines are its buyer's, that what passed step 2c is
  unsold, and that a sold row is clear and its id given out, so that `AddItem` never
  fills it again. The buyer's lock, taken before the check,
  keeps a second handler of the same cart from passing it.
- `StockIsAccounted`: `StockInv` adds that the intents with an order are finitely
  many. `CommitOrder` takes from each product what the lines of the new order ask
  of it, and the rest of the sum is unchanged.
- `LedgerRefined`: every step of the handlers is a ledger step or a stutter.
  `PaidIsFinal` states what the ledger leaves out: the amount recorded for a paid
  intent and the contents of its order stay as they are too.
- `TypeCorrect` (DatabaseBackups): TypeOK with the fact that a runner has
  persisted its receipt, since a failing one rewrites it.
- `BackupsComplete`: the invariant adds that a runner about to report success
  has published its manifest; the reconciliation looks at the files instead.
  No assumption on `MaxStarting`: it holds even when two processes reconcile at
  once, because archives and manifests are never removed.
- `LeaseRefined`, under `RollingDeployment` (at most one process starts and at
  most two run; the properties are false for two that start or three that run,
  see Observations). `LeaseInv` says of each place in the code what the lock
  directory then looks like. Its core is about a startup that has read the lock:
  the owner it read holds it still and is dead or the startup itself, or nobody
  is alive but those two (`Judges`); once it has found the owner dead, nobody
  alive holds the lock, and if nobody holds it at all the startup is alone
  (`Reclaims`). So what it removes by path is what it judged. The proofs are
  over a classification of the actions (`Moves`) that forgets what the lease
  does not see. `LeaseExcludes` reads the mutual exclusion off `LeaseInv`.
- `OutcomesAreFinal`: `RunInv` adds that an operation has one process, with no
  receipt before `Accept` and an open one until its last transition; that no
  reconciliation settles it meanwhile is the exclusion of the lease.
- `ServesAfterReconciliation`: `StartInv` says that what a startup has gone
  through is settled, and stays so to the end of `release`, because who else
  would write needs the lease.
- `TypeCorrect` (Accounts): TypeOK is inductive as it stands.
- `DefaultsUnique`: every write of an address either removes defaults or is
  checked against the index; the lemma `FewerDefaults` covers the former.
- `CheckoutsStayRedacted`, `ChargesShowTheirAddress`: the invariant
  `CheckoutInv` adds that an address never changes hands, that a request in its
  charge phases or an edit is about an address of its own user, that a session
  between the preflight and the upsert has an ACTIVE user (every lifecycle
  action waits for its lock), and that a checkout that shows "redacted" has a
  deleted owner. The second assertion before the bind then excludes it.
- `RegistrationHolds`: `RegisterInv` adds that an onboarding past its read finds
  the role still to be chosen, unless another of the same user overlapped.
- `TombstonesRedacted`: a user deleted with nothing in flight is let in for a sync
  only (`loadUser`), which ends at its first read; so nothing writes the rows
  again.
- `SerialBooksHaveDefault`: `SerialInv` says of each phase of an address request
  what its reads still guarantee when no other request of the user is in flight.
- Storefront: `TypeCorrect`, in particular no stock below zero. `OrdersNotWithdrawn`
  by `StandingInv`: an open order outside `raced` sees no withdrawal in progress,
  and none begins, because the count finds it. `ModesConsistent` by
  `ConfigureInv`: a patch in flight was valid for the row it read, and merging it
  with that row keeps a consistent row consistent. `CartsFit` by `FitsInv`: what a
  request compared is below the highest stock. `RemovalFinal` by `VerdictInv`: a
  removal stands in the row of every product outside `raced`, and no creation
  replaces that row. `ImagesStored` by `StoredInv`; `SpecialitiesChosen` directly.
- Support: `TypeCorrect`. `NoticesMatch` by `TellInv`: an uncommitted incident has
  told nobody, at most one session commits it, and a mail to be sent has its
  notification and is on one list. `ResolutionFinal` from the conditional claim: the status and the audit, nothing of
  what is read live from the sub-order.
  `StampKept` by `StampInv`: a request about to mark a notice found it unread, and
  another that did so too is in `twice` once the first has written.
  `WalkComplete` by `WalkInv`: an incident the walk has not shown ranks below the
  pages it has read, since reports are only put in front of it; so when the total
  was counted after the rows, there is a page left for it.

Assumptions: the constants have the types the modules state, and the sets that
sums and ranks range over are finite (orders, lines, cart rows, producers,
incidents);
TLC evaluates them on the runs. `RollingDeployment` is a hypothesis of the three
theorems that name it, and the constants of crashes satisfy it.

Only model-checked: liveness under fairness, which is out of the prover's reach.

## Not modelled

- Restore targets: nothing calls them yet. `getOperation`, listings, details and
  searches only read; where a property needs what one shows, it is an operator
  (`Own`, `Audit`, `PublicListing`, `ModerationQueue`, `Listed`).
- Statistics beyond which sub-orders they include, and `findLowStock`: sums over a
  window of one snapshot.
- `allocateSubOrderNumber`, the code of `allocateOrderNumber` over another counter.
- The fingerprint that reuses a pending checkout of the same contents.
- The HTTP layer, errors, logger and environment: no state; what the guards let in
  is `Admit`. The demo policy only refuses.
- Mail providers, S3, Stripe and the PostgreSQL tools are external, and appear as
  the outcomes the code handles.
- The seed fills an empty development database; `validate-ses` sends one mail.

What could follow: the lease theorems without `RollingDeployment`, once
`reclaimDeadLease` checks what it removes; an abstract address book that Accounts
implements for one request at a time; a producer who buys, against
`countActiveOrders`; checkouts of several lines in Storefront.
