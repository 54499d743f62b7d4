-------------------------- MODULE PaymentWebhooks --------------------------
(***************************************************************************)
(* From the paid Stripe intent to the order: the webhook handlers of       *)
(* payments.service.ts, the transaction of createOrderFromPayment          *)
(* (orders.service.ts) they run, and everybody else who writes the rows    *)
(* they read meanwhile: the buyer's cart, the producers' delivery modes    *)
(* and products, the administrators' lifecycle actions on the accounts.    *)
(*                                                                         *)
(* Stripe delivers each event at least once and in any order, to any       *)
(* session; a handler that throws answers 500 and the event comes again.   *)
(* Under READ COMMITTED a step is one SQL statement.  The variables but    *)
(* `session` are committed data; `session` holds what an open handler has  *)
(* read and the locks it holds.                                            *)
(***************************************************************************)
EXTENDS Integers, FiniteSets, Functions

CONSTANTS
    Session, Intent, User, Producer, Product,
    Item,           \* cart_items rows; an id is used once
    BuyerOf,        \* [Intent -> User]
    CartOf,         \* [Item -> User], the owner of the cart
    ProductOf,      \* [Item -> Product]
    ProducerOf,     \* [Product -> Producer]
    OwnerOf,        \* [Producer -> User]
    UnitPrice,      \* [Item -> Nat], unitPriceSnapshot
    InitialCart,    \* [Item -> quantity], 0 for a row to be added later
    InitialStock,   \* [Product -> Nat]
    InitialCost,    \* [Producer -> Cost]
    Cost,           \* the costs a producer may give the delivery mode
    MaxQuantity,    \* bound on the quantity of a cart item
    MaxEdits,       \* bound on what shoppers, producers and admins change
    Inactive        \* the delivery mode is not active

NoPayment == [status |-> "none", amount |-> 0]
NoOrder == [number |-> 0]
NoIntent == [charged |-> 0, sellers |-> {}]

Quantity == 0 .. MaxQuantity

\* What the lines of a cart cost, and the delivery by a set of producers.
ItemTotal(lines) == SumFunction([it \in Item |-> UnitPrice[it] * lines[it]])
DeliveryTotal(sellers, prices) == SumFunctionOnSet(prices, sellers)

\* The units of product p among lines.
UnitsOf(lines, p) == SumFunctionOnSet(lines, {it \in Item : ProductOf[it] = p})

ASSUME DataAssumption ==
    /\ IsFiniteSet(Item)
    /\ IsFiniteSet(Producer)
    /\ BuyerOf \in [Intent -> User]
    /\ CartOf \in [Item -> User]
    /\ ProductOf \in [Item -> Product]
    /\ ProducerOf \in [Product -> Producer]
    /\ OwnerOf \in [Producer -> User]
    /\ UnitPrice \in [Item -> Nat]
    /\ MaxQuantity \in Nat
    /\ MaxEdits \in Nat
    /\ InitialCart \in [Item -> Quantity]
    /\ InitialStock \in [Product -> Nat]
    /\ Cost \subseteq Nat
    /\ InitialCost \in [Producer -> Cost]
    /\ Inactive \notin Nat

VARIABLES
    cart,           \* cart_items.quantity, 0 for a row that is not there
    unused,         \* the row ids nobody has been given yet
    stock,          \* products.stock
    shelf,          \* the products that are active and not deleted
    cost,           \* delivery_modes.cost, or Inactive
    account,        \* the lifecycle state of each user
    intent,         \* what createPaymentIntent fixed at Stripe
    events,         \* the events Stripe has emitted for each intent
    payment,        \* payments
    order,          \* orders, by the intent that paid
    lastNumber,     \* order_number_counters
    acknowledged,   \* history: intents whose succeeded event got its 200
    edits,          \* history: changes made to the shop, up to MaxEdits
    session         \* the request each session is handling

shop == <<cart, unused, stock, shelf, cost, account, edits>>
books == <<payment, order, lastNumber, acknowledged>>
vars == <<shop, intent, events, books, session>>

AccountState == {"ACTIVE", "DEACTIVATED", "DELETED"}
EventType == {"failed", "succeeded", "canceled"}
PaymentStatus == {"FAILED", "PENDING", "CANCELED", "SUCCEEDED"}

Idle == [phase |-> "idle"]

\* The succeeded handler.  lines: the cart snapshot; fresh: every line was
\* available when it was read; deleted: the open transaction deleted the
\* FAILED record; total: what the order will cost.
Checkout ==
    [phase: {"payment", "reconcile", "begin", "lock", "items", "price", "insert"},
     intent: Intent, lines: [Item -> Quantity], fresh: BOOLEAN,
     deleted: BOOLEAN, retried: BOOLEAN, total: Nat]

\* upsertNonTerminalPayment.
Upsert == [phase: {"update", "find", "create", "again"},
           intent: Intent, status: {"FAILED", "PENDING", "CANCELED"}]

\* products.update or softDelete, between its count and its write.
Withdrawal == [phase: {"withdraw"}, product: Product]

TypeOK ==
    /\ cart \in [Item -> Quantity]
    /\ unused \subseteq Item
    /\ stock \in [Product -> Nat]
    /\ shelf \subseteq Product
    /\ cost \in [Producer -> Cost \cup {Inactive}]
    /\ account \in [User -> AccountState]
    /\ intent \in [Intent -> [charged: Nat, sellers: SUBSET Producer]]
    /\ events \in [Intent -> SUBSET EventType]
    /\ payment \in [Intent -> {NoPayment} \cup
                              [status: PaymentStatus, amount: Nat]]
    /\ order \in [Intent -> {NoOrder} \cup
                  [number: Nat \ {0}, total: Nat, lines: [Item -> Quantity]]]
    /\ lastNumber \in [User -> Nat]
    /\ acknowledged \subseteq Intent
    /\ edits \in 0 .. MaxEdits
    /\ session \in [Session -> {Idle} \cup Checkout \cup Upsert \cup Withdrawal]

Init ==
    /\ cart = InitialCart
    /\ unused = {it \in Item : InitialCart[it] = 0}
    /\ stock = InitialStock
    /\ shelf = Product
    /\ cost = InitialCost
    /\ account = [u \in User |-> "ACTIVE"]
    /\ intent = [i \in Intent |-> NoIntent]
    /\ events = [i \in Intent |-> {}]
    /\ payment = [i \in Intent |-> NoPayment]
    /\ order = [i \in Intent |-> NoOrder]
    /\ lastNumber = [u \in User |-> 0]
    /\ acknowledged = {}
    /\ edits = 0
    /\ session = [c \in Session |-> Idle]

-----------------------------------------------------------------------------
(* Reading a cart *)

\* getCartForCheckout: the lines of the buyer's cart.
CartLines(u) == [it \in Item |-> IF CartOf[it] = u THEN cart[it] ELSE 0]
Present(lines) == {it \in Item : lines[it] > 0}
SellerOf(it) == ProducerOf[ProductOf[it]]
Sellers(lines) == {SellerOf(it) : it \in Present(lines)}

\* computeIsAvailable.
IsAvailable(it) ==
    ProductOf[it] \in shelf /\ account[OwnerOf[SellerOf(it)]] = "ACTIVE"

Ordered(i) == order[i] # NoOrder
Recorded(i) == payment[i] # NoPayment

-----------------------------------------------------------------------------
(* Row locks *)

Phase(c) == session[c].phase
Locked == {"items", "price", "insert"}

\* The User rows lockUserRows takes: the buyer and every owner in the cart.
OwnersIn(lines) == {OwnerOf[r] : r \in Sellers(lines)}
Parties(u, lines) == {u} \cup OwnersIn(lines)

\* Mutation: checkout reads the accounts without locking them.
NoUserLock(c) == {}
HeldUsers(c) ==
    IF Phase(c) \in Locked
    THEN Parties(BuyerOf[session[c].intent], session[c].lines) ELSE {}

UsersFree(c, users) == \A d \in Session \ {c} : users \cap HeldUsers(d) = {}
AllActive(users) == \A u \in users : account[u] = "ACTIVE"

\* The open transaction of d has deleted the FAILED record of intent i.
HoldsRecord(d, i) ==
    /\ Phase(d) \in {"lock"} \cup Locked
    /\ session[d].intent = i
    /\ session[d].deleted
RecordFree(c, i) == \A d \in Session \ {c} : ~HoldsRecord(d, i)

-----------------------------------------------------------------------------
(* createPaymentIntent, and what Stripe does with the intent *)

\* Steps 1 to 7b.  Whatever the buyer, producers or administrators do while it
\* runs, the intent charges the total of the cart and the costs it has read.
\* One cart can have two intents of the same content: the idempotency key also
\* covers the address, and Stripe forgets it after a day.
CreatePaymentIntent(i) ==
    LET u == BuyerOf[i]
        lines == CartLines(u)
    IN  /\ intent[i] = NoIntent
        /\ Present(lines) # {}
        /\ \A r \in Sellers(lines) : cost[r] # Inactive
        /\ \A it \in Present(lines) : /\ IsAvailable(it)
                                      /\ lines[it] <= stock[ProductOf[it]]
        /\ AllActive(Parties(u, lines))
        /\ \A c \in Session : Parties(u, lines) \cap HeldUsers(c) = {}
        /\ intent' = [intent EXCEPT ![i] =
              [charged |-> ItemTotal(lines) + DeliveryTotal(Sellers(lines), cost),
               sellers |-> Sellers(lines)]]
        /\ UNCHANGED <<shop, events, books, session>>

\* A payment attempt fails (and may be repeated), the payment goes through, or
\* the intent is canceled.  The last two exclude each other and are final.
StripeEvent(i, e) ==
    /\ intent[i] # NoIntent
    /\ events[i] \cap {"succeeded", "canceled"} = {}
    /\ events' = [events EXCEPT ![i] = @ \cup {e}]
    /\ UNCHANGED <<shop, intent, books, session>>

-----------------------------------------------------------------------------
(* upsertNonTerminalPayment *)

Become(c, s) == session' = [session EXCEPT ![c] = s]

\* Mutation: a late event may overwrite a paid record.
UnlessCanceled(i) == Recorded(i) /\ payment[i].status # "CANCELED"
Overwritable(i) ==
    Recorded(i) /\ payment[i].status \notin {"SUCCEEDED", "CANCELED"}

\* The handler returns and Stripe gets its 200.
Acknowledge(c) ==
    acknowledged' = IF session[c].status = "PENDING"
                    THEN acknowledged \cup {session[c].intent}
                    ELSE acknowledged

WritePayment(c) ==
    LET i == session[c].intent
    IN  payment' = [payment EXCEPT ![i] =
              [status |-> session[c].status, amount |-> intent[i].charged]]

\* handleFailedEvent and handleCanceledEvent.
HandleFailedOrCanceled(c, i, e) ==
    /\ Phase(c) = "idle"
    /\ e \in events[i] \cap {"failed", "canceled"}
    /\ Become(c, [phase |-> "update", intent |-> i,
                  status |-> IF e = "failed" THEN "FAILED" ELSE "CANCELED"])
    /\ UNCHANGED <<shop, intent, events, books>>

\* updateMany, first and (after the unique violation) second attempt.
UpdatePayment(c) ==
    LET i == session[c].intent
        written == Overwritable(i)
        returns == written \/ Phase(c) = "again"
    IN  /\ Phase(c) \in {"update", "again"}
        /\ RecordFree(c, i)
        /\ IF written THEN WritePayment(c) ELSE UNCHANGED payment
        /\ IF returns THEN Acknowledge(c) ELSE UNCHANGED acknowledged
        /\ Become(c, IF returns THEN Idle
                                ELSE [session[c] EXCEPT !.phase = "find"])
        /\ UNCHANGED <<shop, intent, events, order, lastNumber>>

\* Mutation of the next: a record found is tried again until it is written.
FindAndRetry(c) ==
    /\ Phase(c) = "find"
    /\ Become(c, [session[c] EXCEPT !.phase =
                    IF Recorded(session[c].intent) THEN "update" ELSE "create"])
    /\ UNCHANGED <<shop, intent, events, books>>

\* findUnique: any record found is taken for a terminal one.
FindPayment(c) ==
    LET found == Recorded(session[c].intent)
    IN  /\ Phase(c) = "find"
        /\ IF found THEN Acknowledge(c) ELSE UNCHANGED acknowledged
        /\ Become(c, IF found THEN Idle
                              ELSE [session[c] EXCEPT !.phase = "create"])
        /\ UNCHANGED <<shop, intent, events, payment, order, lastNumber>>

\* create, or P2002 when the record has appeared since.
CreatePayment(c) ==
    LET i == session[c].intent
    IN  /\ Phase(c) = "create"
        /\ RecordFree(c, i)
        /\ IF Recorded(i)
           THEN /\ Become(c, [session[c] EXCEPT !.phase = "again"])
                /\ UNCHANGED <<payment, acknowledged>>
           ELSE /\ WritePayment(c)
                /\ Acknowledge(c)
                /\ Become(c, Idle)
        /\ UNCHANGED <<shop, intent, events, order, lastNumber>>

-----------------------------------------------------------------------------
(* handleSucceededEvent, before its transaction *)

\* The cart is read outside the transaction.
HandleSucceeded(c, i) ==
    LET lines == CartLines(BuyerOf[i])
    IN  /\ Phase(c) = "idle"
        /\ "succeeded" \in events[i]
        /\ Become(c, [phase |-> "payment", intent |-> i, lines |-> lines,
                      fresh |-> \A it \in Present(lines) : IsAvailable(it),
                      deleted |-> FALSE, retried |-> FALSE, total |-> 0])
        /\ UNCHANGED <<shop, intent, events, books>>

\* A replay of an intent already paid skips the reconciliation.
ReadPayment(c) ==
    /\ Phase(c) = "payment"
    /\ Become(c, [session[c] EXCEPT !.phase =
                    IF payment[session[c].intent].status = "SUCCEEDED"
                    THEN "begin" ELSE "reconcile"])
    /\ UNCHANGED <<shop, intent, events, books>>

\* recomputeCartTotal: the charge is the total of this cart at today's costs.
MatchesCharge(s) ==
    LET i == s.intent
    IN  /\ \A r \in Sellers(s.lines) :
              r \in intent[i].sellers /\ cost[r] # Inactive
        /\ intent[i].charged =
              ItemTotal(s.lines) + DeliveryTotal(Sellers(s.lines), cost)

\* A charge that does not match is set aside as PENDING.
Reconcile(c) ==
    /\ Phase(c) = "reconcile"
    /\ Become(c, IF MatchesCharge(session[c])
                 THEN [session[c] EXCEPT !.phase = "begin"]
                 ELSE [phase |-> "update", intent |-> session[c].intent,
                       status |-> "PENDING"])
    /\ UNCHANGED <<shop, intent, events, books>>

-----------------------------------------------------------------------------
(* The transaction: createOrderFromPayment *)

\* deleteMany of the FAILED record, and step 0: a replay returns the order.
BeginTransaction(c) ==
    LET i == session[c].intent
    IN  /\ Phase(c) = "begin"
        /\ payment[i].status = "FAILED" => RecordFree(c, i)
        /\ IF Ordered(i)
           THEN /\ acknowledged' = acknowledged \cup {i}
                /\ Become(c, Idle)
           ELSE /\ Present(session[c].lines) # {}
                /\ UNCHANGED acknowledged
                /\ Become(c, [session[c] EXCEPT
                      !.phase = "lock",
                      !.deleted = payment[i].status = "FAILED"])
        /\ UNCHANGED <<shop, intent, events, payment, order, lastNumber>>

\* Steps 1b and 1c: all accounts locked and active, and still no order.
LockOwners(c) ==
    LET i == session[c].intent
        parties == Parties(BuyerOf[i], session[c].lines)
    IN  /\ Phase(c) = "lock"
        /\ UsersFree(c, parties)
        /\ AllActive(parties)
        /\ IF Ordered(i)
           THEN /\ acknowledged' = acknowledged \cup {i}
                /\ Become(c, Idle)
           ELSE /\ UNCHANGED acknowledged
                /\ Become(c, [session[c] EXCEPT !.phase = "items"])
        /\ UNCHANGED <<shop, intent, events, payment, order, lastNumber>>

\* Steps 2a to 2d.
ItemsAvailable(s) ==
    /\ s.fresh
    /\ \A it \in Present(s.lines) : cart[it] > 0 /\ ProductOf[it] \in shelf

CheckItems(c) ==
    /\ Phase(c) = "items"
    /\ ItemsAvailable(session[c])
    /\ Become(c, [session[c] EXCEPT !.phase = "price"])
    /\ UNCHANGED <<shop, intent, events, books>>

\* Steps 3 and 3a: the selections are the sellers, each with an active mode.
SelectionsValid(s) ==
    /\ Sellers(s.lines) = intent[s.intent].sellers
    /\ \A r \in Sellers(s.lines) : cost[r] # Inactive

\* Step 4.
PriceOrder(c) ==
    LET s == session[c]
    IN  /\ Phase(c) = "price"
        /\ SelectionsValid(s)
        /\ Become(c, [s EXCEPT !.phase = "insert",
                               !.total = ItemTotal(s.lines) +
                                         DeliveryTotal(Sellers(s.lines), cost)])
        /\ UNCHANGED <<shop, intent, events, books>>

\* Mutation: the unique index on provider_ref is gone.
NeverClashes(s) == FALSE

\* payment.create meets a record that this transaction has not deleted: P2002.
RecordClash(s) == Recorded(s.intent) /\ ~s.deleted

\* Mutation: the stock is not looked at after the decrement.
AnyStock(lines) == TRUE
StockSuffices(lines) == \A p \in Product : UnitsOf(lines, p) <= stock[p]

Remaining(lines) == [p \in Product |-> stock[p] - UnitsOf(lines, p)]

\* Mutation: step 9 is lost.
CartUntouched(lines) == cart
CartCleared(lines) == [it \in Item |-> IF lines[it] > 0 THEN 0 ELSE cart[it]]

\* Mutation: the upsert creates the counter and increments it no more.
NotIncremented(u) == IF lastNumber[u] = 0 THEN 1 ELSE lastNumber[u]

\* allocateOrderNumber: a counter of the buyer's own, rolled back with the rest.
NextNumber(u) == lastNumber[u] + 1

\* Steps 5 to 9 and the commit.  Checkouts that share a buyer or a producer
\* exclude each other by the locks of step 1b, so these steps are one.
CommitOrder(c) ==
    LET s == session[c]
        i == s.intent
        n == NextNumber(BuyerOf[i])
    IN  /\ Phase(c) = "insert"
        /\ RecordFree(c, i)
        /\ ~RecordClash(s)
        /\ StockSuffices(s.lines)
        /\ payment' = [payment EXCEPT ![i] =
                          [status |-> "SUCCEEDED", amount |-> s.total]]
        /\ order' = [order EXCEPT ![i] =
                        [number |-> n, total |-> s.total, lines |-> s.lines]]
        /\ lastNumber' = [lastNumber EXCEPT ![BuyerOf[i]] = n]
        /\ stock' = Remaining(s.lines)
        /\ cart' = CartCleared(s.lines)
        /\ acknowledged' = acknowledged \cup {i}
        /\ Become(c, Idle)
        /\ UNCHANGED <<unused, shelf, cost, account, edits, intent, events>>

\* P2002 rolls the transaction back; the handler runs it once more.
RetryTransaction(c) ==
    LET s == session[c]
    IN  /\ Phase(c) = "insert"
        /\ RecordFree(c, s.intent)
        /\ RecordClash(s)
        /\ ~s.retried
        /\ Become(c, [s EXCEPT !.phase = "begin", !.retried = TRUE,
                               !.deleted = FALSE, !.total = 0])
        /\ UNCHANGED <<shop, intent, events, books>>

\* The checks above that throw.
Refused(c) ==
    LET s == session[c]
        i == s.intent
        parties == Parties(BuyerOf[i], s.lines)
    IN  CASE Phase(c) = "begin"  -> ~Ordered(i) /\ Present(s.lines) = {}
          [] Phase(c) = "lock"   -> UsersFree(c, parties) /\ ~AllActive(parties)
          [] Phase(c) = "items"  -> ~ItemsAvailable(s)
          [] Phase(c) = "price"  -> ~SelectionsValid(s)
          [] Phase(c) = "insert" ->
                /\ RecordFree(c, i)
                /\ IF RecordClash(s) THEN s.retried ELSE ~StockSuffices(s.lines)
          [] OTHER               -> FALSE

\* Mutation: decrementStock commits in a transaction of its own.
ThrowLosesStock(c) ==
    /\ Phase(c) # "idle"
    /\ stock' = IF Phase(c) = "insert" /\ StockSuffices(session[c].lines)
                THEN Remaining(session[c].lines) ELSE stock
    /\ Become(c, Idle)
    /\ UNCHANGED <<cart, unused, shelf, cost, account, edits, intent, events, books>>

\* The handler ends without effect: a check throws, the server stops, the
\* transaction times out (15 s), or PostgreSQL picks it as a deadlock victim.
\* Stripe gets no 200 and delivers the event again.
Throw(c) ==
    /\ Phase(c) # "idle"
    /\ Become(c, Idle)
    /\ UNCHANGED <<shop, intent, events, books>>

-----------------------------------------------------------------------------
(* The writers of the rows checkout reads *)

Edit == edits < MaxEdits /\ edits' = edits + 1

\* cart.addItem of a product that is not in the cart; unique (cart, product).
AddItem(it, q) ==
    /\ Edit
    /\ it \in unused
    /\ account[CartOf[it]] = "ACTIVE"
    /\ IsAvailable(it)
    /\ q > 0 /\ q <= stock[ProductOf[it]]
    /\ \A a \in Item : CartOf[a] = CartOf[it] /\ ProductOf[a] = ProductOf[it]
                          => cart[a] = 0
    /\ cart' = [cart EXCEPT ![it] = q]
    /\ unused' = unused \ {it}
    /\ UNCHANGED <<stock, shelf, cost, account, intent, events, books, session>>

\* cart.updateItemQuantity, removeItem, and addItem of what is there already.
EditCart(it, q) ==
    /\ Edit
    /\ account[CartOf[it]] = "ACTIVE"
    /\ cart[it] > 0
    /\ q # cart[it] /\ q <= stock[ProductOf[it]]
    /\ cart' = [cart EXCEPT ![it] = q]
    /\ UNCHANGED <<unused, stock, shelf, cost, account, intent, events, books, session>>

\* delivery-modes.update.
EditDeliveryMode(r, k) ==
    /\ Edit
    /\ account[OwnerOf[r]] = "ACTIVE"
    /\ cost[r] # k
    /\ cost' = [cost EXCEPT ![r] = k]
    /\ UNCHANGED <<cart, unused, stock, shelf, account, intent, events, books, session>>

\* products.update to active.
OfferProduct(p) ==
    /\ Edit
    /\ p \notin shelf
    /\ account[OwnerOf[ProducerOf[p]]] = "ACTIVE"
    /\ shelf' = shelf \cup {p}
    /\ UNCHANGED <<cart, unused, stock, cost, account, intent, events, books, session>>

\* No order line of the product is still to be delivered.  (Every order here
\* is; OrderFulfilment models what happens to it later.)
Unordered(p) ==
    \A i \in Intent, it \in Item :
        Ordered(i) /\ ProductOf[it] = p => order[i].lines[it] = 0

\* products.update to inactive, or softDelete: the count, then the write.
BeginWithdrawal(c, p) ==
    /\ Edit
    /\ Phase(c) = "idle"
    /\ account[OwnerOf[ProducerOf[p]]] = "ACTIVE"
    /\ p \in shelf
    /\ Unordered(p)
    /\ Become(c, [phase |-> "withdraw", product |-> p])
    /\ UNCHANGED <<cart, unused, stock, shelf, cost, account, intent, events, books>>

WithdrawProduct(c) ==
    /\ Phase(c) = "withdraw"
    /\ shelf' = shelf \ {session[c].product}
    /\ Become(c, Idle)
    /\ UNCHANGED <<cart, unused, stock, cost, account, edits, intent, events, books>>

Received(u) == {i \in Intent : Ordered(i) /\ u \in OwnersIn(order[i].lines)}
Bought(u) == {i \in Intent : Ordered(i) /\ BuyerOf[i] = u}

\* countActiveOrders of deleteUser: what a producer has to deliver, what any
\* other user is waiting for.
ActiveOrders(u) ==
    IF \E r \in Producer : OwnerOf[r] = u THEN Received(u) ELSE Bought(u)

\* admin-users activateUser, deactivateUser and deleteUser, each one
\* transaction under the lock of the User row.
SetAccount(u, from, to) ==
    /\ Edit
    /\ \A c \in Session : u \notin HeldUsers(c)
    /\ account[u] \in from
    /\ account' = [account EXCEPT ![u] = to]
    /\ UNCHANGED <<cart, unused, stock, shelf, cost, intent, events, books, session>>

ActivateUser(u) == SetAccount(u, {"DEACTIVATED"}, "ACTIVE")
DeactivateUser(u) == SetAccount(u, {"ACTIVE"}, "DEACTIVATED")
DeleteUser(u) ==
    ActiveOrders(u) = {} /\ SetAccount(u, {"ACTIVE", "DEACTIVATED"}, "DELETED")

-----------------------------------------------------------------------------

-----------------------------------------------------------------------------
Receive(c) ==
    \E i \in Intent : \/ HandleSucceeded(c, i)
                      \/ \E e \in EventType : HandleFailedOrCanceled(c, i, e)

Step(c) ==
    \/ UpdatePayment(c) \/ FindPayment(c) \/ CreatePayment(c)
    \/ ReadPayment(c) \/ Reconcile(c)
    \/ BeginTransaction(c) \/ LockOwners(c) \/ CheckItems(c) \/ PriceOrder(c)
    \/ CommitOrder(c) \/ RetryTransaction(c)
    \/ Refused(c) /\ Throw(c)
    \/ WithdrawProduct(c)

Handler(c) ==
    Receive(c) \/ Step(c) \/ Throw(c) \/ \E p \in Product : BeginWithdrawal(c, p)

Stripe ==
    \E i \in Intent :
        CreatePaymentIntent(i) \/ \E e \in EventType : StripeEvent(i, e)

Shop ==
    \/ \E it \in Item, q \in Quantity : AddItem(it, q) \/ EditCart(it, q)
    \/ \E r \in Producer, k \in Cost \cup {Inactive} : EditDeliveryMode(r, k)
    \/ \E p \in Product : OfferProduct(p)
    \/ \E u \in User : ActivateUser(u) \/ DeactivateUser(u) \/ DeleteUser(u)

Next == (\E c \in Session : Handler(c)) \/ Stripe \/ Shop

Spec == Init /\ [][Next]_vars

\* A handler that can go on does, and waiters are served in turn.  Nobody has
\* to buy, pay or deliver anything, and nothing is assumed of timers or of the
\* deadlock detector.
Fairness == \A c \in Session : SF_vars(Step(c))

FairSpec == Spec /\ Fairness

-----------------------------------------------------------------------------
(* Safety *)

\* An intent has an order exactly when its record says SUCCEEDED, for the same
\* amount: neither a late failure, a cancellation nor a replay touches a paid
\* record (upsertNonTerminalPayment's guard, createOrderFromPayment's commit).
OrderMeansSucceeded ==
    \A i \in Intent :
        /\ Ordered(i) <=> payment[i].status = "SUCCEEDED"
        /\ Ordered(i) => payment[i].amount = order[i].total

\* The numbers of a buyer's orders are 1, 2, ... without a gap or a repeat,
\* whatever transactions rolled back or were replayed (allocateOrderNumber).
OrderNumbersGapless ==
    \A u \in User :
        LET mine == {i \in Intent : BuyerOf[i] = u /\ Ordered(i)}
        IN  /\ {order[i].number : i \in mine} = 1 .. lastNumber[u]
            /\ Cardinality(mine) = lastNumber[u]

\* Every unit that left the stock is in an order, and no unit is sold twice
\* (decrementStock rolls back with the transaction; TypeOK has stock >= 0).
StockMatchesOrders ==
    \A p \in Product :
        InitialStock[p] = stock[p] +
            SumFunction([i \in {j \in Intent : Ordered(j)} |->
                             UnitsOf(order[i].lines, p)])

\* A cart row is bought once, even when its owner pays two intents for it
\* (the completeness check of step 2c against the clear of step 9).
ItemBoughtOnce ==
    \A i, j \in Intent, it \in Item :
        i # j /\ Ordered(i) /\ Ordered(j)
            => order[i].lines[it] = 0 \/ order[j].lines[it] = 0

\* A deleted producer has nothing to deliver and a deleted consumer nothing to
\* wait for: checkout and deleteUser exclude each other on the User rows.
DeletedHaveNoActiveOrders ==
    \A u \in User : account[u] = "DELETED" => ActiveOrders(u) = {}

\* Checkout never commits when the buyer or a producer's owner is inactive at
\* that moment (lockAndAssertOwnersActive).
OrdersOnlyBetweenActive ==
    [][\A i \in Intent : ~Ordered(i) /\ Ordered(i)' =>
          AllActive(Parties(BuyerOf[i], order'[i].lines))]_vars

\* The records of the handlers follow the abstract ledger.
Ledger == INSTANCE PaymentLedger WITH
              record <- [i \in Intent |-> payment[i].status],
              fulfilled <- {i \in Intent : Ordered(i)}
FollowsLedger == Ledger!Spec

(* Liveness *)

\* c has deleted the FAILED record of an intent and waits for accounts that d
\* holds, and d waits for that record to insert its own (handleSucceededEvent,
\* deleteMany before step 1b).
RecordAgainstAccounts(c, d) ==
    /\ Phase(c) = "lock"
    /\ HeldUsers(d) \cap Parties(BuyerOf[session[c].intent], session[c].lines) # {}
    /\ Phase(d) = "insert"
    /\ HoldsRecord(c, session[d].intent)

\* Every delivery ends by itself, with or without a 200: upsert and retry are
\* bounded, and the record locks of deleteMany and the User locks of checkout
\* block a session for ever in no other way than RecordAgainstAccounts.
HandlersFinish ==
    \A c \in Session :
        Phase(c) # "idle" ~>
            \/ Phase(c) = "idle"
            \/ \E a, b \in Session : RecordAgainstAccounts(a, b)

(* What comments and tests say of the charge *)

\* "`intent.amount` (what Stripe actually charged) is the money source of
\* truth": an order costs what was charged for it.
OrderCostsItsCharge ==
    \A i \in Intent : Ordered(i) => order[i].total = intent[i].charged

\* "persist a durable PENDING Payment for the charged amount": once the
\* succeeded event has its 200, the charge stays on record as taken.
ChargeStaysOnRecord ==
    \A i \in acknowledged : payment[i].status \in {"PENDING", "SUCCEEDED"}
=============================================================================
