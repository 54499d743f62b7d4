------------------------------ MODULE Storefront ------------------------------
(***************************************************************************)
(* Producers withdraw what buyers are paying for: delivery modes           *)
(* (delivery-modes.service.ts), carts (cart.service.ts) and the path of a  *)
(* cart line from the payment intent to the order, over the catalogue.     *)
(*                                                                         *)
(* An order has one line here, and the events that carry it from the       *)
(* intent to the order are those of module PaymentWebhooks: what is kept   *)
(* is when the cart, the product and the delivery mode are read, and when  *)
(* the transaction commits.                                                *)
(***************************************************************************)
EXTENDS Catalogue

CONSTANTS
    Mode,           \* ids of delivery modes
    ModeOwner,      \* [Mode -> Producer]
    ModePatch,      \* bodies of PATCH delivery-modes/:id
    Buyer,
    Order,
    Units           \* quantities a buyer may ask for

ASSUME StorefrontAssumption ==
    /\ ModeOwner \in [Mode -> Producer]
    /\ ModePatch \subseteq [type: {"PICKUP", "PERSONAL_DELIVERY", "SHIPPING_FLAT_RATE", Keep},
                            place: BOOLEAN \cup {Keep}, carrier: BOOLEAN \cup {Keep},
                            isActive: BOOLEAN \cup {Keep}]
    /\ Units \subseteq Nat \ {0}

VARIABLES
    mode,           \* delivery_modes rows
    cart,           \* buyers with a carts row
    item,           \* cart_items rows
    order           \* from the payment intent to the last sub-order status

sales == <<mode, cart, item, order>>

vars == <<product, listing, sales, request, served, raced, peak>>

-----------------------------------------------------------------------------
Type == {"PICKUP", "PERSONAL_DELIVERY", "SHIPPING_FLAT_RATE"}

RequiresDestinationAddress(type) == type \in {"PERSONAL_DELIVERY", "SHIPPING_FLAT_RATE"}

\* place: where to pick up.  carrier: the carrier company.
ModeRow == [exists: BOOLEAN, type: Type, place: BOOLEAN, carrier: BOOLEAN,
            isActive: BOOLEAN]

NoMode == [exists |-> FALSE, type |-> "PICKUP", place |-> FALSE,
           carrier |-> FALSE, isActive |-> FALSE]

\* quantity 0: there is no such row.  id: the how manieth row for this product
\* and cart it is.
ItemRow == [id: Nat, quantity: Nat]

Intended == [at: {"intended"}, buyer: Buyer, product: Product, mode: Mode,
             address: BOOLEAN]
Checked == [at: {"checked"}, buyer: Buyer, product: Product, mode: Mode,
            address: BOOLEAN, ships: BOOLEAN, item: ItemRow]
Placed == [at: {"placed", "closed"}, product: Product, mode: Mode,
           ships: BOOLEAN, shipTo: BOOLEAN, quantity: Nat]

OrderRow == {[at |-> "none"]} \cup Intended \cup Checked \cup Placed

\* Sub-orders that are pending, preparing or sent.
Active(o) == order[o].at = "placed"
HasRow(o) == order[o].at \in {"placed", "closed"}

\* Mutation of the next: the lines are not counted.
UncountedOrders(p) == {}

ActiveOrdersOf(p) == {o \in Order : Active(o) /\ order[o].product = p}
ActiveOrdersFrom(f) == {o \in Order : Active(o) /\ OwnerOf[order[o].product] = f}
ActiveOrdersBy(m) == {o \in Order : Active(o) /\ order[o].mode = m}

\* computeIsAvailable and step 2d of the checkout; moderation plays no part.
IsAvailable(p) == Exists(p) /\ product[p].isActive /\ OwnerOf[p] \notin closed

Offered(m) == mode[m].exists /\ mode[m].isActive

InCart(b, p) == item[b][p].quantity > 0

\* The requests of this module.
ModeWrite == [at: {"configure"}, mode: Mode, patch: ModePatch, read: ModeRow]
ModeDelete == [at: {"discard"}, mode: Mode]
Add == [at: {"add"}, buyer: Buyer, product: Product, quantity: Units, stock: Nat,
        retried: BOOLEAN]
AddRead == [at: {"upsert"}, buyer: Buyer, product: Product, quantity: Units,
            stock: Nat, retried: BOOLEAN, hadCart: BOOLEAN, had: Nat]
ItemWrite == [at: {"set", "remove"}, buyer: Buyer, product: Product, id: Nat,
              quantity: Nat]
Clear == [at: {"clear"}, buyer: Buyer]

Request == CatalogueRequest \cup ModeWrite \cup ModeDelete \cup Add \cup AddRead
             \cup ItemWrite \cup Clear

-----------------------------------------------------------------------------
\* Delivery modes.
Valid(type, place) == type = "PICKUP" => place

\* Mutation of the next: the place is kept for every type.
KeptPlace(type, place) == place

\* normalizeConfiguration: what does not apply to the type is cleared.
NormalPlace(type, place) == type = "PICKUP" /\ place
NormalCarrier(type, carrier) == type = "SHIPPING_FLAT_RATE" /\ carrier

CreateMode(c, m, type, place, carrier) ==
    /\ ~mode[m].exists
    /\ \A o \in Order : HasRow(o) => order[o].mode # m
    /\ Valid(type, place)
    /\ mode' = [mode EXCEPT ![m] =
           [exists |-> TRUE, type |-> type, place |-> NormalPlace(type, place),
            carrier |-> NormalCarrier(type, carrier), isActive |-> TRUE]]
    /\ Serve(c)
    /\ UNCHANGED <<product, listing, cart, item, order, raced, peak>>

\* update: the patch is merged with the row that was read, and the merged
\* configuration is validated.
ReadForConfigure(c, m, patch) ==
    /\ mode[m].exists
    /\ Valid(Patched(patch.type, mode[m].type), Patched(patch.place, mode[m].place))
    /\ Begin(c, [at |-> "configure", mode |-> m, patch |-> patch, read |-> mode[m]])
    /\ UNCHANGED <<product, listing, sales, raced, peak>>

\* With the type unchanged a field the patch leaves out is written as read.
MergedField(normal, field, read, sameType) ==
    IF sameType /\ field = Keep THEN read ELSE normal

\* The columns `data` names: the whole configuration, type and is_active only
\* when the patch has them.
WrittenMode(row, patch, read) ==
    LET type == Patched(patch.type, read.type)
        place == NormalPlace(type, Patched(patch.place, read.place))
        carrier == NormalCarrier(type, Patched(patch.carrier, read.carrier))
        same == type = read.type
    IN [row EXCEPT
           !.type = Patched(patch.type, @),
           !.place = MergedField(place, patch.place, read.place, same),
           !.carrier = MergedField(carrier, patch.carrier, read.carrier, same),
           !.isActive = Patched(patch.isActive, @)]

Configure(c) ==
    /\ At(c, "configure")
    /\ LET r == request[c]
           row == mode[r.mode]
       IN IF ~row.exists
          THEN UNCHANGED <<mode, raced>>
          ELSE /\ mode' = [mode EXCEPT ![r.mode] = WrittenMode(row, r.patch, r.read)]
               /\ raced' = IF row = r.read THEN raced ELSE raced \cup {r.mode}
    /\ End(c)
    /\ UNCHANGED <<product, listing, cart, item, order, peak>>

\* hardDelete counts the active sub-orders of the mode ...
ReadForDiscard(c, m) ==
    /\ mode[m].exists
    /\ ActiveOrdersBy(m) = {}
    /\ Begin(c, [at |-> "discard", mode |-> m])
    /\ UNCHANGED <<product, listing, sales, raced, peak>>

\* ... and sub_orders.delivery_mode_id is ON DELETE RESTRICT for all of them.
Referenced(m) == \E o \in Order : HasRow(o) /\ order[o].mode = m

Discard(c) ==
    /\ At(c, "discard")
    /\ mode' = LET m == request[c].mode
               IN IF Referenced(m) THEN mode ELSE [mode EXCEPT ![m] = NoMode]
    /\ End(c)
    /\ UNCHANGED <<product, listing, cart, item, order, raced, peak>>

-----------------------------------------------------------------------------
\* Carts.  addItem reads the product first, outside its transaction.
ReadProduct(c, b, p, quantity) ==
    /\ IsAvailable(p)
    /\ quantity <= product[p].stock
    /\ Begin(c, [at |-> "add", buyer |-> b, product |-> p, quantity |-> quantity,
                 stock |-> product[p].stock, retried |-> FALSE])
    /\ UNCHANGED <<product, listing, sales, raced, peak>>

\* Mutation of the next: what is in the cart already is forgotten.
IncrementWithinStock(had, quantity, stock) == quantity <= stock

WithinStock(had, quantity, stock) == had + quantity <= stock

\* The cart upsert and the row that is already there; the total is compared
\* with the stock read before.
ReadItem(c) ==
    /\ At(c, "add")
    /\ LET r == request[c]
           had == item[r.buyer][r.product].quantity
       IN request' = [request EXCEPT ![c] =
              IF WithinStock(had, r.quantity, r.stock)
              THEN [at |-> "upsert", buyer |-> r.buyer, product |-> r.product,
                    quantity |-> r.quantity, stock |-> r.stock, retried |-> r.retried,
                    hadCart |-> r.buyer \in cart, had |-> had]
              ELSE Idle]
    /\ UNCHANGED <<product, listing, sales, served, raced, peak>>

\* The item upsert: an increment of the row that is there, or an insert.
UpsertItem(c) ==
    /\ At(c, "upsert")
    /\ LET r == request[c]
           b == r.buyer
           p == r.product
       IN /\ r.hadCart \/ b \notin cart
          /\ \/ /\ InCart(b, p)
                /\ item' = [item EXCEPT ![b][p].quantity = @ + r.quantity]
             \/ /\ ~InCart(b, p)
                /\ r.had = 0
                /\ item' = [item EXCEPT ![b][p] =
                               [id |-> @.id + 1, quantity |-> r.quantity]]
          /\ cart' = cart \cup {b}
          /\ raced' = IF item[b][p].quantity = r.had THEN raced ELSE raced \cup {b}
    /\ End(c)
    /\ UNCHANGED <<product, listing, mode, order, peak>>

\* P2002 on the carts row or on the item: the transaction is run once more.
Collides(c) ==
    LET r == request[c]
    IN \/ ~r.hadCart /\ r.buyer \in cart
       \/ r.had = 0 /\ InCart(r.buyer, r.product)

RetryAdd(c) ==
    /\ At(c, "upsert")
    /\ Collides(c)
    /\ request' = [request EXCEPT ![c] =
           IF @.retried THEN Idle
           ELSE [at |-> "add", buyer |-> @.buyer, product |-> @.product,
                 quantity |-> @.quantity, stock |-> @.stock, retried |-> TRUE]]
    /\ UNCHANGED <<product, listing, sales, served, raced, peak>>

\* The row to increment has been deleted since: P2025.
AddFails(c) ==
    /\ At(c, "upsert")
    /\ LET r == request[c] IN r.had > 0 /\ ~InCart(r.buyer, r.product)
    /\ End(c)
    /\ UNCHANGED <<product, listing, sales, raced, peak>>

\* updateItemQuantity and removeItem load the item, then write it by id.
ReadForSet(c, b, p, quantity) ==
    /\ InCart(b, p)
    /\ quantity <= product[p].stock
    /\ Begin(c, [at |-> "set", buyer |-> b, product |-> p, id |-> item[b][p].id,
                 quantity |-> quantity])
    /\ UNCHANGED <<product, listing, sales, raced, peak>>

ReadForRemove(c, b, p) ==
    /\ InCart(b, p)
    /\ Begin(c, [at |-> "remove", buyer |-> b, product |-> p, id |-> item[b][p].id,
                 quantity |-> 0])
    /\ UNCHANGED <<product, listing, sales, raced, peak>>

WriteItem(c) ==
    /\ request[c].at \in {"set", "remove"}
    /\ item' = LET r == request[c]
                   row == item[r.buyer][r.product]
               IN IF row.quantity > 0 /\ row.id = r.id
                  THEN [item EXCEPT ![r.buyer][r.product].quantity = r.quantity]
                  ELSE item
    /\ End(c)
    /\ UNCHANGED <<product, listing, mode, cart, order, raced, peak>>

\* clearCart looks the cart up and deletes whatever it holds by then.
ReadForClear(c, b) ==
    /\ b \in cart
    /\ Begin(c, [at |-> "clear", buyer |-> b])
    /\ UNCHANGED <<product, listing, sales, raced, peak>>

ClearCart(c) ==
    /\ At(c, "clear")
    /\ item' = [item EXCEPT ![request[c].buyer] =
                   [p \in Product |-> [@[p] EXCEPT !.quantity = 0]]]
    /\ End(c)
    /\ UNCHANGED <<product, listing, mode, cart, order, raced, peak>>

-----------------------------------------------------------------------------
\* The address is snapshotted when the mode's type requires one by now.
CreatePaymentIntent(o, b, p, m) ==
    /\ order[o].at = "none"
    /\ InCart(b, p)
    /\ IsAvailable(p)
    /\ item[b][p].quantity <= product[p].stock
    /\ Offered(m)
    /\ ModeOwner[m] = OwnerOf[p]
    /\ order' = [order EXCEPT ![o] =
           [at |-> "intended", buyer |-> b, product |-> p, mode |-> m,
            address |-> RequiresDestinationAddress(mode[m].type)]]
    /\ UNCHANGED <<product, listing, mode, cart, item, request, served, raced, peak>>

\* Steps 0 to 3a of createOrderFromPayment, in the webhook of the paid intent.
CheckOrder(o) ==
    /\ order[o].at = "intended"
    /\ LET r == order[o]
       IN /\ InCart(r.buyer, r.product)
          /\ IsAvailable(r.product)
          /\ Offered(r.mode)
          /\ order' = [order EXCEPT ![o] =
                 [at |-> "checked", buyer |-> r.buyer, product |-> r.product,
                  mode |-> r.mode, address |-> r.address,
                  ships |-> RequiresDestinationAddress(mode[r.mode].type),
                  item |-> item[r.buyer][r.product]]]
    /\ UNCHANGED <<product, listing, mode, cart, item, request, served, raced, peak>>

\* The order was created while its product, or its producer, was withdrawn.
Withdrawing(c, p) ==
    \/ request[c].at \in {"update", "delete"} /\ request[c].product = p
    \/ At(c, "close") /\ request[c].producer = OwnerOf[p]

Overlaps(p) == ~IsAvailable(p) \/ \E c \in Session : Withdrawing(c, p)

\* Mutation of the next: the decrement is not checked.
StockUnchecked(p, quantity) == TRUE

StockSuffices(p, quantity) == quantity <= product[p].stock

\* Steps 5 to 9.  The address is copied for a type that requires one.
CommitOrder(o) ==
    /\ order[o].at = "checked"
    /\ LET r == order[o]
           p == r.product
           n == r.item.quantity
       IN IF StockSuffices(p, n) /\ mode[r.mode].exists
          THEN /\ order' = [order EXCEPT ![o] =
                      [at |-> "placed", product |-> p, mode |-> r.mode, ships |-> r.ships,
                       shipTo |-> r.ships /\ r.address, quantity |-> n]]
               /\ product' = [product EXCEPT ![p].stock = @ - n]
               /\ item' = IF item[r.buyer][p].id = r.item.id
                          THEN [item EXCEPT ![r.buyer][p].quantity = 0]
                          ELSE item
               /\ raced' = IF Overlaps(p) THEN raced \cup {o} ELSE raced
          ELSE /\ order' = [order EXCEPT ![o] =
                      [at |-> "intended", buyer |-> r.buyer, product |-> p,
                       mode |-> r.mode, address |-> r.address]]
               /\ UNCHANGED <<product, item, raced>>
    /\ UNCHANGED <<listing, mode, cart, request, served, peak>>

\* Delivered, or cancelled with a restock: module OrderFulfilment.
CloseOrder(o, restock) ==
    /\ Active(o)
    /\ order' = [order EXCEPT ![o].at = "closed"]
    /\ LET p == order[o].product
           back == IF restock THEN order[o].quantity ELSE 0
       IN /\ product' = [product EXCEPT ![p].stock = @ + back]
          /\ peak' = [peak EXCEPT ![p] = Larger(@, product[p].stock + back)]
    /\ UNCHANGED <<listing, mode, cart, item, request, served, raced>>

-----------------------------------------------------------------------------
\* An empty shop, or one with a product, a delivery mode and a full cart.
Init ==
    /\ product \in [Product ->
           {[state |-> "none", isActive |-> FALSE, stock |-> 0, moderation |-> "OK"]} \cup
           [state: {"live"}, isActive: {TRUE}, stock: Stock, moderation: {"OK"}]]
    /\ peak = [p \in Product |-> product[p].stock]
    /\ verdict = [p \in Product |-> "none"]
    /\ closed = {}
    /\ specialities = [f \in Producer |-> Speciality]
    /\ chosen = specialities
    /\ category = [slug \in Category |->
           IF \E p \in Product : Exists(p) THEN "active" ELSE "none"]
    /\ image = [p \in Product |-> [n \in Position |-> NoKey]]
    /\ \E state \in {"none", "stored"} : bucket = [k \in Key |-> state]
    /\ mode \in [Mode -> {NoMode} \cup
           {[exists |-> TRUE, type |-> type, place |-> type = "PICKUP",
             carrier |-> FALSE, isActive |-> TRUE] : type \in Type}]
    /\ item \in [Buyer -> [Product -> [id: {0}, quantity: {0} \cup Units]]]
    /\ \A b \in Buyer, p \in Product : item[b][p].quantity <= product[p].stock
    /\ cart = {b \in Buyer : \E p \in Product : InCart(b, p)}
    /\ order = [o \in Order |-> [at |-> "none"]]
    /\ request = [c \in Session |-> Idle]
    /\ served = 0
    /\ raced = {}

\* What leaves delivery modes, carts and orders alone.
CatalogueStep(c) ==
    \/ \E p \in Product :
          \/ \E slug \in Category, stock \in Stock : ReadCategory(c, p, slug, stock)
          \/ \E patch \in ProductPatch : ReadForUpdate(c, p, patch, ActiveOrdersOf(p))
          \/ ReadForDelete(c, p, ActiveOrdersOf(p))
          \/ ReadForReport(c, p)
          \/ \E action \in {"remove", "dismiss", "restore"} : ReadForModerate(c, p, action)
          \/ \E key \in Key : Presign(c, p, key)
          \/ \E key \in Key, n \in Position : HeadObject(c, p, key, n)
    \/ InsertProduct(c) \/ WriteUpdate(c) \/ WriteDelete(c)
    \/ WriteReport(c) \/ WriteModerate(c) \/ InsertImage(c)
    \/ \E slug \in Category :
          \/ CreateCategory(c, slug)
          \/ \E isActive \in BOOLEAN : UpdateCategory(c, slug, isActive)
    \/ \E f \in Producer :
          \/ \E choice \in SUBSET Speciality : MatchSpecialities(c, f, choice)
          \/ ReadForClose(c, f, ActiveOrdersFrom(f))
    \/ ReplaceSpecialities(c) \/ WriteClose(c)

ModeStep(c) ==
    \/ \E m \in Mode :
          \/ \E type \in Type, place, carrier \in BOOLEAN :
                CreateMode(c, m, type, place, carrier)
          \/ \E patch \in ModePatch : ReadForConfigure(c, m, patch)
          \/ ReadForDiscard(c, m)
    \/ Configure(c) \/ Discard(c)

CartStep(c) ==
    \/ \E b \in Buyer, p \in Product :
          \/ \E n \in Units : ReadProduct(c, b, p, n) \/ ReadForSet(c, b, p, n)
          \/ ReadForRemove(c, b, p)
    \/ \E b \in Buyer : ReadForClear(c, b)
    \/ ReadItem(c) \/ UpsertItem(c) \/ RetryAdd(c) \/ AddFails(c)
    \/ WriteItem(c) \/ ClearCart(c)

OrderStep(o) ==
    \/ \E b \in Buyer, p \in Product, m \in Mode : CreatePaymentIntent(o, b, p, m)
    \/ CheckOrder(o) \/ CommitOrder(o)
    \/ \E restock \in BOOLEAN : CloseOrder(o, restock)

Next ==
    \/ \E c \in Session :
          \/ CatalogueStep(c) /\ UNCHANGED sales
          \/ ModeStep(c)
          \/ CartStep(c)
    \/ \E key \in Key : Upload(key) /\ UNCHANGED sales
    \/ \E o \in Order : OrderStep(o)

Spec == Init /\ [][Next]_vars

-----------------------------------------------------------------------------
\* Every variable has its type.
TypeOK ==
    /\ CatalogueTypeOK
    /\ mode \in [Mode -> ModeRow]
    /\ cart \subseteq Buyer
    /\ item \in [Buyer -> [Product -> ItemRow]]
    /\ order \in [Order -> OrderRow]
    /\ request \in [Session -> Request]
    /\ raced \subseteq Product \cup Producer \cup Mode \cup Buyer \cup Order

\* A product with an order to fulfil stays on sale and its producer open, on
\* every path through the guards of update, softDelete and checkout.  The
\* exceptions are the orders that were created during a withdrawal.
WithdrawnWithoutOrders ==
    \A o \in Order \ raced : Active(o) => IsAvailable(order[o].product)

\* Once an administrator has removed a product only `restore` brings it back.
\* A report that read the row before its removal reopens it, hidden still.
RemovalStands ==
    [][\A p \in Product :
          verdict[p] = "remove" =>
             \/ verdict'[p] = "restore"
             \/ p \in raced
             \/ /\ verdict'[p] = "remove"
                /\ p \notin PublicListing'
                /\ p \in raced' \/ product'[p].moderation = "REMOVED"]_vars

\* A PICKUP mode says where, the others do not, and only shipping names a
\* carrier, whatever sequence of patches; two that overlap may mix types.
ModesAreConsistent ==
    \A m \in Mode \ raced :
       mode[m].exists =>
          /\ mode[m].place <=> mode[m].type = "PICKUP"
          /\ mode[m].carrier => mode[m].type = "SHIPPING_FLAT_RATE"

\* A producer has the specialities of the last PATCH.  Two that overlap may
\* leave the union of what they chose.
SpecialitiesAreChosen ==
    \A f \in Producer \ raced : specialities[f] = chosen[f]

\* addItem and updateItemQuantity never let a line grow past what the product
\* ever had, unless two requests change the line at once.
CartsWithinStock ==
    \A b \in Buyer \ raced, p \in Product : item[b][p].quantity <= peak[p]

\* An image that is shown has been uploaded, and stays where it is.
ImagesAreStored ==
    [][\A p \in Product, n \in Position :
          image'[p][n] # image[p][n] =>
             image[p][n] = NoKey /\ bucket[image'[p][n]] = "stored"]_vars

\* prisma/schema.prisma: the address snapshot of a sub-order is written for
\* delivery modes that require a destination address.
ShippedOrdersHaveAddress ==
    \A o \in Order : Active(o) => (order[o].ships => order[o].shipTo)
=============================================================================
