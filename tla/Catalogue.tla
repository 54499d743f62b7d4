------------------------------ MODULE Catalogue ------------------------------
(***************************************************************************)
(* What is offered: products and their moderation (products.service.ts),   *)
(* images (images.service.ts), categories (categories.service.ts) and      *)
(* producers' profiles (producers.service.ts).  Storefront adds delivery   *)
(* modes, carts and orders.                                                *)
(*                                                                         *)
(* Nearly every handler is a READ COMMITTED transaction of a read, a check *)
(* and one write by id.  It is two steps here: what the read saw is kept   *)
(* in request[c], and the write is made whatever has happened since.  A    *)
(* request the code refuses changes nothing and is no step at all.         *)
(***************************************************************************)
EXTENDS Integers, FiniteSets

CONSTANTS
    Session,        \* server sessions, each handling one request at a time
    Product,
    Producer,
    OwnerOf,        \* [Product -> Producer]
    Category,       \* slugs of product categories
    Speciality,     \* ProducerCategory rows, seeded and never changed
    Stock,          \* stocks of new products
    ProductPatch,   \* bodies of PATCH products/:id
    Key,            \* S3 keys
    Position,       \* positions of images
    Keep,           \* a field a patch leaves out
    NoKey,          \* no image at this position
    MaxRequests     \* bound on the requests served

ASSUME CatalogueAssumption ==
    /\ OwnerOf \in [Product -> Producer]
    /\ Stock \subseteq Nat
    /\ ProductPatch \subseteq [isActive: BOOLEAN \cup {Keep}, stock: Nat \cup {Keep}]
    /\ Keep \notin BOOLEAN \cup Nat
    /\ NoKey \notin Key
    /\ MaxRequests \in Nat

VARIABLES
    product,        \* products rows
    verdict,        \* history: the last action an administrator took
    closed,         \* producers with deleted_at
    specialities,   \* producer_categories_on_producers
    chosen,         \* history: what the last PATCH of the producer chose
    category,       \* categories rows by slug
    image,          \* product_images rows
    bucket,         \* keys in S3: none, presigned or stored
    request,        \* what each session is doing
    served,         \* requests so far
    raced,          \* history: rows written from a read that no longer held
    peak            \* history: the highest stock of the product

listing == <<verdict, closed, specialities, chosen, category, image, bucket>>

-----------------------------------------------------------------------------
Moderation == {"OK", "REPORTED", "REMOVED"}

\* state: there is no row, a row, or a row with deleted_at.
ProductRow == [state: {"none", "live", "deleted"}, isActive: BOOLEAN,
               stock: Nat, moderation: Moderation]

Exists(p) == product[p].state = "live"

\* PUBLIC_PRODUCT_WHERE; accounts of owners are in module Accounts.
Public(p) ==
    /\ Exists(p)
    /\ product[p].isActive
    /\ product[p].moderation = "OK"
    /\ OwnerOf[p] \notin closed

\* findAllPublic and findPublicById.
PublicListing == {p \in Product : Public(p)}

ModerationQueue(status) == {p \in Product : Exists(p) /\ product[p].moderation = status}

\* A PATCH that leaves a field out leaves the column alone.
Patched(field, column) == IF field = Keep THEN column ELSE field

Larger(m, n) == IF m < n THEN n ELSE m

-----------------------------------------------------------------------------
\* Requests.
Idle == [at |-> "idle"]

OnProduct == [at: {"report", "delete"}, product: Product]
Update == [at: {"update"}, product: Product, patch: ProductPatch]
Create == [at: {"create"}, product: Product, stock: Stock]
Moderate == [at: {"moderate"}, product: Product, action: {"remove", "dismiss", "restore"}]
Confirm == [at: {"confirm"}, product: Product, key: Key, position: Position]
Respecialise == [at: {"replace"}, producer: Producer, choice: SUBSET Speciality,
                 matched: SUBSET Speciality]
Close == [at: {"close"}, producer: Producer]

CatalogueRequest ==
    {Idle} \cup OnProduct \cup Update \cup Create \cup Moderate \cup Confirm
           \cup Respecialise \cup Close

At(c, label) == request[c].at = label

Begin(c, r) ==
    /\ request[c] = Idle
    /\ served < MaxRequests
    /\ served' = served + 1
    /\ request' = [request EXCEPT ![c] = r]

\* A handler of a single statement.
Serve(c) ==
    /\ request[c] = Idle
    /\ served < MaxRequests
    /\ served' = served + 1
    /\ UNCHANGED request

End(c) ==
    /\ request' = [request EXCEPT ![c] = Idle]
    /\ UNCHANGED served

-----------------------------------------------------------------------------
\* products.service.ts: create reads the category before it inserts.
ReadCategory(c, p, slug, stock) ==
    /\ product[p].state = "none"
    /\ \A d \in Session : At(d, "create") => request[d].product # p
    /\ category[slug] = "active"
    /\ Begin(c, [at |-> "create", product |-> p, stock |-> stock])
    /\ UNCHANGED <<listing, product, raced, peak>>

InsertProduct(c) ==
    /\ At(c, "create")
    /\ LET p == request[c].product
           stock == request[c].stock
       IN /\ product' = [product EXCEPT ![p] =
                 [state |-> "live", isActive |-> TRUE, stock |-> stock,
                  moderation |-> "OK"]]
          /\ peak' = [peak EXCEPT ![p] = Larger(@, stock)]
    /\ End(c)
    /\ UNCHANGED <<listing, raced>>

\* update and softDelete count the lines of p in `active` sub-orders, then
\* write by id.
ReadForUpdate(c, p, patch, active) ==
    /\ Exists(p)
    /\ patch.isActive = FALSE => active = {}
    /\ Begin(c, [at |-> "update", product |-> p, patch |-> patch])
    /\ UNCHANGED <<listing, product, raced, peak>>

WriteUpdate(c) ==
    /\ At(c, "update")
    /\ LET p == request[c].product
           patch == request[c].patch
       IN /\ product' = [product EXCEPT
                 ![p].isActive = Patched(patch.isActive, @),
                 ![p].stock = Patched(patch.stock, @)]
          /\ peak' = [peak EXCEPT ![p] = Larger(@, Patched(patch.stock, @))]
    /\ End(c)
    /\ UNCHANGED <<listing, raced>>

ReadForDelete(c, p, active) ==
    /\ Exists(p)
    /\ active = {}
    /\ Begin(c, [at |-> "delete", product |-> p])
    /\ UNCHANGED <<listing, product, raced, peak>>

WriteDelete(c) ==
    /\ At(c, "delete")
    /\ product' = [product EXCEPT ![request[c].product].state = "deleted"]
    /\ End(c)
    /\ UNCHANGED <<listing, raced, peak>>

-----------------------------------------------------------------------------
\* report: REMOVED is not found, REPORTED is returned as it is.
Reportable(p) == Exists(p) /\ product[p].moderation = "OK"

ReadForReport(c, p) ==
    /\ Reportable(p)
    /\ Begin(c, [at |-> "report", product |-> p])
    /\ UNCHANGED <<listing, product, raced, peak>>

WriteReport(c) ==
    /\ At(c, "report")
    /\ LET p == request[c].product
       IN /\ product' = [product EXCEPT ![p].moderation = "REPORTED"]
          /\ raced' = IF product[p].moderation = "OK" THEN raced ELSE raced \cup {p}
    /\ End(c)
    /\ UNCHANGED <<listing, peak>>

\* MODERATION_TRANSITIONS
From(action) == IF action = "restore" THEN "REMOVED" ELSE "REPORTED"
To(action) == IF action = "remove" THEN "REMOVED" ELSE "OK"

ReadForModerate(c, p, action) ==
    /\ p \in ModerationQueue(From(action))
    /\ Begin(c, [at |-> "moderate", product |-> p, action |-> action])
    /\ UNCHANGED <<listing, product, raced, peak>>

\* Mutation of the next: an update by id.
ClaimsAny(p, action) == TRUE

\* The conditional updateMany: an administrator who comes second is refused.
Claims(p, action) == product[p].moderation = From(action)

WriteModerate(c) ==
    /\ At(c, "moderate")
    /\ LET p == request[c].product
           action == request[c].action
       IN IF Claims(p, action)
          THEN /\ product' = [product EXCEPT ![p].moderation = To(action)]
               /\ verdict' = [verdict EXCEPT ![p] = action]
          ELSE UNCHANGED <<product, verdict>>
    /\ End(c)
    /\ UNCHANGED <<closed, specialities, chosen, category, image, bucket, raced, peak>>

-----------------------------------------------------------------------------
\* categories.service.ts: one statement writes, and a row is never deleted.
CreateCategory(c, slug) ==
    /\ category[slug] = "none"
    /\ category' = [category EXCEPT ![slug] = "active"]
    /\ Serve(c)
    /\ UNCHANGED <<product, verdict, closed, specialities, chosen, image, bucket, raced, peak>>

UpdateCategory(c, slug, isActive) ==
    /\ category[slug] # "none"
    /\ category' = [category EXCEPT ![slug] = IF isActive THEN "active" ELSE "inactive"]
    /\ Serve(c)
    /\ UNCHANGED <<product, verdict, closed, specialities, chosen, image, bucket, raced, peak>>

-----------------------------------------------------------------------------
\* images.service.ts: a key is handed out, the client uploads, and confirm
\* inserts the row after a HEAD on the object.
Presign(c, p, key) ==
    /\ Exists(p)
    /\ bucket[key] = "none"
    /\ bucket' = [bucket EXCEPT ![key] = "presigned"]
    /\ Serve(c)
    /\ UNCHANGED <<product, verdict, closed, specialities, chosen, category, image, raced, peak>>

Upload(key) ==
    /\ bucket[key] = "presigned"
    /\ bucket' = [bucket EXCEPT ![key] = "stored"]
    /\ UNCHANGED <<product, verdict, closed, specialities, chosen, category, image,
                   request, served, raced, peak>>

HeadObject(c, p, key, position) ==
    /\ Exists(p)
    /\ bucket[key] = "stored"
    /\ Begin(c, [at |-> "confirm", product |-> p, key |-> key, position |-> position])
    /\ UNCHANGED <<listing, product, raced, peak>>

\* Mutation of the next: an upsert.
Overwritten(old, key) == key

\* product_images is unique on (product_id, position).
Inserted(old, key) == IF old = NoKey THEN key ELSE old

InsertImage(c) ==
    /\ At(c, "confirm")
    /\ image' = LET r == request[c]
                IN [image EXCEPT ![r.product][r.position] = Inserted(@, r.key)]
    /\ End(c)
    /\ UNCHANGED <<product, verdict, closed, specialities, chosen, category, bucket, raced, peak>>

-----------------------------------------------------------------------------
\* producers.service.ts: patch deletes the join rows its statement sees, then
\* inserts the chosen ones.  request[c].matched: those it saw that are there.
MatchSpecialities(c, f, choice) ==
    /\ f \notin closed
    /\ Begin(c, [at |-> "replace", producer |-> f, choice |-> choice,
                 matched |-> specialities[f]])
    /\ UNCHANGED <<listing, product, raced, peak>>

\* Mutation of the next: no deleteMany.
Added(now, matched, choice) == now \cup choice

Replaced(now, matched, choice) == (now \ matched) \cup choice

\* What this PATCH has deleted is gone for another that saw it too, even when
\* it is inserted again.
Forget(c, f, matched) ==
    [d \in Session |->
        IF d = c THEN Idle
        ELSE IF At(d, "replace") /\ request[d].producer = f
        THEN [request[d] EXCEPT !.matched = @ \ matched]
        ELSE request[d]]

\* A chosen row another PATCH has inserted since is P2002 and aborts.
ReplaceSpecialities(c) ==
    /\ At(c, "replace")
    /\ LET r == request[c]
           f == r.producer
           others == specialities[f] \ r.matched
       IN IF r.choice \cap others # {}
          THEN /\ request' = [request EXCEPT ![c] = Idle]
               /\ UNCHANGED <<specialities, chosen, raced>>
          ELSE /\ specialities' = [specialities EXCEPT ![f] =
                                       Replaced(@, r.matched, r.choice)]
               /\ chosen' = [chosen EXCEPT ![f] = r.choice]
               /\ raced' = IF others = {} THEN raced ELSE raced \cup {f}
               /\ request' = Forget(c, f, r.matched)
    /\ UNCHANGED <<product, verdict, closed, category, image, bucket, served, peak>>

\* softDelete counts the producer's `active` sub-orders.
ReadForClose(c, f, active) ==
    /\ f \notin closed
    /\ active = {}
    /\ Begin(c, [at |-> "close", producer |-> f])
    /\ UNCHANGED <<listing, product, raced, peak>>

WriteClose(c) ==
    /\ At(c, "close")
    /\ closed' = closed \cup {request[c].producer}
    /\ End(c)
    /\ UNCHANGED <<product, verdict, specialities, chosen, category, image, bucket, raced, peak>>

-----------------------------------------------------------------------------
CatalogueTypeOK ==
    /\ product \in [Product -> ProductRow]
    /\ verdict \in [Product -> {"none", "remove", "dismiss", "restore"}]
    /\ closed \subseteq Producer
    /\ specialities \in [Producer -> SUBSET Speciality]
    /\ chosen \in [Producer -> SUBSET Speciality]
    /\ category \in [Category -> {"none", "active", "inactive"}]
    /\ image \in [Product -> [Position -> Key \cup {NoKey}]]
    /\ bucket \in [Key -> {"none", "presigned", "stored"}]
    /\ served \in 0 .. MaxRequests
    /\ peak \in [Product -> Nat]
=============================================================================
