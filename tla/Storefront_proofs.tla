-------------------------- MODULE Storefront_proofs --------------------------
(* Theorems about Catalogue and Storefront, for any sessions, products,    *)
(* producers, delivery modes, buyers and orders.                           *)
EXTENDS Storefront, TLAPS

\* The kind of a request follows from where it is.
LEMMA KindOf ==
    ASSUME NEW r \in Request
    PROVE  /\ r.at = "create" => r \in Create
           /\ r.at = "update" => r \in Update
           /\ r.at \in {"report", "delete"} => r \in OnProduct
           /\ r.at = "moderate" => r \in Moderate
           /\ r.at = "confirm" => r \in Confirm
           /\ r.at = "replace" => r \in Respecialise
           /\ r.at = "close" => r \in Close
           /\ r.at = "configure" => r \in ModeWrite
           /\ r.at = "discard" => r \in ModeDelete
           /\ r.at = "add" => r \in Add
           /\ r.at = "upsert" => r \in AddRead
           /\ r.at \in {"set", "remove"} => r \in ItemWrite
           /\ r.at = "clear" => r \in Clear
  BY DEF Request, CatalogueRequest, Idle, Create, Update, OnProduct, Moderate, Confirm,
         Respecialise, Close, ModeWrite, ModeDelete, Add, AddRead, ItemWrite, Clear

LEMMA RequestKind ==
    ASSUME TypeOK, NEW c \in Session
    PROVE  /\ request[c] \in Request
           /\ At(c, "create") => request[c] \in Create
           /\ At(c, "update") => request[c] \in Update
           /\ request[c].at \in {"report", "delete"} => request[c] \in OnProduct
           /\ At(c, "moderate") => request[c] \in Moderate
           /\ At(c, "confirm") => request[c] \in Confirm
           /\ At(c, "replace") => request[c] \in Respecialise
           /\ At(c, "close") => request[c] \in Close
           /\ At(c, "configure") => request[c] \in ModeWrite
           /\ At(c, "discard") => request[c] \in ModeDelete
           /\ At(c, "add") => request[c] \in Add
           /\ At(c, "upsert") => request[c] \in AddRead
           /\ request[c].at \in {"set", "remove"} => request[c] \in ItemWrite
           /\ At(c, "clear") => request[c] \in Clear
  <1>1. request[c] \in Request
    BY DEF TypeOK
  <1> QED
    BY <1>1, KindOf DEF At

\* An idle session begins, is served or ends; the others stay where they are.
LEMMA BeginFrame ==
    ASSUME TypeOK, NEW c \in Session, NEW r \in Request, Begin(c, r)
    PROVE  /\ request' \in [Session -> Request]
           /\ served' \in 0 .. MaxRequests
           /\ request[c] = Idle /\ request'[c] = r
           /\ \A d \in Session \ {c} : request'[d] = request[d]
  BY CatalogueAssumption DEF TypeOK, CatalogueTypeOK, Begin

LEMMA ServeFrame ==
    ASSUME TypeOK, NEW c \in Session, Serve(c)
    PROVE  request' = request /\ served' \in 0 .. MaxRequests
  BY CatalogueAssumption DEF TypeOK, CatalogueTypeOK, Serve

LEMMA EndFrame ==
    ASSUME TypeOK, NEW c \in Session, End(c)
    PROVE  /\ request' \in [Session -> Request]
           /\ served' = served
           /\ request'[c].at = "idle"
           /\ \A d \in Session \ {c} : request'[d] = request[d]
  <1>1. Idle \in Request /\ Idle.at = "idle"
    BY DEF Request, CatalogueRequest, Idle
  <1> QED
    BY <1>1 DEF TypeOK, End

-----------------------------------------------------------------------------
(* Every handler that reads first                                          *)

\* A read changes nothing but what its session is doing.
Reading(c, r) == Begin(c, r) /\ UNCHANGED <<product, listing, sales, raced, peak>>

\* What a handler has checked when it goes on to its write.
Sound(r) ==
    /\ r.at = "create" =>
          /\ product[r.product].state = "none"
          /\ \A d \in Session : At(d, "create") => request[d].product # r.product
    /\ r.at = "update" /\ r.patch.isActive = FALSE => ActiveOrdersOf(r.product) = {}
    /\ r.at = "delete" => Exists(r.product) /\ ActiveOrdersOf(r.product) = {}
    /\ r.at = "moderate" => Exists(r.product)
    /\ r.at = "close" => ActiveOrdersFrom(r.producer) = {}
    /\ r.at = "confirm" => bucket[r.key] = "stored"
    /\ r.at = "replace" => r.matched = specialities[r.producer]
    /\ r.at = "configure" =>
          /\ r.read = mode[r.mode]
          /\ r.read.exists
          /\ Valid(Patched(r.patch.type, r.read.type), Patched(r.patch.place, r.read.place))
    /\ r.at = "add" => r.stock = product[r.product].stock
    /\ r.at = "set" => r.quantity <= product[r.product].stock
    /\ r.at = "remove" => r.quantity = 0
    /\ r.at # "upsert"

ReadStep(c) ==
    \/ \E p \in Product :
          \/ \E slug \in Category, stock \in Stock : ReadCategory(c, p, slug, stock)
          \/ \E patch \in ProductPatch : ReadForUpdate(c, p, patch, ActiveOrdersOf(p))
          \/ ReadForDelete(c, p, ActiveOrdersOf(p))
          \/ ReadForReport(c, p)
          \/ \E action \in {"remove", "dismiss", "restore"} : ReadForModerate(c, p, action)
          \/ \E key \in Key, n \in Position : HeadObject(c, p, key, n)
    \/ \E f \in Producer :
          \/ \E choice \in SUBSET Speciality : MatchSpecialities(c, f, choice)
          \/ ReadForClose(c, f, ActiveOrdersFrom(f))

SaleReadStep(c) ==
    \/ \E m \in Mode :
          \/ \E patch \in ModePatch : ReadForConfigure(c, m, patch)
          \/ ReadForDiscard(c, m)
    \/ \E b \in Buyer, p \in Product :
          \/ \E n \in Units : ReadProduct(c, b, p, n) \/ ReadForSet(c, b, p, n)
          \/ ReadForRemove(c, b, p)
    \/ \E b \in Buyer : ReadForClear(c, b)

LEMMA CatalogueReads ==
    ASSUME TypeOK, NEW c \in Session, ReadStep(c), UNCHANGED sales
    PROVE  \E r \in Request : Reading(c, r) /\ Sound(r)
  <1>1. ASSUME NEW p \in Product, NEW slug \in Category, NEW stock \in Stock,
               ReadCategory(c, p, slug, stock)
        PROVE  \E r \in Request : Reading(c, r) /\ Sound(r)
    <2> DEFINE r == [at |-> "create", product |-> p, stock |-> stock]
    <2>1. r \in Request
      BY DEF Request, CatalogueRequest, Create
    <2>2. Reading(c, r) /\ Sound(r)
      BY <1>1 DEF ReadCategory, Reading, Sound
    <2> QED
      BY <2>1, <2>2
  <1>2. ASSUME NEW p \in Product, NEW patch \in ProductPatch,
               ReadForUpdate(c, p, patch, ActiveOrdersOf(p))
        PROVE  \E r \in Request : Reading(c, r) /\ Sound(r)
    <2> DEFINE r == [at |-> "update", product |-> p, patch |-> patch]
    <2>1. r \in Request
      BY DEF Request, CatalogueRequest, Update
    <2>2. Reading(c, r) /\ Sound(r)
      BY <1>2 DEF ReadForUpdate, Reading, Sound
    <2> QED
      BY <2>1, <2>2
  <1>3. ASSUME NEW p \in Product, ReadForDelete(c, p, ActiveOrdersOf(p))
        PROVE  \E r \in Request : Reading(c, r) /\ Sound(r)
    <2> DEFINE r == [at |-> "delete", product |-> p]
    <2>1. r \in Request
      BY DEF Request, CatalogueRequest, OnProduct
    <2>2. Reading(c, r) /\ Sound(r)
      BY <1>3 DEF ReadForDelete, Reading, Sound
    <2> QED
      BY <2>1, <2>2
  <1>4. ASSUME NEW p \in Product, ReadForReport(c, p)
        PROVE  \E r \in Request : Reading(c, r) /\ Sound(r)
    <2> DEFINE r == [at |-> "report", product |-> p]
    <2>1. r \in Request
      BY DEF Request, CatalogueRequest, OnProduct
    <2>2. Reading(c, r) /\ Sound(r)
      BY <1>4 DEF ReadForReport, Reading, Sound
    <2> QED
      BY <2>1, <2>2
  <1>5. ASSUME NEW p \in Product, NEW action \in {"remove", "dismiss", "restore"},
               ReadForModerate(c, p, action)
        PROVE  \E r \in Request : Reading(c, r) /\ Sound(r)
    <2> DEFINE r == [at |-> "moderate", product |-> p, action |-> action]
    <2>1. r \in Request
      BY DEF Request, CatalogueRequest, Moderate
    <2>2. Reading(c, r) /\ Sound(r)
      BY <1>5 DEF ReadForModerate, ModerationQueue, Reading, Sound
    <2> QED
      BY <2>1, <2>2
  <1>6. ASSUME NEW p \in Product, NEW key \in Key, NEW n \in Position,
               HeadObject(c, p, key, n)
        PROVE  \E r \in Request : Reading(c, r) /\ Sound(r)
    <2> DEFINE r == [at |-> "confirm", product |-> p, key |-> key, position |-> n]
    <2>1. r \in Request
      BY DEF Request, CatalogueRequest, Confirm
    <2>2. Reading(c, r) /\ Sound(r)
      BY <1>6 DEF HeadObject, Reading, Sound
    <2> QED
      BY <2>1, <2>2
  <1>7. ASSUME NEW f \in Producer, NEW choice \in SUBSET Speciality,
               MatchSpecialities(c, f, choice)
        PROVE  \E r \in Request : Reading(c, r) /\ Sound(r)
    <2> DEFINE r == [at |-> "replace", producer |-> f, choice |-> choice,
                     matched |-> specialities[f]]
    <2>1. r \in Request
      BY DEF TypeOK, CatalogueTypeOK, Request, CatalogueRequest, Respecialise
    <2>2. Reading(c, r) /\ Sound(r)
      BY <1>7 DEF MatchSpecialities, Reading, Sound
    <2> QED
      BY <2>1, <2>2
  <1>8. ASSUME NEW f \in Producer, ReadForClose(c, f, ActiveOrdersFrom(f))
        PROVE  \E r \in Request : Reading(c, r) /\ Sound(r)
    <2> DEFINE r == [at |-> "close", producer |-> f]
    <2>1. r \in Request
      BY DEF Request, CatalogueRequest, Close
    <2>2. Reading(c, r) /\ Sound(r)
      BY <1>8 DEF ReadForClose, Reading, Sound
    <2> QED
      BY <2>1, <2>2
  <1> QED
    BY <1>1, <1>2, <1>3, <1>4, <1>5, <1>6, <1>7, <1>8 DEF ReadStep

LEMMA SaleReads ==
    ASSUME TypeOK, NEW c \in Session, SaleReadStep(c)
    PROVE  \E r \in Request : Reading(c, r) /\ Sound(r)
  <1>1. ASSUME NEW m \in Mode, NEW patch \in ModePatch, ReadForConfigure(c, m, patch)
        PROVE  \E r \in Request : Reading(c, r) /\ Sound(r)
    <2> DEFINE r == [at |-> "configure", mode |-> m, patch |-> patch, read |-> mode[m]]
    <2>1. r \in Request
      BY DEF TypeOK, Request, ModeWrite
    <2>2. Reading(c, r) /\ Sound(r)
      BY <1>1 DEF ReadForConfigure, Reading, Sound
    <2> QED
      BY <2>1, <2>2
  <1>2. ASSUME NEW m \in Mode, ReadForDiscard(c, m)
        PROVE  \E r \in Request : Reading(c, r) /\ Sound(r)
    <2> DEFINE r == [at |-> "discard", mode |-> m]
    <2>1. r \in Request
      BY DEF Request, ModeDelete
    <2>2. Reading(c, r) /\ Sound(r)
      BY <1>2 DEF ReadForDiscard, Reading, Sound
    <2> QED
      BY <2>1, <2>2
  <1>3. ASSUME NEW b \in Buyer, NEW p \in Product, NEW n \in Units, ReadProduct(c, b, p, n)
        PROVE  \E r \in Request : Reading(c, r) /\ Sound(r)
    <2> DEFINE r == [at |-> "add", buyer |-> b, product |-> p, quantity |-> n,
                     stock |-> product[p].stock, retried |-> FALSE]
    <2>1. r \in Request
      BY DEF TypeOK, CatalogueTypeOK, ProductRow, Request, Add
    <2>2. Reading(c, r) /\ Sound(r)
      BY <1>3 DEF ReadProduct, Reading, Sound
    <2> QED
      BY <2>1, <2>2
  <1>4. ASSUME NEW b \in Buyer, NEW p \in Product, NEW n \in Units, ReadForSet(c, b, p, n)
        PROVE  \E r \in Request : Reading(c, r) /\ Sound(r)
    <2> DEFINE r == [at |-> "set", buyer |-> b, product |-> p, id |-> item[b][p].id,
                     quantity |-> n]
    <2>1. r \in Request
      BY StorefrontAssumption DEF TypeOK, ItemRow, Request, ItemWrite
    <2>2. Reading(c, r) /\ Sound(r)
      BY <1>4 DEF ReadForSet, Reading, Sound
    <2> QED
      BY <2>1, <2>2
  <1>5. ASSUME NEW b \in Buyer, NEW p \in Product, ReadForRemove(c, b, p)
        PROVE  \E r \in Request : Reading(c, r) /\ Sound(r)
    <2> DEFINE r == [at |-> "remove", buyer |-> b, product |-> p, id |-> item[b][p].id,
                     quantity |-> 0]
    <2>1. r \in Request
      BY DEF TypeOK, ItemRow, Request, ItemWrite
    <2>2. Reading(c, r) /\ Sound(r)
      BY <1>5 DEF ReadForRemove, Reading, Sound
    <2> QED
      BY <2>1, <2>2
  <1>6. ASSUME NEW b \in Buyer, ReadForClear(c, b)
        PROVE  \E r \in Request : Reading(c, r) /\ Sound(r)
    <2> DEFINE r == [at |-> "clear", buyer |-> b]
    <2>1. r \in Request
      BY DEF Request, Clear
    <2>2. Reading(c, r) /\ Sound(r)
      BY <1>6 DEF ReadForClear, Reading, Sound
    <2> QED
      BY <2>1, <2>2
  <1> QED
    BY <1>1, <1>2, <1>3, <1>4, <1>5, <1>6 DEF SaleReadStep

-----------------------------------------------------------------------------
(* Type correctness                                                        *)

LEMMA InitType == Init => TypeOK
  <1> SUFFICES ASSUME Init PROVE TypeOK
    OBVIOUS
  <1>1. product \in [Product -> ProductRow] /\ peak \in [Product -> Nat]
    <2>1. [state |-> "none", isActive |-> FALSE, stock |-> 0, moderation |-> "OK"]
             \in ProductRow
      BY DEF ProductRow, Moderation
    <2>2. [state: {"live"}, isActive: {TRUE}, stock: Stock, moderation: {"OK"}]
             \subseteq ProductRow
      <3> SUFFICES ASSUME NEW row \in [state: {"live"}, isActive: {TRUE}, stock: Stock,
                                       moderation: {"OK"}]
                   PROVE  row \in ProductRow
        OBVIOUS
      <3> QED
        BY CatalogueAssumption DEF ProductRow, Moderation
    <2>3. product \in [Product -> ProductRow]
      BY <2>1, <2>2 DEF Init
    <2>4. \A p \in Product : product[p].stock \in Nat
      BY <2>3 DEF ProductRow
    <2> QED
      BY <2>3, <2>4 DEF Init
  <1>2. category \in [Category -> {"none", "active", "inactive"}]
    BY DEF Init
  <1>3. image \in [Product -> [Position -> Key \cup {NoKey}]]
    BY DEF Init
  <1>4. bucket \in [Key -> {"none", "presigned", "stored"}]
    BY DEF Init
  <1>5. specialities \in [Producer -> SUBSET Speciality] /\ chosen = specialities
    BY DEF Init
  <1>6. mode \in [Mode -> ModeRow]
    <2>1. NoMode \in ModeRow
      BY DEF NoMode, ModeRow, Type
    <2>2. \A type \in Type :
             [exists |-> TRUE, type |-> type, place |-> type = "PICKUP",
              carrier |-> FALSE, isActive |-> TRUE] \in ModeRow
      BY DEF ModeRow
    <2>3. mode \in [Mode -> {NoMode} \cup
             {[exists |-> TRUE, type |-> type, place |-> type = "PICKUP",
               carrier |-> FALSE, isActive |-> TRUE] : type \in Type}]
      BY DEF Init
    <2> QED
      BY <2>1, <2>2, <2>3
  <1>7. item \in [Buyer -> [Product -> ItemRow]]
    <2>1. [id: {0}, quantity: {0} \cup Units] \subseteq ItemRow
      <3> SUFFICES ASSUME NEW row \in [id: {0}, quantity: {0} \cup Units]
                   PROVE  row \in ItemRow
        OBVIOUS
      <3>1. {0} \cup Units \subseteq Nat
        BY StorefrontAssumption
      <3> QED
        BY <3>1 DEF ItemRow
    <2>2. item \in [Buyer -> [Product -> [id: {0}, quantity: {0} \cup Units]]]
      BY DEF Init
    <2> QED
      BY <2>1, <2>2
  <1>8. order \in [Order -> OrderRow]
    BY DEF Init, OrderRow
  <1>9. request \in [Session -> Request]
    BY DEF Init, Request, CatalogueRequest
  <1>10. served \in 0 .. MaxRequests /\ cart \subseteq Buyer /\ raced = {} /\ closed = {}
    BY CatalogueAssumption DEF Init
  <1>11. verdict \in [Product -> {"none", "remove", "dismiss", "restore"}]
    BY DEF Init
  <1> QED
    BY <1>1, <1>2, <1>3, <1>4, <1>5, <1>6, <1>7, <1>8, <1>9, <1>10, <1>11
    DEF TypeOK, CatalogueTypeOK

LEMMA LargerType == \A m, n \in Nat : Larger(m, n) \in Nat /\ m <= Larger(m, n) /\ n <= Larger(m, n)
  BY DEF Larger

LEMMA ReadingType ==
    ASSUME TypeOK, NEW c \in Session, NEW r \in Request, Reading(c, r)
    PROVE  TypeOK'
  BY BeginFrame DEF Reading, TypeOK, CatalogueTypeOK, listing, sales

\* What writes a row of the catalogue.
ProductWrite(c) == InsertProduct(c) \/ WriteUpdate(c) \/ WriteDelete(c)

OtherWrite(c) ==
    \/ InsertImage(c) \/ WriteClose(c)
    \/ \E p \in Product, key \in Key : Presign(c, p, key)
    \/ \E slug \in Category :
          \/ CreateCategory(c, slug)
          \/ \E isActive \in BOOLEAN : UpdateCategory(c, slug, isActive)

LEMMA ProductWriteType ==
    ASSUME TypeOK, NEW c \in Session, ProductWrite(c), UNCHANGED sales
    PROVE  TypeOK'
  <1>1. CASE InsertProduct(c)
    <2> DEFINE p == request[c].product
               stock == request[c].stock
               row == [state |-> "live", isActive |-> TRUE, stock |-> stock,
                       moderation |-> "OK"]
    <2>1. p \in Product /\ stock \in Nat
      BY <1>1, RequestKind, CatalogueAssumption DEF InsertProduct, Create
    <2>2. row \in ProductRow
      BY <2>1 DEF ProductRow, Moderation
    <2>3. /\ product' = [product EXCEPT ![p] = row]
          /\ peak' = [peak EXCEPT ![p] = Larger(@, stock)]
          /\ End(c) /\ UNCHANGED <<listing, raced>>
      BY <1>1 DEF InsertProduct
    <2> HIDE DEF p, stock, row
    <2>4. product' \in [Product -> ProductRow] /\ peak' \in [Product -> Nat]
      BY <2>1, <2>2, <2>3, LargerType DEF TypeOK, CatalogueTypeOK
    <2> QED
      BY <2>3, <2>4, EndFrame DEF TypeOK, CatalogueTypeOK, listing, sales
  <1>2. CASE WriteUpdate(c)
    <2> DEFINE p == request[c].product
               patch == request[c].patch
               stock == Patched(patch.stock, product[p].stock)
               shown == Patched(patch.isActive, product[p].isActive)
    <2>1. p \in Product /\ patch \in ProductPatch /\ product[p] \in ProductRow
      BY <1>2, RequestKind DEF WriteUpdate, Update, TypeOK, CatalogueTypeOK
    <2>2. stock \in Nat /\ shown \in BOOLEAN
      BY <2>1, CatalogueAssumption DEF Patched, ProductRow
    <2>3. /\ product' = [product EXCEPT ![p].isActive = shown, ![p].stock = stock]
          /\ peak' = [peak EXCEPT ![p] = Larger(@, Patched(patch.stock, @))]
          /\ End(c) /\ UNCHANGED <<listing, raced>>
      BY <1>2 DEF WriteUpdate
    <2>4. Patched(patch.stock, peak[p]) \in Nat
      BY <2>1, CatalogueAssumption DEF Patched, TypeOK, CatalogueTypeOK
    <2> HIDE DEF p, stock, shown, patch
    <2>5. product' \in [Product -> ProductRow]
      BY <2>1, <2>2, <2>3 DEF TypeOK, CatalogueTypeOK, ProductRow
    <2>6. peak' \in [Product -> Nat]
      BY <2>1, <2>3, <2>4, LargerType DEF TypeOK, CatalogueTypeOK
    <2> QED
      BY <2>3, <2>5, <2>6, EndFrame DEF TypeOK, CatalogueTypeOK, listing, sales
  <1>3. CASE WriteDelete(c)
    <2>1. product' \in [Product -> ProductRow]
      BY <1>3 DEF WriteDelete, TypeOK, CatalogueTypeOK, ProductRow
    <2> QED
      BY <1>3, <2>1, EndFrame DEF WriteDelete, TypeOK, CatalogueTypeOK, listing, sales
  <1> QED
    BY <1>1, <1>2, <1>3 DEF ProductWrite

LEMMA ModerationType ==
    ASSUME TypeOK, NEW c \in Session, WriteReport(c) \/ WriteModerate(c), UNCHANGED sales
    PROVE  TypeOK'
  <1>1. CASE WriteReport(c)
    <2>1. request[c].product \in Product
      BY <1>1, RequestKind DEF WriteReport, At, OnProduct
    <2>2. product' \in [Product -> ProductRow]
      <3> DEFINE p == request[c].product
                 reported == [product[p] EXCEPT !.moderation = "REPORTED"]
      <3>1. product \in [Product -> ProductRow] /\ product[p] \in ProductRow
        BY <2>1 DEF TypeOK, CatalogueTypeOK
      <3>2. reported \in ProductRow
        BY <3>1 DEF ProductRow, Moderation
      <3>3. product' = [product EXCEPT ![p] = reported]
        BY <1>1 DEF WriteReport
      <3> HIDE DEF p, reported
      <3> QED
        BY <3>1, <3>2, <3>3
    <2>3. raced' \subseteq Product \cup Producer \cup Mode \cup Buyer \cup Order
      BY <1>1, <2>1 DEF WriteReport, TypeOK
    <2> QED
      BY <1>1, <2>2, <2>3, EndFrame DEF WriteReport, TypeOK, CatalogueTypeOK, listing, sales
  <1>2. CASE WriteModerate(c)
    <2>1. request[c].action \in {"remove", "dismiss", "restore"}
      BY <1>2, RequestKind DEF WriteModerate, Moderate
    <2>2. To(request[c].action) \in Moderation
      BY DEF To, Moderation
    <2>3. product' \in [Product -> ProductRow]
      <3> DEFINE p == request[c].product
                 m == To(request[c].action)
      <3>1. product' = [product EXCEPT ![p].moderation = m] \/ product' = product
        BY <1>2 DEF WriteModerate
      <3>2. m \in Moderation
        BY <2>2
      <3>3. product \in [Product -> ProductRow]
        BY DEF TypeOK, CatalogueTypeOK
      <3> HIDE DEF p, m
      <3>4. \A r \in ProductRow : [r EXCEPT !.moderation = m] \in ProductRow
        BY <3>2 DEF ProductRow
      <3>5. CASE product' = [product EXCEPT ![p].moderation = m]
        BY <3>3, <3>4, <3>5
      <3>6. CASE product' = product
        BY <3>3, <3>6
      <3> QED
        BY <3>1, <3>5, <3>6
    <2>4. verdict' \in [Product -> {"none", "remove", "dismiss", "restore"}]
      BY <1>2, <2>1 DEF WriteModerate, TypeOK, CatalogueTypeOK
    <2> QED
      BY <1>2, <2>3, <2>4, EndFrame DEF WriteModerate, TypeOK, CatalogueTypeOK, sales
  <1> QED
    BY <1>1, <1>2

LEMMA OtherWriteType ==
    ASSUME TypeOK, NEW c \in Session, OtherWrite(c), UNCHANGED sales
    PROVE  TypeOK'
  <1>1. CASE InsertImage(c)
    <2> DEFINE r == request[c]
    <2>1. r.product \in Product /\ r.position \in Position /\ r.key \in Key
      BY <1>1, RequestKind DEF InsertImage, Confirm
    <2>2. Inserted(image[r.product][r.position], r.key) \in Key \cup {NoKey}
      BY <2>1 DEF Inserted, TypeOK, CatalogueTypeOK
    <2>3. image' = [image EXCEPT ![r.product][r.position] = Inserted(@, r.key)]
      BY <1>1 DEF InsertImage
    <2> HIDE DEF r
    <2>4. image' \in [Product -> [Position -> Key \cup {NoKey}]]
      BY <2>1, <2>2, <2>3 DEF TypeOK, CatalogueTypeOK
    <2> QED
      BY <1>1, <2>4, EndFrame DEF InsertImage, TypeOK, CatalogueTypeOK, sales
  <1>2. CASE WriteClose(c)
    <2>1. request[c].producer \in Producer
      BY <1>2, RequestKind DEF WriteClose, Close
    <2> QED
      BY <1>2, <2>1, EndFrame DEF WriteClose, TypeOK, CatalogueTypeOK, sales
  <1>3. ASSUME NEW p \in Product, NEW key \in Key, Presign(c, p, key)
        PROVE  TypeOK'
    BY <1>3, ServeFrame DEF Presign, TypeOK, CatalogueTypeOK, sales
  <1>4. ASSUME NEW slug \in Category, CreateCategory(c, slug)
        PROVE  TypeOK'
    BY <1>4, ServeFrame DEF CreateCategory, TypeOK, CatalogueTypeOK, sales
  <1>5. ASSUME NEW slug \in Category, NEW isActive \in BOOLEAN,
               UpdateCategory(c, slug, isActive)
        PROVE  TypeOK'
    BY <1>5, ServeFrame DEF UpdateCategory, TypeOK, CatalogueTypeOK, sales
  <1> QED
    BY <1>1, <1>2, <1>3, <1>4, <1>5 DEF OtherWrite

\* The other sessions' memory of what they saw shrinks when a PATCH commits.
LEMMA ForgetFrame ==
    ASSUME TypeOK, NEW c \in Session, NEW f \in Producer, NEW matched \in SUBSET Speciality
    PROVE  /\ Forget(c, f, matched) \in [Session -> Request]
           /\ Forget(c, f, matched)[c] = Idle
           /\ \A d \in Session \ {c} :
                 /\ ~At(d, "replace") => Forget(c, f, matched)[d] = request[d]
                 /\ At(d, "replace") =>
                       /\ Forget(c, f, matched)[d] \in Respecialise
                       /\ Forget(c, f, matched)[d].producer = request[d].producer
                       /\ Forget(c, f, matched)[d].choice = request[d].choice
                       /\ Forget(c, f, matched)[d].matched =
                             IF request[d].producer = f
                             THEN request[d].matched \ matched ELSE request[d].matched
  <1>1. ASSUME NEW d \in Session, At(d, "replace")
        PROVE  LET r == [request[d] EXCEPT !.matched = @ \ matched]
               IN  /\ r \in Respecialise
                   /\ r.producer = request[d].producer
                   /\ r.choice = request[d].choice
                   /\ r.matched = request[d].matched \ matched
    BY <1>1, RequestKind DEF Respecialise
  <1>2. Respecialise \subseteq Request /\ Idle \in Request
    BY DEF Request, CatalogueRequest
  <1>3. \A d \in Session : request[d] \in Request /\ (At(d, "replace") => request[d] \in Respecialise)
    BY RequestKind
  <1>4. \A d \in Session : Forget(c, f, matched)[d] =
           IF d = c THEN Idle
           ELSE IF At(d, "replace") /\ request[d].producer = f
           THEN [request[d] EXCEPT !.matched = @ \ matched]
           ELSE request[d]
    BY DEF Forget
  <1>5. \A d \in Session : Forget(c, f, matched)[d] \in Request
    BY <1>1, <1>2, <1>3, <1>4
  <1>6. Forget(c, f, matched) \in [Session -> Request]
    BY <1>5 DEF Forget
  <1> QED
    BY <1>1, <1>3, <1>4, <1>6

LEMMA ReplaceType ==
    ASSUME TypeOK, NEW c \in Session, ReplaceSpecialities(c), UNCHANGED sales
    PROVE  TypeOK'
  <1> DEFINE r == request[c]
             f == r.producer
  <1>1. f \in Producer /\ r.choice \in SUBSET Speciality /\ r.matched \in SUBSET Speciality
    BY RequestKind DEF ReplaceSpecialities, Respecialise
  <1>2. Idle \in Request
    BY DEF Request, CatalogueRequest
  <1>3. request' \in [Session -> Request]
    BY <1>1, <1>2, ForgetFrame DEF ReplaceSpecialities, TypeOK
  <1>4. Replaced(specialities[f], r.matched, r.choice) \in SUBSET Speciality
    BY <1>1 DEF Replaced, TypeOK, CatalogueTypeOK
  <1>5. /\ specialities' \in [Producer -> SUBSET Speciality]
        /\ chosen' \in [Producer -> SUBSET Speciality]
    BY <1>1, <1>4 DEF ReplaceSpecialities, TypeOK, CatalogueTypeOK
  <1>6. raced' \subseteq Product \cup Producer \cup Mode \cup Buyer \cup Order
    BY <1>1 DEF ReplaceSpecialities, TypeOK
  <1> QED
    BY <1>3, <1>5, <1>6 DEF ReplaceSpecialities, TypeOK, CatalogueTypeOK, sales

LEMMA UploadType ==
    ASSUME TypeOK, NEW key \in Key, Upload(key), UNCHANGED sales
    PROVE  TypeOK'
  BY DEF Upload, TypeOK, CatalogueTypeOK, sales

\* The writes of delivery modes.
LEMMA WrittenType ==
    ASSUME NEW row \in ModeRow, NEW read \in ModeRow, NEW patch \in ModePatch
    PROVE  WrittenMode(row, patch, read) \in ModeRow
  <1>1. /\ patch.type \in Type \cup {Keep} /\ patch.place \in BOOLEAN \cup {Keep}
        /\ patch.carrier \in BOOLEAN \cup {Keep} /\ patch.isActive \in BOOLEAN \cup {Keep}
    BY StorefrontAssumption DEF Type
  <1> DEFINE type == Patched(patch.type, read.type)
             place == MergedField(NormalPlace(type, Patched(patch.place, read.place)),
                                  patch.place, read.place, type = read.type)
             carrier == MergedField(NormalCarrier(type, Patched(patch.carrier, read.carrier)),
                                    patch.carrier, read.carrier, type = read.type)
             written == Patched(patch.type, row.type)
             shown == Patched(patch.isActive, row.isActive)
  <1>2. /\ type \in Type /\ written \in Type /\ shown \in BOOLEAN
        /\ Patched(patch.place, read.place) \in BOOLEAN
        /\ Patched(patch.carrier, read.carrier) \in BOOLEAN
    BY <1>1 DEF Patched, ModeRow
  <1>3. place \in BOOLEAN
    BY <1>2 DEF MergedField, NormalPlace, ModeRow
  <1>4. carrier \in BOOLEAN
    BY <1>2 DEF MergedField, NormalCarrier, ModeRow
  <1>5. WrittenMode(row, patch, read) =
           [row EXCEPT !.type = written, !.place = place, !.carrier = carrier,
                       !.isActive = shown]
    BY DEF WrittenMode
  <1> HIDE DEF type, place, carrier, written, shown
  <1> QED
    BY <1>2, <1>3, <1>4, <1>5 DEF ModeRow

LEMMA ModeWriteType ==
    ASSUME TypeOK, NEW c \in Session,
           \/ \E m \in Mode, type \in Type, place, carrier \in BOOLEAN :
                 CreateMode(c, m, type, place, carrier)
           \/ Configure(c) \/ Discard(c)
    PROVE  TypeOK'
  <1>1. ASSUME NEW m \in Mode, NEW type \in Type, NEW place \in BOOLEAN,
               NEW carrier \in BOOLEAN, CreateMode(c, m, type, place, carrier)
        PROVE  TypeOK'
    <2> DEFINE row == [exists |-> TRUE, type |-> type, place |-> NormalPlace(type, place),
                       carrier |-> NormalCarrier(type, carrier), isActive |-> TRUE]
    <2>1. NormalPlace(type, place) \in BOOLEAN /\ NormalCarrier(type, carrier) \in BOOLEAN
      BY DEF NormalPlace, NormalCarrier
    <2>2. row \in ModeRow
      BY <2>1 DEF ModeRow
    <2>3. mode' = [mode EXCEPT ![m] = row]
      BY <1>1 DEF CreateMode
    <2> HIDE DEF row
    <2>4. mode' \in [Mode -> ModeRow]
      BY <2>2, <2>3 DEF TypeOK
    <2> QED
      BY <1>1, <2>4, ServeFrame DEF CreateMode, TypeOK, CatalogueTypeOK, listing
  <1>2. CASE Configure(c)
    <2> DEFINE r == request[c]
               row == WrittenMode(mode[r.mode], r.patch, r.read)
    <2>1. r.mode \in Mode /\ r.patch \in ModePatch /\ r.read \in ModeRow
      BY <1>2, RequestKind DEF Configure, ModeWrite
    <2>2. row \in ModeRow
      BY <2>1, WrittenType DEF TypeOK
    <2>3. mode' = mode \/ mode' = [mode EXCEPT ![r.mode] = row]
      BY <1>2 DEF Configure
    <2>4. raced' \subseteq Product \cup Producer \cup Mode \cup Buyer \cup Order
      BY <1>2, <2>1 DEF Configure, TypeOK
    <2> HIDE DEF r, row
    <2>5. mode' \in [Mode -> ModeRow]
      BY <2>2, <2>3 DEF TypeOK
    <2> QED
      BY <1>2, <2>4, <2>5, EndFrame DEF Configure, TypeOK, CatalogueTypeOK, listing
  <1>3. CASE Discard(c)
    <2>1. NoMode \in ModeRow
      BY DEF NoMode, ModeRow, Type
    <2>2. mode' \in [Mode -> ModeRow]
      BY <1>3, <2>1 DEF Discard, TypeOK
    <2> QED
      BY <1>3, <2>2, EndFrame DEF Discard, TypeOK, CatalogueTypeOK, listing
  <1> QED
    BY <1>1, <1>2, <1>3

\* The writes of carts.
LEMMA CartWriteType ==
    ASSUME TypeOK, NEW c \in Session,
           ReadItem(c) \/ RetryAdd(c) \/ AddFails(c)
    PROVE  TypeOK'
  <1>1. CASE ReadItem(c)
    <2> DEFINE r == request[c]
               s == [at |-> "upsert", buyer |-> r.buyer, product |-> r.product,
                     quantity |-> r.quantity, stock |-> r.stock, retried |-> r.retried,
                     hadCart |-> r.buyer \in cart, had |-> item[r.buyer][r.product].quantity]
    <2>1. r \in Add
      BY <1>1, RequestKind DEF ReadItem
    <2>2. item[r.buyer][r.product].quantity \in Nat
      BY <2>1 DEF Add, TypeOK, ItemRow
    <2>3. s \in AddRead
      BY <2>1, <2>2 DEF Add, AddRead
    <2>4. s \in Request /\ Idle \in Request
      BY <2>3 DEF Request, CatalogueRequest
    <2>5. request' = [request EXCEPT ![c] = s] \/ request' = [request EXCEPT ![c] = Idle]
      BY <1>1 DEF ReadItem
    <2> HIDE DEF r, s
    <2>6. request' \in [Session -> Request]
      BY <2>4, <2>5 DEF TypeOK
    <2> QED
      BY <1>1, <2>6 DEF ReadItem, TypeOK, CatalogueTypeOK, listing, sales
  <1>2. CASE RetryAdd(c)
    <2> DEFINE r == request[c]
               s == [at |-> "add", buyer |-> r.buyer, product |-> r.product,
                     quantity |-> r.quantity, stock |-> r.stock, retried |-> TRUE]
    <2>1. r \in AddRead
      BY <1>2, RequestKind DEF RetryAdd
    <2>2. s \in Add
      BY <2>1 DEF Add, AddRead
    <2>3. s \in Request /\ Idle \in Request
      BY <2>2 DEF Request, CatalogueRequest
    <2>4. request' = [request EXCEPT ![c] = s] \/ request' = [request EXCEPT ![c] = Idle]
      BY <1>2 DEF RetryAdd
    <2> HIDE DEF r, s
    <2>5. request' \in [Session -> Request]
      BY <2>3, <2>4 DEF TypeOK
    <2> QED
      BY <1>2, <2>5 DEF RetryAdd, TypeOK, CatalogueTypeOK, listing, sales
  <1>3. CASE AddFails(c)
    BY <1>3, EndFrame DEF AddFails, TypeOK, CatalogueTypeOK, listing, sales
  <1> QED
    BY <1>1, <1>2, <1>3

\* A write of one row of a cart.
LEMMA ItemWritten ==
    ASSUME TypeOK, NEW b \in Buyer, NEW p \in Product, NEW row \in ItemRow
    PROVE  [item EXCEPT ![b][p] = row] \in [Buyer -> [Product -> ItemRow]]
  BY DEF TypeOK

LEMMA ItemWriteType ==
    ASSUME TypeOK, NEW c \in Session, UpsertItem(c) \/ WriteItem(c) \/ ClearCart(c)
    PROVE  TypeOK'
  <1>1. CASE UpsertItem(c)
    <2> DEFINE r == request[c]
               b == r.buyer
               p == r.product
               n == item[b][p].quantity + r.quantity
               more == [item[b][p] EXCEPT !.quantity = n]
               i == item[b][p].id + 1
               fresh == [id |-> i, quantity |-> r.quantity]
    <2>1. b \in Buyer /\ p \in Product /\ r.quantity \in Nat
      BY <1>1, RequestKind, StorefrontAssumption DEF UpsertItem, AddRead
    <2>2. item[b][p] \in ItemRow /\ n \in Nat /\ i \in Nat
      BY <2>1 DEF TypeOK, ItemRow
    <2>3. fresh \in ItemRow /\ more \in ItemRow
      <3> HIDE DEF n, i, b, p
      <3> QED
        BY <2>1, <2>2 DEF ItemRow
    <2>4. \/ item' = [item EXCEPT ![b][p].quantity = @ + r.quantity]
          \/ item' = [item EXCEPT ![b][p] = [id |-> @.id + 1, quantity |-> r.quantity]]
      BY <1>1 DEF UpsertItem
    <2>5. \/ item' = [item EXCEPT ![b][p] = more]
          \/ item' = [item EXCEPT ![b][p] = fresh]
      BY <2>1, <2>2, <2>4 DEF TypeOK
    <2>6. cart' \subseteq Buyer
      BY <1>1, <2>1 DEF UpsertItem, TypeOK
    <2>7. raced' \subseteq Product \cup Producer \cup Mode \cup Buyer \cup Order
      BY <1>1, <2>1 DEF UpsertItem, TypeOK
    <2> HIDE DEF r, b, p, n, more, i, fresh
    <2>8. item' \in [Buyer -> [Product -> ItemRow]]
      BY <2>1, <2>3, <2>5, ItemWritten
    <2> QED
      BY <1>1, <2>6, <2>7, <2>8, EndFrame DEF UpsertItem, TypeOK, CatalogueTypeOK, listing
  <1>2. CASE WriteItem(c)
    <2> DEFINE r == request[c]
               row == [item[r.buyer][r.product] EXCEPT !.quantity = r.quantity]
    <2>1. r.buyer \in Buyer /\ r.product \in Product /\ r.quantity \in Nat
      BY <1>2, RequestKind DEF WriteItem, ItemWrite
    <2>2. row \in ItemRow
      BY <2>1 DEF TypeOK, ItemRow
    <2>3. item' = item \/ item' = [item EXCEPT ![r.buyer][r.product].quantity = r.quantity]
      BY <1>2 DEF WriteItem
    <2>4. item' = item \/ item' = [item EXCEPT ![r.buyer][r.product] = row]
      BY <2>1, <2>3 DEF TypeOK
    <2> HIDE DEF r, row
    <2>5. item' \in [Buyer -> [Product -> ItemRow]]
      <3>1. item \in [Buyer -> [Product -> ItemRow]]
        BY DEF TypeOK
      <3>2. [item EXCEPT ![r.buyer][r.product] = row] \in [Buyer -> [Product -> ItemRow]]
        BY <2>1, <2>2, ItemWritten
      <3> QED
        BY <2>4, <3>1, <3>2
    <2> QED
      BY <1>2, <2>5, EndFrame DEF WriteItem, TypeOK, CatalogueTypeOK, listing
  <1>3. CASE ClearCart(c)
    <2> DEFINE b == request[c].buyer
               none == [p \in Product |-> [item[b][p] EXCEPT !.quantity = 0]]
    <2>1. b \in Buyer
      BY <1>3, RequestKind DEF ClearCart, Clear
    <2>2. none \in [Product -> ItemRow]
      <3>1. ASSUME NEW p \in Product
            PROVE  [item[b][p] EXCEPT !.quantity = 0] \in ItemRow
        <4>1. item[b][p] \in ItemRow
          BY <2>1 DEF TypeOK
        <4> QED
          BY <4>1 DEF ItemRow
      <3> QED
        BY <3>1
    <2>3. item' = [item EXCEPT ![b] = none]
      BY <1>3, <2>1 DEF ClearCart, TypeOK
    <2> HIDE DEF b, none
    <2>4. item' \in [Buyer -> [Product -> ItemRow]]
      BY <2>1, <2>2, <2>3 DEF TypeOK
    <2> QED
      BY <1>3, <2>4, EndFrame DEF ClearCart, TypeOK, CatalogueTypeOK, listing
  <1> QED
    BY <1>1, <1>2, <1>3

\* The steps of an order.
LEMMA OrderType ==
    ASSUME TypeOK, NEW o \in Order, OrderStep(o)
    PROVE  TypeOK'
  <1>1. ASSUME NEW row \in OrderRow, order' = [order EXCEPT ![o] = row]
        PROVE  order' \in [Order -> OrderRow]
    BY <1>1 DEF TypeOK
  <1>2. \A type \in Type : RequiresDestinationAddress(type) \in BOOLEAN
    BY DEF RequiresDestinationAddress
  <1>3. ASSUME NEW b \in Buyer, NEW p \in Product, NEW m \in Mode,
               CreatePaymentIntent(o, b, p, m)
        PROVE  TypeOK'
    <2> DEFINE a == RequiresDestinationAddress(mode[m].type)
               row == [at |-> "intended", buyer |-> b, product |-> p, mode |-> m,
                       address |-> a]
    <2>1. a \in BOOLEAN
      BY DEF RequiresDestinationAddress
    <2>2. row \in OrderRow
      BY <2>1 DEF OrderRow, Intended
    <2>3. order' = [order EXCEPT ![o] = row]
      BY <1>3 DEF CreatePaymentIntent
    <2> HIDE DEF row
    <2> QED
      BY <1>1, <1>3, <2>2, <2>3 DEF CreatePaymentIntent, TypeOK, CatalogueTypeOK, listing
  <1>4. CASE CheckOrder(o)
    <2> DEFINE r == order[o]
               ships == RequiresDestinationAddress(mode[r.mode].type)
               i == item[r.buyer][r.product]
               row == [at |-> "checked", buyer |-> r.buyer, product |-> r.product,
                       mode |-> r.mode, address |-> r.address, ships |-> ships,
                       item |-> i]
    <2>1. r \in Intended
      BY <1>4 DEF CheckOrder, TypeOK, OrderRow, Intended, Checked, Placed
    <2>2. ships \in BOOLEAN
      BY DEF RequiresDestinationAddress
    <2>3. i \in ItemRow
      BY <2>1 DEF Intended, TypeOK
    <2>4. row \in OrderRow
      <3> HIDE DEF r, ships, i
      <3> QED
        BY <2>1, <2>2, <2>3 DEF OrderRow, Intended, Checked
    <2>5. order' = [order EXCEPT ![o] = row]
      BY <1>4 DEF CheckOrder
    <2> HIDE DEF row
    <2> QED
      BY <1>1, <1>4, <2>4, <2>5 DEF CheckOrder, TypeOK, CatalogueTypeOK, listing
  <1>5. CASE CommitOrder(o)
    <2> DEFINE r == order[o]
               p == r.product
               n == r.item.quantity
               left == product[p].stock - n
               placed == [at |-> "placed", product |-> p, mode |-> r.mode,
                          ships |-> r.ships, shipTo |-> r.ships /\ r.address,
                          quantity |-> n]
               again == [at |-> "intended", buyer |-> r.buyer, product |-> p,
                         mode |-> r.mode, address |-> r.address]
               emptied == [item[r.buyer][p] EXCEPT !.quantity = 0]
    <2>1. r \in Checked
      BY <1>5 DEF CommitOrder, TypeOK, OrderRow, Intended, Checked, Placed
    <2>2. /\ p \in Product /\ n \in Nat /\ r.buyer \in Buyer /\ product[p] \in ProductRow
          /\ item[r.buyer][p] \in ItemRow
      BY <2>1 DEF Checked, ItemRow, TypeOK, CatalogueTypeOK
    <2>3. placed \in OrderRow /\ again \in OrderRow
      <3> HIDE DEF n
      <3> QED
        BY <2>1, <2>2 DEF OrderRow, Intended, Checked, Placed
    <2>4. emptied \in ItemRow
      BY <2>2 DEF ItemRow
    <2>5. CASE StockSuffices(p, n) /\ mode[r.mode].exists
      <3>1. left \in Nat
        BY <2>2, <2>5 DEF StockSuffices, ProductRow
      <3>2. /\ order' = [order EXCEPT ![o] = placed]
            /\ product' = [product EXCEPT ![p].stock = left]
            /\ item' = item \/ item' = [item EXCEPT ![r.buyer][p].quantity = 0]
            /\ raced' = raced \/ raced' = raced \cup {o}
        BY <1>5, <2>5 DEF CommitOrder
      <3>3. item' = item \/ item' = [item EXCEPT ![r.buyer][p] = emptied]
        BY <2>2, <3>2 DEF TypeOK
      <3> HIDE DEF p, n, left, placed, again, emptied, r
      <3>4. product' \in [Product -> ProductRow]
        BY <2>2, <3>1, <3>2 DEF TypeOK, CatalogueTypeOK, ProductRow
      <3>5. item' \in [Buyer -> [Product -> ItemRow]]
        <4>1. item \in [Buyer -> [Product -> ItemRow]]
          BY DEF TypeOK
        <4>2. [item EXCEPT ![r.buyer][p] = emptied] \in [Buyer -> [Product -> ItemRow]]
          BY <2>2, <2>4, ItemWritten
        <4> QED
          BY <3>3, <4>1, <4>2
      <3>6. order' \in [Order -> OrderRow]
        BY <1>1, <2>3, <3>2
      <3>7. raced' \subseteq Product \cup Producer \cup Mode \cup Buyer \cup Order
        BY <3>2 DEF TypeOK
      <3> QED
        BY <1>5, <3>4, <3>5, <3>6, <3>7 DEF CommitOrder, TypeOK, CatalogueTypeOK, listing
    <2>6. CASE ~(StockSuffices(p, n) /\ mode[r.mode].exists)
      <3>1. order' = [order EXCEPT ![o] = again] /\ UNCHANGED <<product, item, raced>>
        BY <1>5, <2>6 DEF CommitOrder
      <3> HIDE DEF again
      <3>2. order' \in [Order -> OrderRow]
        BY <1>1, <2>3, <3>1
      <3> QED
        BY <1>5, <3>1, <3>2 DEF CommitOrder, TypeOK, CatalogueTypeOK, listing
    <2> QED
      BY <2>5, <2>6
  <1>6. ASSUME NEW restock \in BOOLEAN, CloseOrder(o, restock)
        PROVE  TypeOK'
    <2> DEFINE r == order[o]
               p == r.product
               back == IF restock THEN r.quantity ELSE 0
               stock == product[p].stock + back
               row == [r EXCEPT !.at = "closed"]
    <2>1. r \in Placed
      BY <1>6 DEF CloseOrder, Active, TypeOK, OrderRow, Intended, Checked, Placed
    <2>2. p \in Product /\ back \in Nat /\ product[p] \in ProductRow
      BY <2>1 DEF Placed, TypeOK, CatalogueTypeOK
    <2>3. stock \in Nat
      BY <2>2 DEF ProductRow
    <2>4. row \in OrderRow
      BY <2>1 DEF Placed, OrderRow
    <2>5. /\ order' = [order EXCEPT ![o] = row]
          /\ product' = [product EXCEPT ![p].stock = stock]
          /\ peak' = [peak EXCEPT ![p] = Larger(@, stock)]
      BY <1>6 DEF CloseOrder, TypeOK
    <2> HIDE DEF p, r, back, stock, row
    <2>6. product' \in [Product -> ProductRow] /\ peak' \in [Product -> Nat]
      BY <2>2, <2>3, <2>5, LargerType DEF TypeOK, CatalogueTypeOK, ProductRow
    <2>7. order' \in [Order -> OrderRow]
      BY <1>1, <2>4, <2>5
    <2> QED
      BY <1>6, <2>6, <2>7 DEF CloseOrder, TypeOK, CatalogueTypeOK, listing
  <1> QED
    BY <1>3, <1>4, <1>5, <1>6 DEF OrderStep

-----------------------------------------------------------------------------
(* The steps, by what they write                                           *)

ModeWriteStep(c) ==
    \/ \E m \in Mode, type \in Type, place, carrier \in BOOLEAN :
          CreateMode(c, m, type, place, carrier)
    \/ Configure(c) \/ Discard(c)

\* A step begins with a read, writes in a session, is an upload, is an order's.
LEMMA StepCases ==
    ASSUME TypeOK, [Next]_vars
    PROVE  \/ \E c \in Session, r \in Request : Reading(c, r) /\ Sound(r)
           \/ \E c \in Session :
                 /\ UNCHANGED sales
                 /\ \/ ProductWrite(c) \/ WriteReport(c) \/ WriteModerate(c)
                    \/ OtherWrite(c) \/ ReplaceSpecialities(c)
           \/ \E c \in Session :
                 \/ ModeWriteStep(c)
                 \/ ReadItem(c) \/ RetryAdd(c) \/ AddFails(c)
                 \/ UpsertItem(c) \/ WriteItem(c) \/ ClearCart(c)
           \/ \E key \in Key : Upload(key) /\ UNCHANGED sales
           \/ \E o \in Order : OrderStep(o)
           \/ UNCHANGED vars
  <1>1. ASSUME NEW c \in Session, CatalogueStep(c), UNCHANGED sales
        PROVE  \/ \E r \in Request : Reading(c, r) /\ Sound(r)
               \/ ProductWrite(c) \/ WriteReport(c) \/ WriteModerate(c)
               \/ OtherWrite(c) \/ ReplaceSpecialities(c)
    <2>1. \/ ReadStep(c)
          \/ ProductWrite(c) \/ WriteReport(c) \/ WriteModerate(c)
          \/ OtherWrite(c) \/ ReplaceSpecialities(c)
      BY <1>1 DEF CatalogueStep, ReadStep, ProductWrite, OtherWrite
    <2> QED
      BY <1>1, <2>1, CatalogueReads
  <1>2. ASSUME NEW c \in Session, ModeStep(c) \/ CartStep(c)
        PROVE  \/ \E r \in Request : Reading(c, r) /\ Sound(r)
               \/ ModeWriteStep(c)
               \/ ReadItem(c) \/ RetryAdd(c) \/ AddFails(c)
               \/ UpsertItem(c) \/ WriteItem(c) \/ ClearCart(c)
    <2>1. \/ SaleReadStep(c)
          \/ ModeWriteStep(c)
          \/ ReadItem(c) \/ RetryAdd(c) \/ AddFails(c)
          \/ UpsertItem(c) \/ WriteItem(c) \/ ClearCart(c)
      BY <1>2 DEF ModeStep, CartStep, SaleReadStep, ModeWriteStep
    <2> QED
      BY <2>1, SaleReads
  <1> QED
    BY <1>1, <1>2 DEF Next

LEMMA StepType == TypeOK /\ [Next]_vars => TypeOK'
  <1> SUFFICES ASSUME TypeOK, [Next]_vars PROVE TypeOK'
    OBVIOUS
  <1>1. CASE UNCHANGED vars
    BY <1>1 DEF vars, listing, sales, TypeOK, CatalogueTypeOK
  <1> QED
    BY <1>1, StepCases, ReadingType, ProductWriteType, ModerationType, OtherWriteType,
       ReplaceType, UploadType, ModeWriteType, CartWriteType, ItemWriteType, OrderType
    DEF ModeWriteStep

\* Every reachable state of the storefront is well typed: no stock and no
\* quantity is negative, whatever interleaves.
THEOREM TypeCorrect == Spec => []TypeOK
  BY InitType, StepType, PTL DEF Spec

\* A write leaves the other sessions' requests alone, up to what a PATCH of
\* specialities forgets and the two steps of addItem.
LEMMA WriteFrame ==
    ASSUME TypeOK, NEW c \in Session,
           \/ ProductWrite(c) \/ WriteReport(c) \/ WriteModerate(c)
           \/ OtherWrite(c) \/ ReplaceSpecialities(c)
           \/ ModeWriteStep(c) \/ ReadItem(c) \/ RetryAdd(c) \/ AddFails(c)
           \/ UpsertItem(c) \/ WriteItem(c) \/ ClearCart(c)
    PROVE  \A d \in Session :
              request'[d].at \notin {"idle", "replace"} =>
                 \/ request'[d] = request[d]
                 \/ ReadItem(d) \/ RetryAdd(d)
  <1>1. CASE End(c) \/ Serve(c)
    BY <1>1, EndFrame, ServeFrame
  <1>2. CASE ProductWrite(c) \/ WriteReport(c) \/ WriteModerate(c)
    BY <1>1, <1>2 DEF ProductWrite, InsertProduct, WriteUpdate, WriteDelete, WriteReport,
                      WriteModerate
  <1>3. CASE OtherWrite(c)
    BY <1>1, <1>3 DEF OtherWrite, InsertImage, WriteClose, Presign, CreateCategory,
                      UpdateCategory
  <1>4. CASE ModeWriteStep(c)
    BY <1>1, <1>4 DEF ModeWriteStep, CreateMode, Configure, Discard
  <1>5. CASE AddFails(c) \/ UpsertItem(c) \/ WriteItem(c) \/ ClearCart(c)
    BY <1>1, <1>5 DEF AddFails, UpsertItem, WriteItem, ClearCart
  <1>6. Idle.at = "idle"
    BY DEF Idle
  <1>7. CASE ReadItem(c) \/ RetryAdd(c)
    BY <1>6, <1>7 DEF ReadItem, RetryAdd, TypeOK
  <1>8. CASE ReplaceSpecialities(c)
    <2>1. CASE request' = [request EXCEPT ![c] = Idle]
      BY <1>6, <2>1 DEF TypeOK
    <2>2. CASE request' = Forget(c, request[c].producer, request[c].matched)
      <3>1. request[c] \in Respecialise
        BY <1>8, RequestKind DEF ReplaceSpecialities
      <3>2. request[c].producer \in Producer /\ request[c].matched \in SUBSET Speciality
        BY <3>1 DEF Respecialise
      <3>3. ASSUME NEW e \in Session \ {c}, ~At(e, "replace")
            PROVE  request'[e] = request[e]
        BY <2>2, <3>3 DEF Forget
      <3>4. ASSUME NEW e \in Session \ {c}, At(e, "replace")
            PROVE  request'[e] \in Respecialise
        <4>1. Forget(c, request[c].producer, request[c].matched)[e] \in Respecialise
          BY <3>2, <3>4, ForgetFrame
        <4> QED
          BY <2>2, <4>1
      <3>5. request'[c] = Idle
        BY <2>2 DEF Forget
      <3> QED
        BY <1>6, <3>3, <3>4, <3>5 DEF Respecialise
    <2> QED
      BY <1>8, <2>1, <2>2 DEF ReplaceSpecialities
  <1> QED
    BY <1>2, <1>3, <1>4, <1>5, <1>7, <1>8

\* An upload or an order leaves them all alone.
LEMMA NoSessionFrame ==
    ASSUME \/ \E key \in Key : Upload(key)
           \/ \E o \in Order : OrderStep(o)
           \/ UNCHANGED vars
    PROVE  request' = request
  BY DEF Upload, OrderStep, CreatePaymentIntent, CheckOrder, CommitOrder, CloseOrder, vars

\* What a request in progress has checked goes on holding when the step keeps it:
\* a request that is there after the step was there before, or has just read.
LEMMA RequestFrame ==
    ASSUME TypeOK, [Next]_vars, NEW d \in Session,
           request'[d].at \notin {"idle", "replace"}
    PROVE  \/ request'[d] = request[d]
           \/ request'[d] \in Request /\ Reading(d, request'[d]) /\ Sound(request'[d])
           \/ request'[d].at = "upsert" /\ ReadItem(d)
           \/ request'[d].at = "add" /\ RetryAdd(d)
  <1>1. ASSUME NEW c \in Session, NEW r \in Request, Reading(c, r), Sound(r)
        PROVE  \/ request'[d] = request[d]
               \/ request'[d] \in Request /\ Reading(d, request'[d]) /\ Sound(request'[d])
    BY <1>1, BeginFrame DEF Reading
  <1>2. Idle.at = "idle"
    BY DEF Idle
  <1>3. ReadItem(d) => request'[d].at \in {"idle", "upsert"}
    BY <1>2 DEF ReadItem, TypeOK
  <1>4. RetryAdd(d) => request'[d].at \in {"idle", "add"}
    BY <1>2 DEF RetryAdd, TypeOK
  <1> QED
    BY <1>1, <1>3, <1>4, StepCases, WriteFrame, NoSessionFrame

-----------------------------------------------------------------------------
(* Specialities and images                                                 *)

\* Who writes the specialities of a producer.
LEMMA SpecialitySteps ==
    ASSUME TypeOK, [Next]_vars
    PROVE  \/ UNCHANGED <<specialities, chosen>> /\ raced \subseteq raced'
           \/ \E c \in Session : ReplaceSpecialities(c)
  <1>1. ASSUME NEW c \in Session, NEW r \in Request, Reading(c, r)
        PROVE  UNCHANGED <<specialities, chosen>> /\ raced \subseteq raced'
    BY <1>1 DEF Reading, listing
  <1>2. ASSUME NEW c \in Session, ProductWrite(c) \/ WriteReport(c) \/ WriteModerate(c)
        PROVE  UNCHANGED <<specialities, chosen>> /\ raced \subseteq raced'
    BY <1>2 DEF ProductWrite, InsertProduct, WriteUpdate, WriteDelete, WriteReport,
                WriteModerate, listing
  <1>3. ASSUME NEW c \in Session, OtherWrite(c)
        PROVE  UNCHANGED <<specialities, chosen>> /\ raced \subseteq raced'
    BY <1>3 DEF OtherWrite, InsertImage, WriteClose, Presign, CreateCategory,
           UpdateCategory
  <1>4. ASSUME NEW c \in Session,
               \/ ModeWriteStep(c) \/ ReadItem(c) \/ RetryAdd(c) \/ AddFails(c)
               \/ UpsertItem(c) \/ WriteItem(c) \/ ClearCart(c)
        PROVE  UNCHANGED <<specialities, chosen>> /\ raced \subseteq raced'
    BY <1>4 DEF ModeWriteStep, CreateMode, Configure, Discard, ReadItem, RetryAdd, AddFails,
                UpsertItem, WriteItem, ClearCart, listing
  <1>5. ASSUME NEW o \in Order, OrderStep(o)
        PROVE  UNCHANGED <<specialities, chosen>> /\ raced \subseteq raced'
    BY <1>5 DEF OrderStep, CreatePaymentIntent, CheckOrder, CommitOrder, CloseOrder, listing
  <1>6. ASSUME NEW key \in Key, Upload(key)
        PROVE  UNCHANGED <<specialities, chosen>> /\ raced \subseteq raced'
    BY <1>6 DEF Upload
  <1>7. CASE UNCHANGED vars
    BY <1>7 DEF vars, listing
  <1> QED
    BY <1>1, <1>2, <1>3, <1>4, <1>5, <1>6, <1>7, StepCases

\* A producer's specialities are those the last PATCH chose, unless another
\* PATCH had inserted some between its two statements.
THEOREM SpecialitiesChosen == Spec => []SpecialitiesAreChosen
  <1>1. Init => SpecialitiesAreChosen
    BY DEF Init, SpecialitiesAreChosen
  <1>2. TypeOK /\ SpecialitiesAreChosen /\ [Next]_vars => SpecialitiesAreChosen'
    <2> SUFFICES ASSUME TypeOK, SpecialitiesAreChosen, [Next]_vars
                 PROVE  SpecialitiesAreChosen'
      OBVIOUS
    <2>1. CASE UNCHANGED <<specialities, chosen>> /\ raced \subseteq raced'
      BY <2>1 DEF SpecialitiesAreChosen
    <2>2. ASSUME NEW c \in Session, ReplaceSpecialities(c)
          PROVE  SpecialitiesAreChosen'
      <3> DEFINE r == request[c]
      <3>1. r.producer \in Producer
        BY <2>2, RequestKind DEF ReplaceSpecialities, Respecialise
      <3>2. CASE UNCHANGED <<specialities, chosen, raced>>
        BY <3>2 DEF SpecialitiesAreChosen
      <3>3. CASE ~UNCHANGED <<specialities, chosen, raced>>
        <4>1. /\ specialities' = [specialities EXCEPT ![r.producer] =
                                     Replaced(@, r.matched, r.choice)]
              /\ chosen' = [chosen EXCEPT ![r.producer] = r.choice]
              /\ raced' = IF specialities[r.producer] \ r.matched = {} THEN raced
                          ELSE raced \cup {r.producer}
          BY <2>2, <3>3 DEF ReplaceSpecialities
        <4> HIDE DEF r
        <4>2. specialities'[r.producer] = (specialities[r.producer] \ r.matched) \cup r.choice
          BY <3>1, <4>1 DEF TypeOK, CatalogueTypeOK, Replaced
        <4>3. chosen'[r.producer] = r.choice
          BY <3>1, <4>1 DEF TypeOK, CatalogueTypeOK
        <4>4. r.producer \notin raced' => specialities'[r.producer] = chosen'[r.producer]
          BY <4>1, <4>2, <4>3
        <4>5. \A f \in Producer \ {r.producer} :
                 specialities'[f] = specialities[f] /\ chosen'[f] = chosen[f]
          BY <4>1 DEF TypeOK, CatalogueTypeOK
        <4> QED
          BY <4>1, <4>4, <4>5 DEF SpecialitiesAreChosen
      <3> QED
        BY <3>2, <3>3
    <2> QED
      BY <2>1, <2>2, SpecialitySteps
  <1> QED
    BY <1>1, <1>2, InitType, StepType, PTL DEF Spec

\* What a confirmation found in the bucket stays there.
StoredInv == \A c \in Session : At(c, "confirm") => bucket[request[c].key] = "stored"

\* Who writes images and the bucket.
LEMMA ImageSteps ==
    ASSUME TypeOK, [Next]_vars
    PROVE  \/ UNCHANGED <<image, bucket>>
           \/ \E c \in Session, p \in Product, key \in Key : Presign(c, p, key)
           \/ \E key \in Key : Upload(key)
           \/ \E c \in Session : InsertImage(c)
  <1>1. ASSUME NEW c \in Session, NEW r \in Request, Reading(c, r)
        PROVE  UNCHANGED <<image, bucket>>
    BY <1>1 DEF Reading, listing
  <1>2. ASSUME NEW c \in Session, ProductWrite(c) \/ WriteReport(c) \/ WriteModerate(c)
        PROVE  UNCHANGED <<image, bucket>>
    BY <1>2 DEF ProductWrite, InsertProduct, WriteUpdate, WriteDelete, WriteReport,
                WriteModerate, listing
  <1>3. ASSUME NEW c \in Session, OtherWrite(c) /\ ~InsertImage(c),
               ~ \E p \in Product, key \in Key : Presign(c, p, key)
        PROVE  UNCHANGED <<image, bucket>>
    BY <1>3 DEF OtherWrite, WriteClose, CreateCategory, UpdateCategory
  <1>4. ASSUME NEW c \in Session,
               \/ ModeWriteStep(c) \/ ReadItem(c) \/ RetryAdd(c) \/ AddFails(c)
               \/ UpsertItem(c) \/ WriteItem(c) \/ ClearCart(c)
        PROVE  UNCHANGED <<image, bucket>>
    BY <1>4 DEF ModeWriteStep, CreateMode, Configure, Discard, ReadItem, RetryAdd, AddFails,
                UpsertItem, WriteItem, ClearCart, listing
  <1>5. ASSUME NEW o \in Order, OrderStep(o)
        PROVE  UNCHANGED <<image, bucket>>
    BY <1>5 DEF OrderStep, CreatePaymentIntent, CheckOrder, CommitOrder, CloseOrder, listing
  <1>6. ASSUME NEW c \in Session, ReplaceSpecialities(c)
        PROVE  UNCHANGED <<image, bucket>>
    BY <1>6 DEF ReplaceSpecialities
  <1>7. CASE UNCHANGED vars
    BY <1>7 DEF vars, listing
  <1> QED
    BY <1>1, <1>2, <1>3, <1>4, <1>5, <1>6, <1>7, StepCases

LEMMA StoredStep == TypeOK /\ StoredInv /\ [Next]_vars => StoredInv'
  <1> SUFFICES ASSUME TypeOK, StoredInv, [Next]_vars, NEW d \in Session,
                      request'[d].at = "confirm"
               PROVE  bucket'[request'[d].key] = "stored"
    BY DEF StoredInv, At
  <1>1. \A key \in Key : bucket[key] = "stored" => bucket'[key] = "stored"
    BY ImageSteps DEF Presign, Upload, InsertImage, TypeOK, CatalogueTypeOK
  <1>2. request'[d] \in Confirm
    <2>1. request'[d] \in Request
      BY StepType DEF TypeOK
    <2> QED
      BY <2>1, KindOf
  <1>3. request'[d].key \in Key
    BY <1>2 DEF Confirm
  <1>4. bucket[request'[d].key] = "stored"
    BY RequestFrame DEF StoredInv, At, Sound
  <1> QED
    BY <1>1, <1>3, <1>4

\* An image is shown at a free position only, and only once it is uploaded.
THEOREM ImagesStored == Spec => ImagesAreStored
  <1>1. Init => StoredInv
    BY DEF Init, StoredInv, At, Idle
  <1>2. TypeOK /\ StoredInv /\ [Next]_vars =>
           [\A p \in Product, n \in Position :
               image'[p][n] # image[p][n] =>
                  image[p][n] = NoKey /\ bucket[image'[p][n]] = "stored"]_vars
    <2> SUFFICES ASSUME TypeOK, StoredInv, [Next]_vars, NEW p \in Product,
                        NEW n \in Position, image'[p][n] # image[p][n]
                 PROVE  image[p][n] = NoKey /\ bucket[image'[p][n]] = "stored"
      OBVIOUS
    <2>1. PICK c \in Session : InsertImage(c)
      BY ImageSteps DEF Presign, Upload
    <2> DEFINE r == request[c]
    <2>2. r \in Confirm /\ bucket[r.key] = "stored"
      BY <2>1, RequestKind DEF InsertImage, StoredInv
    <2>3. image' = [image EXCEPT ![r.product][r.position] = Inserted(@, r.key)]
      BY <2>1 DEF InsertImage
    <2> HIDE DEF r
    <2>4. p = r.product /\ n = r.position
      BY <2>3 DEF TypeOK, CatalogueTypeOK
    <2>5. image'[p][n] = Inserted(image[p][n], r.key)
      BY <2>3, <2>4 DEF TypeOK, CatalogueTypeOK
    <2> QED
      BY <2>2, <2>5 DEF Inserted
  <1> QED
    BY <1>1, <1>2, InitType, StepType, StoredStep, PTL DEF Spec, ImagesAreStored

-----------------------------------------------------------------------------
(* Delivery modes                                                          *)

\* Who writes a delivery mode.
LEMMA ModeSteps ==
    ASSUME TypeOK, [Next]_vars
    PROVE  \/ mode' = mode /\ raced \subseteq raced'
           \/ \E c \in Session, m \in Mode, type \in Type, place, carrier \in BOOLEAN :
                 CreateMode(c, m, type, place, carrier)
           \/ \E c \in Session : Configure(c) \/ Discard(c)
  <1>1. ASSUME NEW c \in Session, NEW r \in Request, Reading(c, r)
        PROVE  mode' = mode /\ raced \subseteq raced'
    BY <1>1 DEF Reading, sales
  <1>2. ASSUME NEW c \in Session, UNCHANGED sales,
               \/ ProductWrite(c) \/ WriteReport(c) \/ WriteModerate(c)
        PROVE  mode' = mode /\ raced \subseteq raced'
    BY <1>2 DEF ProductWrite, InsertProduct, WriteUpdate, WriteDelete, WriteReport,
                WriteModerate, sales
  <1>3. ASSUME NEW c \in Session, UNCHANGED sales, OtherWrite(c) \/ ReplaceSpecialities(c)
        PROVE  mode' = mode /\ raced \subseteq raced'
    BY <1>3 DEF OtherWrite, InsertImage, WriteClose, Presign, CreateCategory,
                UpdateCategory, ReplaceSpecialities, sales
  <1>4. ASSUME NEW c \in Session,
               \/ ReadItem(c) \/ RetryAdd(c) \/ AddFails(c)
               \/ UpsertItem(c) \/ WriteItem(c) \/ ClearCart(c)
        PROVE  mode' = mode /\ raced \subseteq raced'
    BY <1>4 DEF ReadItem, RetryAdd, AddFails, UpsertItem, WriteItem, ClearCart, sales
  <1>5. ASSUME NEW o \in Order, OrderStep(o)
        PROVE  mode' = mode /\ raced \subseteq raced'
    BY <1>5 DEF OrderStep, CreatePaymentIntent, CheckOrder, CommitOrder, CloseOrder
  <1>6. ASSUME NEW key \in Key, Upload(key), UNCHANGED sales
        PROVE  mode' = mode /\ raced \subseteq raced'
    BY <1>6 DEF Upload, sales
  <1>7. CASE UNCHANGED vars
    BY <1>7 DEF vars, sales
  <1> QED
    BY <1>1, <1>2, <1>3, <1>4, <1>5, <1>6, <1>7, StepCases DEF ModeWriteStep

\* A row that is as the module wants it, and a patch that was found valid.
Consistent(row) ==
    row.exists =>
       /\ row.place <=> row.type = "PICKUP"
       /\ row.carrier => row.type = "SHIPPING_FLAT_RATE"

ConfigureInv ==
    \A c \in Session : At(c, "configure") =>
       LET r == request[c]
       IN  Valid(Patched(r.patch.type, r.read.type), Patched(r.patch.place, r.read.place))

\* A valid patch of the row that was read keeps it consistent.
LEMMA WrittenConsistent ==
    ASSUME NEW row \in ModeRow, NEW patch \in ModePatch, Consistent(row), row.exists,
           Valid(Patched(patch.type, row.type), Patched(patch.place, row.place))
    PROVE  Consistent(WrittenMode(row, patch, row))
  <1> DEFINE type == Patched(patch.type, row.type)
             place == Patched(patch.place, row.place)
             carrier == Patched(patch.carrier, row.carrier)
             w == WrittenMode(row, patch, row)
  <1>1. /\ patch.type \in Type \cup {Keep} /\ patch.place \in BOOLEAN \cup {Keep}
        /\ patch.carrier \in BOOLEAN \cup {Keep}
    BY StorefrontAssumption DEF Type
  <1>2. type \in Type /\ place \in BOOLEAN /\ carrier \in BOOLEAN
    BY <1>1 DEF Patched, ModeRow
  <1>3. /\ w.type = type
        /\ w.place = MergedField(NormalPlace(type, place), patch.place, row.place,
                                 type = row.type)
        /\ w.carrier = MergedField(NormalCarrier(type, carrier), patch.carrier, row.carrier,
                                   type = row.type)
    BY DEF WrittenMode, ModeRow
  <1>4. /\ row.place \in BOOLEAN /\ row.carrier \in BOOLEAN
        /\ row.place <=> row.type = "PICKUP"
        /\ row.carrier => row.type = "SHIPPING_FLAT_RATE"
        /\ type = "PICKUP" => place
    BY DEF Consistent, ModeRow, Valid
  <1> HIDE DEF type, place, carrier, w
  <1>5. w.place <=> w.type = "PICKUP"
    BY <1>2, <1>3, <1>4 DEF MergedField, NormalPlace
  <1>6. w.carrier => w.type = "SHIPPING_FLAT_RATE"
    BY <1>2, <1>3, <1>4 DEF MergedField, NormalCarrier
  <1> QED
    BY <1>5, <1>6 DEF Consistent, w

LEMMA ModeStepConsistent ==
    ASSUME TypeOK, ConfigureInv, [Next]_vars, \A m \in Mode \ raced : Consistent(mode[m])
    PROVE  \A m \in Mode \ raced' : Consistent(mode'[m])
  <1>1. CASE mode' = mode /\ raced \subseteq raced'
    BY <1>1
  <1>2. ASSUME NEW c \in Session, NEW m \in Mode, NEW type \in Type, NEW place \in BOOLEAN,
               NEW carrier \in BOOLEAN, CreateMode(c, m, type, place, carrier)
        PROVE  \A n \in Mode \ raced' : Consistent(mode'[n])
    <2> DEFINE row == [exists |-> TRUE, type |-> type, place |-> NormalPlace(type, place),
                       carrier |-> NormalCarrier(type, carrier), isActive |-> TRUE]
    <2>1. Consistent(row)
      BY <1>2 DEF CreateMode, Consistent, Valid, NormalPlace, NormalCarrier
    <2>2. mode' = [mode EXCEPT ![m] = row] /\ raced' = raced
      BY <1>2 DEF CreateMode
    <2> HIDE DEF row
    <2> QED
      BY <2>1, <2>2 DEF TypeOK
  <1>3. ASSUME NEW c \in Session, Configure(c)
        PROVE  \A n \in Mode \ raced' : Consistent(mode'[n])
    <2> DEFINE r == request[c]
               row == mode[r.mode]
               w == WrittenMode(row, r.patch, r.read)
    <2>1. r.mode \in Mode /\ r.patch \in ModePatch /\ row \in ModeRow
      BY <1>3, RequestKind DEF Configure, ModeWrite, TypeOK
    <2>2. CASE ~row.exists
      BY <1>3, <2>2 DEF Configure
    <2>3. CASE row.exists /\ row # r.read
      <3>1. mode' = [mode EXCEPT ![r.mode] = w] /\ raced' = raced \cup {r.mode}
        BY <1>3, <2>3 DEF Configure
      <3> HIDE DEF w
      <3> QED
        BY <3>1 DEF TypeOK
    <2>4. CASE row.exists /\ row = r.read
      <3>1. mode' = [mode EXCEPT ![r.mode] = w] /\ raced' = raced
        BY <1>3, <2>4 DEF Configure
      <3>2. Consistent(row) => Consistent(w)
        BY <1>3, <2>1, <2>4, WrittenConsistent DEF Configure, ConfigureInv
      <3> HIDE DEF w
      <3> QED
        BY <3>1, <3>2 DEF TypeOK
    <2> QED
      BY <2>2, <2>3, <2>4
  <1>4. ASSUME NEW c \in Session, Discard(c)
        PROVE  \A n \in Mode \ raced' : Consistent(mode'[n])
    <2>1. Consistent(NoMode)
      BY DEF Consistent, NoMode
    <2> QED
      BY <1>4, <2>1 DEF Discard, TypeOK
  <1> QED
    BY <1>1, <1>2, <1>3, <1>4, ModeSteps

\* A PICKUP mode says where, the others do not, and only shipping names a
\* carrier, after any sequence of patches that do not overlap.
THEOREM ModesConsistent == Spec => []ModesAreConsistent
  <1> DEFINE AllConsistent == \A m \in Mode \ raced : Consistent(mode[m])
  <1>1. Init => ConfigureInv /\ AllConsistent
    <2> SUFFICES ASSUME Init PROVE ConfigureInv /\ AllConsistent
      OBVIOUS
    <2>1. ConfigureInv
      BY DEF Init, ConfigureInv, At, Idle
    <2>2. Consistent(NoMode)
      BY DEF Consistent, NoMode
    <2>3. \A type \in Type :
             Consistent([exists |-> TRUE, type |-> type, place |-> type = "PICKUP",
                         carrier |-> FALSE, isActive |-> TRUE])
      BY DEF Consistent
    <2>4. mode \in [Mode -> {NoMode} \cup
             {[exists |-> TRUE, type |-> type, place |-> type = "PICKUP",
               carrier |-> FALSE, isActive |-> TRUE] : type \in Type}]
      BY DEF Init
    <2> QED
      BY <2>1, <2>2, <2>3, <2>4
  <1>2. TypeOK /\ ConfigureInv /\ AllConsistent /\ [Next]_vars => ConfigureInv' /\ AllConsistent'
    <2> SUFFICES ASSUME TypeOK, ConfigureInv, AllConsistent, [Next]_vars
                 PROVE  ConfigureInv' /\ AllConsistent'
      OBVIOUS
    <2>1. ConfigureInv'
      <3> SUFFICES ASSUME NEW d \in Session, request'[d].at = "configure"
                   PROVE  Valid(Patched(request'[d].patch.type, request'[d].read.type),
                                Patched(request'[d].patch.place, request'[d].read.place))
        BY DEF ConfigureInv, At
      <3> QED
        BY RequestFrame DEF ConfigureInv, At, Sound
    <2>2. AllConsistent'
      BY ModeStepConsistent
    <2> QED
      BY <2>1, <2>2
  <1>3. AllConsistent => ModesAreConsistent
    BY DEF Consistent, ModesAreConsistent
  <1> QED
    BY <1>1, <1>2, <1>3, InitType, StepType, PTL DEF Spec

-----------------------------------------------------------------------------
(* Carts                                                                   *)

\* What else leaves the stocks alone.
StocksKept == peak' = peak /\ \A p \in Product : product'[p].stock = product[p].stock

\* The stocks never pass the peaks, and the peaks only grow.
LEMMA PeakSteps ==
    ASSUME TypeOK, [Next]_vars, \A p \in Product : product[p].stock <= peak[p]
    PROVE  \A p \in Product : peak[p] <= peak'[p] /\ product'[p].stock <= peak'[p]
  <1>1. CASE StocksKept
    BY <1>1 DEF StocksKept, TypeOK, CatalogueTypeOK
  <1>2. ASSUME NEW c \in Session, NEW r \in Request, Reading(c, r)
        PROVE  StocksKept
    BY <1>2 DEF Reading, StocksKept
  <1>3. ASSUME NEW c \in Session, WriteDelete(c) \/ WriteReport(c) \/ WriteModerate(c)
        PROVE  StocksKept
    <2>1. \A p \in Product : product[p] \in ProductRow
      BY DEF TypeOK, CatalogueTypeOK
    <2>2. CASE WriteDelete(c)
      BY <2>1, <2>2 DEF WriteDelete, StocksKept, TypeOK, CatalogueTypeOK, ProductRow
    <2>3. CASE WriteReport(c)
      BY <2>1, <2>3 DEF WriteReport, StocksKept, TypeOK, CatalogueTypeOK, ProductRow
    <2>4. CASE WriteModerate(c)
      <3> DEFINE q == request[c].product
                 m == To(request[c].action)
      <3>1. product' = product \/ product' = [product EXCEPT ![q].moderation = m]
        BY <2>4 DEF WriteModerate
      <3>2. peak' = peak
        BY <2>4 DEF WriteModerate
      <3> HIDE DEF q, m
      <3>3. ASSUME NEW p \in Product
            PROVE  product'[p].stock = product[p].stock
        <4>1. CASE product' = [product EXCEPT ![q].moderation = m]
          BY <2>1, <4>1 DEF TypeOK, CatalogueTypeOK, ProductRow
        <4> QED
          BY <3>1, <4>1
      <3> QED
        BY <3>2, <3>3 DEF StocksKept
    <2> QED
      BY <1>3, <2>2, <2>3, <2>4
  <1>4. ASSUME NEW c \in Session, OtherWrite(c) \/ ReplaceSpecialities(c)
        PROVE  StocksKept
    BY <1>4 DEF OtherWrite, InsertImage, WriteClose, Presign, CreateCategory,
                UpdateCategory, ReplaceSpecialities, StocksKept
  <1>5. ASSUME NEW c \in Session,
               \/ ModeWriteStep(c) \/ ReadItem(c) \/ RetryAdd(c) \/ AddFails(c)
               \/ UpsertItem(c) \/ WriteItem(c) \/ ClearCart(c)
        PROVE  StocksKept
    BY <1>5 DEF ModeWriteStep, CreateMode, Configure, Discard, ReadItem, RetryAdd, AddFails,
                UpsertItem, WriteItem, ClearCart, StocksKept
  <1>6. ASSUME NEW key \in Key, Upload(key)
        PROVE  StocksKept
    BY <1>6 DEF Upload, StocksKept
  <1>7. CASE UNCHANGED vars
    BY <1>1, <1>7 DEF vars, StocksKept
  <1>8. ASSUME NEW q \in Product, NEW n \in Nat, NEW m \in Nat, n <= m,
               product'[q].stock = n,
               peak' = [peak EXCEPT ![q] = Larger(@, m)],
               \A p \in Product \ {q} : product'[p] = product[p]
        PROVE  \A p \in Product : peak[p] <= peak'[p] /\ product'[p].stock <= peak'[p]
    <2>1. peak'[q] = Larger(peak[q], m) /\ \A p \in Product \ {q} : peak'[p] = peak[p]
      BY <1>8 DEF TypeOK, CatalogueTypeOK
    <2>2. \A p \in Product : peak[p] \in Nat
      BY DEF TypeOK, CatalogueTypeOK
    <2> QED
      BY <1>8, <2>1, <2>2 DEF Larger
  <1>9. ASSUME NEW c \in Session, InsertProduct(c)
        PROVE  \A p \in Product : peak[p] <= peak'[p] /\ product'[p].stock <= peak'[p]
    <2> DEFINE q == request[c].product
               n == request[c].stock
    <2>1. q \in Product /\ n \in Nat
      BY <1>9, RequestKind, CatalogueAssumption DEF InsertProduct, Create
    <2>2. /\ product'[q].stock = n
          /\ peak' = [peak EXCEPT ![q] = Larger(@, n)]
          /\ \A p \in Product \ {q} : product'[p] = product[p]
      BY <1>9, <2>1 DEF InsertProduct, TypeOK, CatalogueTypeOK
    <2>3. n <= n
      BY <2>1
    <2> HIDE DEF q, n
    <2> QED
      BY <1>8, <2>1, <2>2, <2>3
  <1>10. ASSUME NEW c \in Session, WriteUpdate(c)
         PROVE  \A p \in Product : peak[p] <= peak'[p] /\ product'[p].stock <= peak'[p]
    <2> DEFINE q == request[c].product
               patch == request[c].patch
               n == Patched(patch.stock, product[q].stock)
               m == Patched(patch.stock, peak[q])
    <2>1. q \in Product /\ patch \in ProductPatch
      BY <1>10, RequestKind DEF WriteUpdate, Update
    <2>2. product[q] \in ProductRow /\ peak[q] \in Nat /\ patch.stock \in Nat \cup {Keep}
      BY <2>1, CatalogueAssumption DEF TypeOK, CatalogueTypeOK
    <2>3. n \in Nat /\ m \in Nat /\ n <= m
      BY <2>1, <2>2 DEF Patched, ProductRow
    <2>4. /\ product'[q].stock = n
          /\ \A p \in Product \ {q} : product'[p] = product[p]
      BY <1>10, <2>1, <2>2 DEF WriteUpdate, TypeOK, CatalogueTypeOK, ProductRow
    <2>5. peak' = [peak EXCEPT ![q] = Larger(@, m)]
      BY <1>10 DEF WriteUpdate, TypeOK, CatalogueTypeOK
    <2> HIDE DEF q, n, m
    <2> QED
      BY <1>8, <2>1, <2>3, <2>4, <2>5
  <1>11. ASSUME NEW o \in Order, CommitOrder(o)
         PROVE  \A p \in Product : peak[p] <= peak'[p] /\ product'[p].stock <= peak'[p]
    <2> DEFINE q == order[o].product
               n == order[o].item.quantity
    <2>1. order[o] \in Checked
      BY <1>11 DEF CommitOrder, TypeOK, OrderRow, Intended, Checked, Placed
    <2>2. q \in Product /\ n \in Nat
      BY <2>1 DEF Checked, ItemRow
    <2>3. peak' = peak /\ (product' = product \/ product' = [product EXCEPT ![q].stock = @ - n])
      BY <1>11 DEF CommitOrder
    <2> HIDE DEF q, n
    <2>4. ASSUME NEW p \in Product
          PROVE  product'[p].stock <= peak[p] /\ peak[p] <= peak[p]
      <3>1. product[p] \in ProductRow /\ peak[p] \in Nat /\ product[p].stock <= peak[p]
        BY DEF TypeOK, CatalogueTypeOK
      <3>2. CASE product' = product \/ p # q
        <4>1. product'[p] = product[p]
          BY <2>3, <3>2 DEF TypeOK, CatalogueTypeOK
        <4> QED
          BY <3>1, <4>1
      <3>3. CASE p = q /\ product' = [product EXCEPT ![q].stock = @ - n]
        <4>1. product'[p].stock = product[p].stock - n
          BY <3>1, <3>3 DEF TypeOK, CatalogueTypeOK, ProductRow
        <4>2. product[p].stock \in Nat
          BY <3>1 DEF ProductRow
        <4> QED
          BY <2>2, <3>1, <4>1, <4>2
      <3> QED
        BY <2>3, <3>2, <3>3
    <2> QED
      BY <2>3, <2>4
  <1>12. ASSUME NEW o \in Order, NEW restock \in BOOLEAN, CloseOrder(o, restock)
         PROVE  \A p \in Product : peak[p] <= peak'[p] /\ product'[p].stock <= peak'[p]
    <2> DEFINE q == order[o].product
               back == IF restock THEN order[o].quantity ELSE 0
               n == product[q].stock + back
    <2>1. order[o] \in Placed
      BY <1>12 DEF CloseOrder, Active, TypeOK, OrderRow, Intended, Checked, Placed
    <2>2. q \in Product /\ back \in Nat
      BY <2>1 DEF Placed
    <2>3. n \in Nat
      BY <2>2 DEF TypeOK, CatalogueTypeOK, ProductRow
    <2>4. /\ product' = [product EXCEPT ![q].stock = @ + back]
          /\ peak' = [peak EXCEPT ![q] = Larger(@, n)]
      BY <1>12 DEF CloseOrder
    <2>5. /\ product'[q].stock = n
          /\ \A p \in Product \ {q} : product'[p] = product[p]
      BY <2>2, <2>4 DEF TypeOK, CatalogueTypeOK, ProductRow
    <2>6. n <= n
      BY <2>3
    <2> HIDE DEF q, back, n
    <2>7. peak' = [peak EXCEPT ![q] = Larger(@, n)]
      BY <2>4
    <2> QED
      BY <1>8, <2>2, <2>3, <2>5, <2>6, <2>7
  <1>13. ASSUME NEW o \in Order,
                \/ \E b \in Buyer, p \in Product, m \in Mode : CreatePaymentIntent(o, b, p, m)
                \/ CheckOrder(o)
         PROVE  StocksKept
    BY <1>13 DEF CreatePaymentIntent, CheckOrder, StocksKept
  <1> QED
    BY <1>1, <1>2, <1>3, <1>4, <1>5, <1>6, <1>7, <1>9, <1>10, <1>11, <1>12, <1>13, StepCases
    DEF ProductWrite, OrderStep

\* What the requests that write a line of a cart have compared.
FitsInv ==
    /\ \A p \in Product : product[p].stock <= peak[p]
    /\ \A c \in Session :
          /\ request[c].at \in {"add", "upsert"} =>
                request[c].stock <= peak[request[c].product]
          /\ At(c, "upsert") =>
                request[c].had + request[c].quantity <= peak[request[c].product]
          /\ request[c].at \in {"set", "remove"} =>
                request[c].quantity <= peak[request[c].product]

LEMMA FitsStep == TypeOK /\ FitsInv /\ [Next]_vars => FitsInv'
  <1> SUFFICES ASSUME TypeOK, FitsInv, [Next]_vars PROVE FitsInv'
    OBVIOUS
  <1>1. \A p \in Product : peak[p] <= peak'[p] /\ product'[p].stock <= peak'[p]
    BY PeakSteps DEF FitsInv
  <1>2. TypeOK'
    BY StepType
  <1>3. \A p \in Product : peak[p] \in Nat /\ peak'[p] \in Nat /\ product[p].stock \in Nat
    BY <1>2 DEF TypeOK, CatalogueTypeOK, ProductRow
  <1>4. \A p \in Product : product[p].stock <= peak'[p]
    BY <1>1, <1>3 DEF FitsInv
  <1>5. ASSUME NEW d \in Session, request'[d].at \in {"add", "upsert"}
        PROVE  request'[d].stock <= peak'[request'[d].product]
    <2>1. request'[d] \in Add \cup AddRead
      BY <1>2, <1>5, KindOf DEF TypeOK
    <2>2. request'[d].product \in Product /\ request'[d].stock \in Nat
      BY <2>1 DEF Add, AddRead
    <2>3. CASE request'[d] = request[d]
      BY <1>1, <1>3, <1>5, <2>2, <2>3 DEF FitsInv
    <2>4. CASE Sound(request'[d])
      BY <1>4, <1>5, <2>2, <2>4 DEF Sound
    <2>5. CASE \/ request'[d].at = "upsert" /\ ReadItem(d)
               \/ request'[d].at = "add" /\ RetryAdd(d)
      <3>1. request[d].at \in {"add", "upsert"}
        BY <2>5 DEF ReadItem, RetryAdd, At
      <3>2. request'[d].product = request[d].product /\ request'[d].stock = request[d].stock
        BY <2>5 DEF ReadItem, RetryAdd, TypeOK, Idle
      <3>3. request[d].stock <= peak[request[d].product]
        BY <3>1 DEF FitsInv
      <3> QED
        BY <1>1, <1>3, <2>2, <3>2, <3>3
    <2>6. \/ request'[d] = request[d]
          \/ Sound(request'[d])
          \/ request'[d].at = "upsert" /\ ReadItem(d)
          \/ request'[d].at = "add" /\ RetryAdd(d)
      BY <1>5, RequestFrame
    <2> QED
      BY <2>3, <2>4, <2>5, <2>6
  <1>6. ASSUME NEW d \in Session, request'[d].at = "upsert"
        PROVE  request'[d].had + request'[d].quantity <= peak'[request'[d].product]
    <2>1. request'[d] \in AddRead
      BY <1>2, <1>6, KindOf DEF TypeOK
    <2>2. /\ request'[d].product \in Product /\ request'[d].had \in Nat
          /\ request'[d].quantity \in Nat /\ request'[d].stock \in Nat
      BY <2>1, StorefrontAssumption DEF AddRead
    <2>3. CASE request'[d] = request[d]
      <3>1. request[d].had + request[d].quantity <= peak[request[d].product]
        BY <1>6, <2>3 DEF FitsInv, At
      <3> QED
        BY <1>1, <1>3, <2>2, <2>3, <3>1
    <2>4. CASE ReadItem(d)
      <3>1. /\ request'[d].had + request'[d].quantity <= request'[d].stock
        BY <1>6, <2>4 DEF ReadItem, WithinStock, TypeOK, Idle
      <3>2. request'[d].stock <= peak'[request'[d].product]
        BY <1>5, <1>6
      <3> QED
        BY <1>3, <2>2, <3>1, <3>2
    <2> QED
      BY <1>6, <2>3, <2>4, RequestFrame DEF Sound
  <1>7. ASSUME NEW d \in Session, request'[d].at \in {"set", "remove"}
        PROVE  request'[d].quantity <= peak'[request'[d].product]
    <2>1. request'[d] \in ItemWrite
      BY <1>2, <1>7, KindOf DEF TypeOK
    <2>2. request'[d].product \in Product /\ request'[d].quantity \in Nat
      BY <2>1 DEF ItemWrite
    <2>3. CASE request'[d] = request[d]
      <3>1. request[d].quantity <= peak[request[d].product]
        BY <1>7, <2>3 DEF FitsInv
      <3> QED
        BY <1>1, <1>3, <2>2, <2>3, <3>1
    <2>4. CASE Sound(request'[d])
      <3>1. \/ request'[d].quantity <= product[request'[d].product].stock
            \/ request'[d].quantity = 0
        BY <1>7, <2>4 DEF Sound
      <3> QED
        BY <1>3, <1>4, <2>2, <3>1
    <2> QED
      BY <1>7, <2>3, <2>4, RequestFrame
  <1> QED
    BY <1>1, <1>5, <1>6, <1>7 DEF FitsInv, At

\* Who writes a line of a cart.
LEMMA ItemSteps ==
    ASSUME TypeOK, [Next]_vars
    PROVE  /\ raced \subseteq raced'
           /\ \/ item' = item
              \/ \E c \in Session : UpsertItem(c) \/ WriteItem(c) \/ ClearCart(c)
              \/ \E o \in Order : CommitOrder(o)
  <1>1. ASSUME NEW c \in Session, NEW r \in Request, Reading(c, r)
        PROVE  item' = item /\ raced \subseteq raced'
    BY <1>1 DEF Reading, sales
  <1>2. ASSUME NEW c \in Session, UNCHANGED sales,
               \/ ProductWrite(c) \/ WriteReport(c) \/ WriteModerate(c)
        PROVE  item' = item /\ raced \subseteq raced'
    BY <1>2 DEF ProductWrite, InsertProduct, WriteUpdate, WriteDelete, WriteReport,
                WriteModerate, sales
  <1>3. ASSUME NEW c \in Session, UNCHANGED sales, OtherWrite(c) \/ ReplaceSpecialities(c)
        PROVE  item' = item /\ raced \subseteq raced'
    BY <1>3 DEF OtherWrite, InsertImage, WriteClose, Presign, CreateCategory,
                UpdateCategory, ReplaceSpecialities, sales
  <1>4. ASSUME NEW c \in Session,
               ModeWriteStep(c) \/ ReadItem(c) \/ RetryAdd(c) \/ AddFails(c)
        PROVE  item' = item /\ raced \subseteq raced'
    BY <1>4 DEF ModeWriteStep, CreateMode, Configure, Discard, ReadItem, RetryAdd, AddFails,
                sales
  <1>5. ASSUME NEW c \in Session, UpsertItem(c) \/ WriteItem(c) \/ ClearCart(c)
        PROVE  raced \subseteq raced'
    BY <1>5 DEF UpsertItem, WriteItem, ClearCart
  <1>6. ASSUME NEW o \in Order, OrderStep(o)
        PROVE  raced \subseteq raced' /\ (item' = item \/ CommitOrder(o))
    BY <1>6 DEF OrderStep, CreatePaymentIntent, CheckOrder, CommitOrder, CloseOrder
  <1>7. ASSUME NEW key \in Key, Upload(key), UNCHANGED sales
        PROVE  item' = item /\ raced \subseteq raced'
    BY <1>7 DEF Upload, sales
  <1>8. CASE UNCHANGED vars
    BY <1>8 DEF vars, sales
  <1> QED
    BY <1>1, <1>2, <1>3, <1>4, <1>5, <1>6, <1>7, <1>8, StepCases

LEMMA CartsStep ==
    ASSUME TypeOK, FitsInv, CartsWithinStock, [Next]_vars
    PROVE  CartsWithinStock'
  <1>1. \A p \in Product : peak[p] <= peak'[p]
    BY PeakSteps DEF FitsInv
  <1>2. TypeOK' /\ raced \subseteq raced'
    BY StepType, ItemSteps
  <1>3. \A p \in Product : peak[p] \in Nat /\ peak'[p] \in Nat
    BY <1>2 DEF TypeOK, CatalogueTypeOK
  <1>4. \A b \in Buyer, p \in Product : item[b][p] \in ItemRow /\ item'[b][p] \in ItemRow
    BY <1>2 DEF TypeOK
  <1>5. ASSUME NEW b \in Buyer \ raced', NEW p \in Product,
               \/ item'[b][p].quantity = item[b][p].quantity
               \/ item'[b][p].quantity <= peak[p]
        PROVE  item'[b][p].quantity <= peak'[p]
    <2>1. item[b][p].quantity <= peak[p]
      BY <1>2 DEF CartsWithinStock
    <2> QED
      BY <1>1, <1>3, <1>4, <1>5, <2>1 DEF ItemRow
  <1>6. CASE item' = item
    BY <1>5, <1>6 DEF CartsWithinStock
  <1>7. ASSUME NEW c \in Session, UpsertItem(c)
        PROVE  CartsWithinStock'
    <2> DEFINE r == request[c]
               b == r.buyer
               p == r.product
    <2>1. /\ b \in Buyer /\ p \in Product /\ r.had \in Nat /\ r.quantity \in Nat
          /\ r.had + r.quantity <= peak[p]
      BY <1>7, RequestKind, StorefrontAssumption DEF UpsertItem, AddRead, FitsInv
    <2>2. b \notin raced' => item[b][p].quantity = r.had
      BY <1>7 DEF UpsertItem
    <2>3. \/ item' = [item EXCEPT ![b][p].quantity = @ + r.quantity]
          \/ /\ item' = [item EXCEPT ![b][p] = [id |-> @.id + 1, quantity |-> r.quantity]]
             /\ r.had = 0
      BY <1>7 DEF UpsertItem
    <2> HIDE DEF r, b, p
    <2>4. \A e \in Buyer, q \in Product : e # b \/ q # p => item'[e][q] = item[e][q]
      BY <2>1, <2>3 DEF TypeOK
    <2>5. b \notin raced' => item'[b][p].quantity = r.had + r.quantity
      <3>1. CASE item' = [item EXCEPT ![b][p].quantity = @ + r.quantity]
        BY <1>4, <2>1, <2>2, <3>1 DEF TypeOK, ItemRow
      <3>2. CASE /\ item' = [item EXCEPT ![b][p] = [id |-> @.id + 1, quantity |-> r.quantity]]
                 /\ r.had = 0
        BY <1>4, <2>1, <3>2 DEF TypeOK
      <3> QED
        BY <2>3, <3>1, <3>2
    <2> QED
      BY <1>5, <2>1, <2>4, <2>5 DEF CartsWithinStock
  <1>8. ASSUME NEW c \in Session, WriteItem(c)
        PROVE  CartsWithinStock'
    <2> DEFINE r == request[c]
    <2>1. /\ r.buyer \in Buyer /\ r.product \in Product /\ r.quantity \in Nat
          /\ r.quantity <= peak[r.product]
      BY <1>8, RequestKind DEF WriteItem, ItemWrite, FitsInv
    <2>2. item' = item \/ item' = [item EXCEPT ![r.buyer][r.product].quantity = r.quantity]
      BY <1>8 DEF WriteItem
    <2> HIDE DEF r
    <2>3. \A e \in Buyer, q \in Product :
             \/ item'[e][q] = item[e][q]
             \/ q = r.product /\ item'[e][q].quantity = r.quantity
      BY <1>4, <2>1, <2>2 DEF TypeOK, ItemRow
    <2> QED
      BY <1>5, <2>1, <2>3 DEF CartsWithinStock
  <1>9. ASSUME NEW c \in Session, ClearCart(c)
        PROVE  CartsWithinStock'
    <2> DEFINE b == request[c].buyer
    <2>1. item' = [item EXCEPT ![b] = [p \in Product |-> [@[p] EXCEPT !.quantity = 0]]]
      BY <1>9 DEF ClearCart
    <2> HIDE DEF b
    <2>2. ASSUME NEW e \in Buyer, NEW q \in Product
          PROVE  item'[e][q] = item[e][q] \/ item'[e][q].quantity = 0
      <3>1. CASE e = b
        <4>1. item'[e][q] = [item[e][q] EXCEPT !.quantity = 0]
          BY <2>1, <3>1 DEF TypeOK
        <4> QED
          BY <1>4, <4>1 DEF ItemRow
      <3>2. CASE e # b
        BY <2>1, <3>2 DEF TypeOK
      <3> QED
        BY <3>1, <3>2
    <2> QED
      BY <1>3, <1>5, <2>2 DEF CartsWithinStock
  <1>10. ASSUME NEW o \in Order, CommitOrder(o)
         PROVE  CartsWithinStock'
    <2> DEFINE b == order[o].buyer
               p == order[o].product
    <2>1. item' = item \/ item' = [item EXCEPT ![b][p].quantity = 0]
      BY <1>10 DEF CommitOrder
    <2> HIDE DEF b, p
    <2>2. ASSUME NEW e \in Buyer, NEW q \in Product
          PROVE  item'[e][q] = item[e][q] \/ item'[e][q].quantity = 0
      <3>1. CASE e = b /\ q = p /\ item' # item
        <4>1. item'[e][q] = [item[e][q] EXCEPT !.quantity = 0]
          BY <2>1, <3>1 DEF TypeOK
        <4> QED
          BY <1>4, <4>1 DEF ItemRow
      <3>2. CASE ~(e = b /\ q = p /\ item' # item)
        BY <2>1, <3>2 DEF TypeOK
      <3> QED
        BY <3>1, <3>2
    <2> QED
      BY <1>3, <1>5, <2>2 DEF CartsWithinStock
  <1> QED
    BY <1>6, <1>7, <1>8, <1>9, <1>10, ItemSteps

\* A line of a cart never asks for more than the product ever had, unless two
\* requests change the line at once.
THEOREM CartsFit == Spec => []CartsWithinStock
  <1>1. Init => FitsInv /\ CartsWithinStock
    <2> SUFFICES ASSUME Init PROVE FitsInv /\ CartsWithinStock
      OBVIOUS
    <2>1. TypeOK
      BY InitType
    <2>2. \A p \in Product : peak[p] = product[p].stock /\ product[p].stock \in Nat
      BY <2>1 DEF Init, TypeOK, CatalogueTypeOK, ProductRow
    <2>3. \A c \in Session : request[c].at = "idle"
      BY DEF Init, Idle
    <2>4. \A b \in Buyer, p \in Product : item[b][p].quantity <= product[p].stock
      BY DEF Init
    <2> QED
      BY <2>2, <2>3, <2>4 DEF FitsInv, CartsWithinStock, At
  <1> QED
    BY <1>1, InitType, StepType, FitsStep, CartsStep, PTL DEF Spec

-----------------------------------------------------------------------------
(* Withdrawals                                                             *)

\* The session is not about to withdraw p.
Free(c, p) ==
    /\ At(c, "update") /\ request[c].product = p => request[c].patch.isActive # FALSE
    /\ ~(At(c, "delete") /\ request[c].product = p)
    /\ ~(At(c, "close") /\ request[c].producer = OwnerOf[p])

\* An order to fulfil that was not created during a withdrawal sees none.
StandingInv ==
    \A o \in Order \ raced : Active(o) =>
       /\ IsAvailable(order[o].product)
       /\ \A c \in Session : Free(c, order[o].product)

\* No withdrawal begins while the order is to be fulfilled.
LEMMA FreeKept ==
    ASSUME TypeOK, [Next]_vars, NEW p \in Product, NEW o \in Order,
           Active(o), order[o].product = p, NEW c \in Session, Free(c, p)
    PROVE  Free(c, p)'
  <1>1. o \in ActiveOrdersOf(p) /\ o \in ActiveOrdersFrom(OwnerOf[p])
    BY DEF ActiveOrdersOf, ActiveOrdersFrom
  <1>2. CASE request'[c].at \in {"update", "delete", "close"}
    <2>1. CASE request'[c] = request[c]
      BY <2>1 DEF Free, At
    <2>2. CASE Sound(request'[c])
      BY <1>1, <1>2, <2>2 DEF Sound, Free, At
    <2> QED
      BY <1>2, <2>1, <2>2, RequestFrame
  <1>3. CASE request'[c].at \notin {"update", "delete", "close"}
    BY <1>3 DEF Free, At
  <1> QED
    BY <1>2, <1>3

\* Only a withdrawal takes a product off sale.
LEMMA AvailableKept ==
    ASSUME TypeOK, [Next]_vars, NEW p \in Product, IsAvailable(p),
           \A c \in Session : Free(c, p)
    PROVE  IsAvailable(p)'
  <1>1. CASE product' = product /\ closed' = closed
    BY <1>1 DEF IsAvailable, Exists
  <1>2. product[p] \in ProductRow
    BY DEF TypeOK, CatalogueTypeOK
  <1>3. ASSUME NEW c \in Session, NEW r \in Request, Reading(c, r)
        PROVE  IsAvailable(p)'
    BY <1>1, <1>3 DEF Reading, listing
  <1>4. ASSUME NEW c \in Session, InsertProduct(c)
        PROVE  IsAvailable(p)'
    BY <1>4 DEF InsertProduct, listing, IsAvailable, Exists, TypeOK, CatalogueTypeOK
  <1>5. ASSUME NEW c \in Session, WriteUpdate(c)
        PROVE  IsAvailable(p)'
    <2> DEFINE q == request[c].product
               patch == request[c].patch
               n == Patched(patch.stock, product[q].stock)
               shown == Patched(patch.isActive, product[q].isActive)
    <2>1. patch \in ProductPatch /\ q \in Product
      BY <1>5, RequestKind DEF WriteUpdate, Update
    <2>2. patch.isActive \in BOOLEAN \cup {Keep}
      BY <2>1, CatalogueAssumption
    <2>3. q = p => shown
      BY <1>5, <2>2 DEF WriteUpdate, Free, Patched, IsAvailable
    <2>4. product' = [product EXCEPT ![q].isActive = shown, ![q].stock = n] /\ closed' = closed
      BY <1>5 DEF WriteUpdate, listing
    <2> HIDE DEF q, n, shown
    <2>5. q = p => product'[p].isActive = shown
      BY <1>2, <2>1, <2>4 DEF TypeOK, CatalogueTypeOK, ProductRow
    <2>6. product'[p].state = product[p].state
      BY <1>2, <2>1, <2>4 DEF TypeOK, CatalogueTypeOK, ProductRow
    <2>7. q # p => product'[p] = product[p]
      BY <2>4 DEF TypeOK, CatalogueTypeOK
    <2> QED
      BY <2>3, <2>4, <2>5, <2>6, <2>7 DEF IsAvailable, Exists
  <1>6. ASSUME NEW c \in Session, WriteDelete(c)
        PROVE  IsAvailable(p)'
    BY <1>6 DEF WriteDelete, Free, listing, IsAvailable, Exists, TypeOK, CatalogueTypeOK
  <1>7. ASSUME NEW c \in Session, WriteReport(c)
        PROVE  IsAvailable(p)'
    BY <1>2, <1>7 DEF WriteReport, listing, IsAvailable, Exists, TypeOK, CatalogueTypeOK,
                      ProductRow
  <1>8. ASSUME NEW c \in Session, WriteModerate(c)
        PROVE  IsAvailable(p)'
    <2> DEFINE q == request[c].product
               m == To(request[c].action)
    <2>1. product' = product \/ product' = [product EXCEPT ![q].moderation = m]
      BY <1>8 DEF WriteModerate
    <2>2. closed' = closed
      BY <1>8 DEF WriteModerate
    <2> HIDE DEF q, m
    <2>3. CASE product' = [product EXCEPT ![q].moderation = m]
      BY <1>2, <2>2, <2>3 DEF IsAvailable, Exists, TypeOK, CatalogueTypeOK, ProductRow
    <2> QED
      BY <1>1, <2>1, <2>2, <2>3
  <1>9. ASSUME NEW c \in Session, WriteClose(c)
        PROVE  IsAvailable(p)'
    BY <1>9 DEF WriteClose, Free, IsAvailable, Exists
  <1>10. ASSUME NEW c \in Session, OtherWrite(c), ~WriteClose(c)
         PROVE  IsAvailable(p)'
    BY <1>1, <1>10 DEF OtherWrite, InsertImage, Presign, CreateCategory, UpdateCategory
  <1>11. ASSUME NEW c \in Session,
                \/ ReplaceSpecialities(c)
                \/ ModeWriteStep(c) \/ ReadItem(c) \/ RetryAdd(c) \/ AddFails(c)
                \/ UpsertItem(c) \/ WriteItem(c) \/ ClearCart(c)
         PROVE  IsAvailable(p)'
    BY <1>1, <1>11 DEF ReplaceSpecialities, ModeWriteStep, CreateMode, Configure, Discard,
                       ReadItem, RetryAdd, AddFails, UpsertItem, WriteItem, ClearCart, listing
  <1>12. ASSUME NEW key \in Key, Upload(key)
         PROVE  IsAvailable(p)'
    BY <1>1, <1>12 DEF Upload
  <1>13. ASSUME NEW o \in Order, OrderStep(o)
         PROVE  IsAvailable(p)'
    <2>1. CASE \/ \E b \in Buyer, q \in Product, m \in Mode : CreatePaymentIntent(o, b, q, m)
               \/ CheckOrder(o)
      BY <1>1, <2>1 DEF CreatePaymentIntent, CheckOrder, listing
    <2>2. ASSUME NEW q, NEW n, product' = [product EXCEPT ![q].stock = n], closed' = closed
          PROVE  IsAvailable(p)'
      BY <1>2, <2>2 DEF IsAvailable, Exists, TypeOK, CatalogueTypeOK, ProductRow
    <2>3. CASE CommitOrder(o)
      <3>1. closed' = closed
        BY <2>3 DEF CommitOrder, listing
      <3>2. \/ product' = product
            \/ product' = [product EXCEPT ![order[o].product].stock = @ - order[o].item.quantity]
        BY <2>3 DEF CommitOrder
      <3> QED
        BY <1>1, <2>2, <3>1, <3>2
    <2>4. CASE \E restock \in BOOLEAN : CloseOrder(o, restock)
      <3>1. PICK restock \in BOOLEAN : CloseOrder(o, restock)
        BY <2>4
      <3> QED
        BY <2>2, <3>1 DEF CloseOrder, listing
    <2> QED
      BY <1>13, <2>1, <2>3, <2>4 DEF OrderStep
  <1>14. CASE UNCHANGED vars
    BY <1>1, <1>14 DEF vars, listing
  <1> QED
    BY <1>3, <1>4, <1>5, <1>6, <1>7, <1>8, <1>9, <1>10, <1>11, <1>12, <1>13, <1>14, StepCases
    DEF ProductWrite

\* An order to fulfil was one before, or is committed by this step.
LEMMA OrderSteps ==
    ASSUME TypeOK, [Next]_vars, NEW o \in Order, order'[o].at = "placed"
    PROVE  /\ raced \subseteq raced'
           /\ \/ Active(o) /\ order'[o].product = order[o].product
              \/ CommitOrder(o)
  <1>1. raced \subseteq raced'
    BY ItemSteps
  <1>2. CASE order' = order
    BY <1>1, <1>2 DEF Active
  <1>3. ASSUME NEW c \in Session, NEW r \in Request, Reading(c, r)
        PROVE  order' = order
    BY <1>3 DEF Reading, sales
  <1>4. ASSUME NEW c \in Session,
               \/ ModeWriteStep(c) \/ ReadItem(c) \/ RetryAdd(c) \/ AddFails(c)
               \/ UpsertItem(c) \/ WriteItem(c) \/ ClearCart(c)
        PROVE  order' = order
    BY <1>4 DEF ModeWriteStep, CreateMode, Configure, Discard, ReadItem, RetryAdd, AddFails,
                UpsertItem, WriteItem, ClearCart, sales
  <1>5. ASSUME NEW u \in Order, NEW b \in Buyer, NEW p \in Product, NEW m \in Mode,
               CreatePaymentIntent(u, b, p, m)
        PROVE  order'[o] = order[o]
    BY <1>5 DEF CreatePaymentIntent, TypeOK
  <1>6. ASSUME NEW u \in Order, CheckOrder(u)
        PROVE  order'[o] = order[o]
    BY <1>6 DEF CheckOrder, TypeOK
  <1>7. ASSUME NEW u \in Order, CommitOrder(u), u # o
        PROVE  order'[o] = order[o]
    BY <1>7 DEF CommitOrder, TypeOK
  <1>8. ASSUME NEW u \in Order, NEW restock \in BOOLEAN, CloseOrder(u, restock)
        PROVE  order'[o] = order[o]
    <2>1. order' = [order EXCEPT ![u].at = "closed"] /\ order[u] \in Placed
      BY <1>8 DEF CloseOrder, Active, TypeOK, OrderRow, Intended, Checked, Placed
    <2>2. u # o
      <3> SUFFICES ASSUME u = o PROVE FALSE
        OBVIOUS
      <3>1. order'[o] = [order[o] EXCEPT !.at = "closed"]
        BY <2>1 DEF TypeOK
      <3> QED
        BY <2>1, <3>1 DEF Placed
    <2> QED
      BY <2>1, <2>2 DEF TypeOK
  <1>9. CASE UNCHANGED sales \/ UNCHANGED vars
    BY <1>2, <1>9 DEF sales, vars
  <1> QED
    BY <1>1, <1>2, <1>3, <1>4, <1>5, <1>6, <1>7, <1>8, <1>9, StepCases DEF OrderStep, Active

LEMMA StandingStep == TypeOK /\ StandingInv /\ [Next]_vars => StandingInv'
  <1> SUFFICES ASSUME TypeOK, StandingInv, [Next]_vars,
                      NEW o \in Order \ raced', order'[o].at = "placed",
                      NEW p, p = order'[o].product
               PROVE  IsAvailable(p)' /\ \A c \in Session : Free(c, p)'
    BY DEF StandingInv, Active, IsAvailable, Exists, Free, At
  <1>1. raced \subseteq raced'
    BY OrderSteps
  <1>2. CASE Active(o) /\ order'[o].product = order[o].product
    <2>1. p \in Product
      BY <1>2 DEF Active, TypeOK, OrderRow, Intended, Checked, Placed
    <2>2. IsAvailable(p) /\ \A c \in Session : Free(c, p)
      BY <1>1, <1>2 DEF StandingInv
    <2> QED
      BY <1>2, <2>1, <2>2, AvailableKept, FreeKept
  <1>3. CASE CommitOrder(o)
    <2>1. order[o] \in Checked
      BY <1>3 DEF CommitOrder, TypeOK, OrderRow, Intended, Checked, Placed
    <2>2. StockSuffices(order[o].product, order[o].item.quantity) /\ mode[order[o].mode].exists
      BY <1>3 DEF CommitOrder, TypeOK
    <2>3. p = order[o].product /\ p \in Product
      BY <1>3, <2>1, <2>2 DEF CommitOrder, TypeOK, Checked
    <2>4. ~Overlaps(p)
      BY <1>3, <2>2, <2>3 DEF CommitOrder
    <2>5. IsAvailable(p) /\ \A c \in Session : Free(c, p)
      BY <2>4 DEF Overlaps, Withdrawing, Free, At
    <2>6. request' = request
      BY <1>3 DEF CommitOrder
    <2> QED
      BY <2>3, <2>5, <2>6, AvailableKept DEF Free, At
  <1> QED
    BY <1>2, <1>3, OrderSteps

\* A product with an order to fulfil stays on sale and its producer open, unless
\* the order was created while a withdrawal was under way.
THEOREM OrdersNotWithdrawn == Spec => []WithdrawnWithoutOrders
  <1>1. Init => StandingInv
    BY DEF Init, StandingInv, Active
  <1>2. StandingInv => WithdrawnWithoutOrders
    BY DEF StandingInv, WithdrawnWithoutOrders
  <1> QED
    BY <1>1, <1>2, InitType, StepType, StandingStep, PTL DEF Spec

-----------------------------------------------------------------------------
(* Moderation                                                              *)

\* A product an administrator has decided about has a row, which no creation
\* in progress replaces; a removal stands in it, unless a report raced it.
VerdictInv ==
    /\ \A c \in Session : At(c, "create") =>
          /\ product[request[c].product].state = "none"
          /\ \A d \in Session \ {c} :
                At(d, "create") => request[d].product # request[c].product
    /\ \A c \in Session :
          request[c].at \in {"delete", "moderate"} =>
             product[request[c].product].state # "none"
    /\ \A p \in Product :
          /\ verdict[p] # "none" => product[p].state # "none"
          /\ verdict[p] = "remove" /\ p \notin raced => product[p].moderation = "REMOVED"

\* What the steps do to the rows: the state of a row, what is moderated in it
\* and the verdict on it change in four of them.
RowsKept ==
    /\ verdict' = verdict
    /\ \A p \in Product : product'[p].state = product[p].state
                          /\ product'[p].moderation = product[p].moderation

LEMMA RowSteps ==
    ASSUME TypeOK, [Next]_vars
    PROVE  /\ raced \subseteq raced'
           /\ \/ RowsKept
              \/ \E c \in Session : InsertProduct(c) \/ WriteDelete(c)
                                    \/ WriteReport(c) \/ WriteModerate(c)
  <1>1. raced \subseteq raced'
    BY ItemSteps
  <1>2. \A p \in Product : product[p] \in ProductRow
    BY DEF TypeOK, CatalogueTypeOK
  <1>3. ASSUME product' = product, verdict' = verdict
        PROVE  RowsKept
    BY <1>3 DEF RowsKept
  <1>4. ASSUME NEW c \in Session, NEW r \in Request, Reading(c, r)
        PROVE  RowsKept
    BY <1>3, <1>4 DEF Reading, listing
  <1>5. ASSUME NEW q, NEW n, product' = [product EXCEPT ![q].stock = n], verdict' = verdict
        PROVE  RowsKept
    BY <1>2, <1>5 DEF RowsKept, TypeOK, CatalogueTypeOK, ProductRow
  <1>6. ASSUME NEW c \in Session, WriteUpdate(c)
        PROVE  RowsKept
    <2> DEFINE q == request[c].product
               n == Patched(request[c].patch.stock, product[q].stock)
               shown == Patched(request[c].patch.isActive, product[q].isActive)
    <2>1. product' = [product EXCEPT ![q].isActive = shown, ![q].stock = n] /\ verdict' = verdict
      BY <1>6 DEF WriteUpdate, listing
    <2> HIDE DEF q, n, shown
    <2> QED
      BY <1>2, <2>1 DEF RowsKept, TypeOK, CatalogueTypeOK, ProductRow
  <1>7. ASSUME NEW c \in Session, OtherWrite(c) \/ ReplaceSpecialities(c)
        PROVE  RowsKept
    BY <1>3, <1>7 DEF OtherWrite, InsertImage, WriteClose, Presign, CreateCategory,
                      UpdateCategory, ReplaceSpecialities
  <1>8. ASSUME NEW c \in Session,
               \/ ModeWriteStep(c) \/ ReadItem(c) \/ RetryAdd(c) \/ AddFails(c)
               \/ UpsertItem(c) \/ WriteItem(c) \/ ClearCart(c)
        PROVE  RowsKept
    BY <1>3, <1>8 DEF ModeWriteStep, CreateMode, Configure, Discard, ReadItem, RetryAdd,
                      AddFails, UpsertItem, WriteItem, ClearCart, listing
  <1>9. ASSUME NEW key \in Key, Upload(key)
        PROVE  RowsKept
    BY <1>3, <1>9 DEF Upload
  <1>10. ASSUME NEW o \in Order, OrderStep(o)
         PROVE  RowsKept
    <2>1. CASE \/ \E b \in Buyer, q \in Product, m \in Mode : CreatePaymentIntent(o, b, q, m)
               \/ CheckOrder(o)
      BY <1>3, <2>1 DEF CreatePaymentIntent, CheckOrder, listing
    <2>2. CASE CommitOrder(o)
      <3>1. verdict' = verdict
        BY <2>2 DEF CommitOrder, listing
      <3>2. \/ product' = product
            \/ product' = [product EXCEPT ![order[o].product].stock = @ - order[o].item.quantity]
        BY <2>2 DEF CommitOrder
      <3> QED
        BY <1>3, <1>5, <3>1, <3>2
    <2>3. CASE \E restock \in BOOLEAN : CloseOrder(o, restock)
      <3>1. PICK restock \in BOOLEAN : CloseOrder(o, restock)
        BY <2>3
      <3> QED
        BY <1>5, <3>1 DEF CloseOrder, listing
    <2> QED
      BY <1>10, <2>1, <2>2, <2>3 DEF OrderStep
  <1>11. ASSUME UNCHANGED vars
         PROVE  RowsKept
    BY <1>3, <1>11 DEF vars, listing
  <1> QED
    BY <1>1, <1>4, <1>6, <1>7, <1>8, <1>9, <1>10, <1>11, StepCases DEF ProductWrite

\* A row is never taken back to nothing, and appears by its own creation only.
LEMMA StateSteps ==
    ASSUME TypeOK, VerdictInv, [Next]_vars, NEW p \in Product
    PROVE  /\ product[p].state # "none" => product'[p].state # "none"
           /\ product[p].state = "none" /\ product'[p].state # "none" =>
                 \E c \in Session : InsertProduct(c) /\ request[c].product = p
  <1>1. \A q \in Product : product[q] \in ProductRow
    BY DEF TypeOK, CatalogueTypeOK
  <1>2. CASE RowsKept
    BY <1>2 DEF RowsKept
  <1>3. ASSUME NEW c \in Session, InsertProduct(c)
        PROVE  \/ product'[p] = product[p]
               \/ request[c].product = p /\ product'[p].state = "live"
    BY <1>3 DEF InsertProduct, TypeOK, CatalogueTypeOK
  <1>4. ASSUME NEW c \in Session, WriteDelete(c)
        PROVE  \/ product'[p] = product[p]
               \/ product[p].state # "none" /\ product'[p].state = "deleted"
    <2>1. product[request[c].product].state # "none"
      BY <1>4 DEF WriteDelete, VerdictInv, At
    <2> QED
      BY <1>1, <1>4, <2>1 DEF WriteDelete, TypeOK, CatalogueTypeOK, ProductRow
  <1>5. ASSUME NEW c \in Session, WriteReport(c) \/ WriteModerate(c)
        PROVE  product'[p].state = product[p].state
    <2> DEFINE q == request[c].product
               m == To(request[c].action)
    <2>1. \/ product' = product
          \/ product' = [product EXCEPT ![q].moderation = m]
          \/ product' = [product EXCEPT ![q].moderation = "REPORTED"]
      BY <1>5 DEF WriteReport, WriteModerate
    <2>2. ASSUME NEW n, product' = [product EXCEPT ![q].moderation = n]
          PROVE  product'[p].state = product[p].state
      BY <1>1, <2>2 DEF TypeOK, CatalogueTypeOK, ProductRow
    <2> HIDE DEF q, m
    <2> QED
      BY <2>1, <2>2
  <1> QED
    BY <1>2, <1>3, <1>4, <1>5, RowSteps

LEMMA CreateKept ==
    ASSUME TypeOK, VerdictInv, [Next]_vars, NEW d \in Session, request'[d].at = "create"
    PROVE  /\ product'[request'[d].product].state = "none"
           /\ \A e \in Session \ {d} :
                 request'[e].at = "create" => request'[e].product # request'[d].product
  <1> DEFINE p == request'[d].product
  <1>1. p \in Product
    <2>1. request'[d] \in Create
      BY StepType, KindOf DEF TypeOK
    <2> QED
      BY <2>1 DEF Create
  <1>2. CASE /\ request'[d] \in Request
             /\ Reading(d, request'[d]) /\ Sound(request'[d])
    <2>1. product[p].state = "none" /\ product' = product
      BY <1>2 DEF Reading, Sound
    <2>2. \A e \in Session \ {d} : request'[e] = request[e]
      BY <1>2, BeginFrame DEF Reading
    <2>3. \A e \in Session : At(e, "create") => request[e].product # p
      BY <1>2 DEF Sound
    <2> QED
      BY <2>1, <2>2, <2>3 DEF At
  <1>3. CASE request'[d] = request[d]
    <2>1. /\ At(d, "create") /\ product[p].state = "none"
          /\ \A e \in Session \ {d} : At(e, "create") => request[e].product # p
      BY <1>3 DEF VerdictInv, At
    <2>2. product'[p].state = "none"
      <3> SUFFICES ASSUME NEW c \in Session, InsertProduct(c), request[c].product = p
                   PROVE  FALSE
        BY <1>1, <2>1, StateSteps
      <3>1. c = d
        BY <2>1 DEF InsertProduct
      <3>2. request'[d].at = "idle"
        BY <3>1, EndFrame DEF InsertProduct
      <3> QED
        BY <3>2
    <2>3. ASSUME NEW e \in Session \ {d}, request'[e].at = "create"
          PROVE  request'[e].product # p
      <3>1. CASE request'[e] = request[e]
        BY <2>1, <2>3, <3>1 DEF At
      <3>2. CASE Sound(request'[e])
        BY <1>3, <2>1, <2>3, <3>2 DEF Sound
      <3> QED
        BY <2>3, <3>1, <3>2, RequestFrame
    <2> QED
      BY <2>2, <2>3
  <1> QED
    BY <1>2, <1>3, RequestFrame

LEMMA VerdictStep == TypeOK /\ VerdictInv /\ [Next]_vars => VerdictInv'
  <1> SUFFICES ASSUME TypeOK, VerdictInv, [Next]_vars PROVE VerdictInv'
    OBVIOUS
  <1>1. ASSUME NEW d \in Session, request'[d].at \in {"delete", "moderate"}
        PROVE  product'[request'[d].product].state # "none"
    <2>1. request'[d] \in OnProduct \cup Moderate
      BY <1>1, StepType, KindOf DEF TypeOK
    <2>2. request'[d].product \in Product
      BY <2>1 DEF OnProduct, Moderate
    <2>3. product[request'[d].product].state # "none"
      BY <1>1, RequestFrame DEF VerdictInv, Sound, Exists
    <2> QED
      BY <2>2, <2>3, StateSteps
  <1>2. \A p \in Product : product[p] \in ProductRow
    BY DEF TypeOK, CatalogueTypeOK
  <1>3. ASSUME NEW p \in Product, verdict'[p] = verdict[p],
               product'[p].moderation = product[p].moderation
        PROVE  /\ verdict'[p] # "none" => product'[p].state # "none"
               /\ verdict'[p] = "remove" /\ p \notin raced' => product'[p].moderation = "REMOVED"
    BY <1>3, StateSteps, RowSteps DEF VerdictInv
  <1>4. ASSUME NEW p \in Product
        PROVE  /\ verdict'[p] # "none" => product'[p].state # "none"
               /\ verdict'[p] = "remove" /\ p \notin raced' => product'[p].moderation = "REMOVED"
    <2>1. CASE RowsKept
      BY <1>3, <2>1 DEF RowsKept
    <2>2. ASSUME NEW c \in Session, InsertProduct(c)
          PROVE  /\ verdict'[p] # "none" => product'[p].state # "none"
                 /\ verdict'[p] = "remove" /\ p \notin raced' => product'[p].moderation = "REMOVED"
      <3>1. verdict' = verdict /\ product[request[c].product].state = "none"
        BY <2>2 DEF InsertProduct, listing, VerdictInv
      <3>2. p = request[c].product => verdict[p] = "none"
        BY <3>1 DEF VerdictInv
      <3>3. p # request[c].product => product'[p] = product[p]
        BY <2>2 DEF InsertProduct, TypeOK, CatalogueTypeOK
      <3> QED
        BY <1>3, <3>1, <3>2, <3>3
    <2>3. ASSUME NEW c \in Session, WriteDelete(c)
          PROVE  verdict'[p] = verdict[p] /\ product'[p].moderation = product[p].moderation
      BY <1>2, <2>3 DEF WriteDelete, listing, TypeOK, CatalogueTypeOK, ProductRow
    <2>4. ASSUME NEW c \in Session, WriteReport(c)
          PROVE  /\ verdict'[p] # "none" => product'[p].state # "none"
                 /\ verdict'[p] = "remove" /\ p \notin raced' => product'[p].moderation = "REMOVED"
      <3>1. verdict' = verdict /\ raced \subseteq raced'
        BY <2>4, RowSteps DEF WriteReport, listing
      <3>2. CASE p = request[c].product
        <4>1. product[p].moderation # "OK" => p \in raced'
          BY <2>4, <3>2 DEF WriteReport
        <4> QED
          BY <3>1, <4>1, StateSteps DEF VerdictInv
      <3>3. CASE p # request[c].product
        <4>1. product'[p] = product[p]
          BY <2>4, <3>3 DEF WriteReport, TypeOK, CatalogueTypeOK
        <4> QED
          BY <1>3, <3>1, <4>1
      <3> QED
        BY <3>2, <3>3
    <2>5. ASSUME NEW c \in Session, WriteModerate(c)
          PROVE  /\ verdict'[p] # "none" => product'[p].state # "none"
                 /\ verdict'[p] = "remove" /\ p \notin raced' => product'[p].moderation = "REMOVED"
      <3> DEFINE q == request[c].product
                 action == request[c].action
                 m == To(action)
      <3>1. product[q].state # "none"
        BY <2>5 DEF WriteModerate, VerdictInv, At
      <3>2. \/ product' = product /\ verdict' = verdict
            \/ /\ product' = [product EXCEPT ![q].moderation = m]
               /\ verdict' = [verdict EXCEPT ![q] = action]
        BY <2>5 DEF WriteModerate
      <3>3. action = "remove" => m = "REMOVED"
        BY DEF To
      <3> HIDE DEF q, action, m
      <3>4. CASE p # q \/ (product' = product /\ verdict' = verdict)
        BY <1>3, <3>2, <3>4 DEF TypeOK, CatalogueTypeOK
      <3>5. CASE /\ p = q
                 /\ product' = [product EXCEPT ![q].moderation = m]
                 /\ verdict' = [verdict EXCEPT ![q] = action]
        <4>1. product'[p].moderation = m /\ verdict'[p] = action
          BY <1>2, <3>5 DEF TypeOK, CatalogueTypeOK, ProductRow
        <4> QED
          BY <3>1, <3>3, <3>5, <4>1, StateSteps
      <3> QED
        BY <3>2, <3>4, <3>5
    <2> QED
      BY <1>3, <2>1, <2>2, <2>3, <2>4, <2>5, RowSteps
  <1> QED
    BY <1>1, <1>4, CreateKept DEF VerdictInv, At

\* What a step may do to a product an administrator has removed.
LEMMA RemovalStep ==
    ASSUME TypeOK, VerdictInv, [Next]_vars, NEW p \in Product, verdict[p] = "remove"
    PROVE  \/ verdict'[p] = "restore"
           \/ p \in raced
           \/ /\ verdict'[p] = "remove"
              /\ p \notin PublicListing'
              /\ p \in raced' \/ product'[p].moderation = "REMOVED"
  <1> SUFFICES ASSUME p \notin raced, verdict'[p] # "restore"
               PROVE  /\ verdict'[p] = "remove"
                      /\ product'[p].moderation # "OK"
                      /\ p \in raced' \/ product'[p].moderation = "REMOVED"
    BY DEF PublicListing, Public
  <1>1. product[p].moderation = "REMOVED" /\ product[p].state # "none"
    BY DEF VerdictInv
  <1>2. product[p] \in ProductRow
    BY DEF TypeOK, CatalogueTypeOK
  <1>3. CASE verdict'[p] = verdict[p] /\ product'[p].moderation = product[p].moderation
    BY <1>1, <1>3
  <1>4. ASSUME NEW c \in Session, InsertProduct(c)
        PROVE  verdict'[p] = verdict[p] /\ product'[p].moderation = product[p].moderation
    <2>1. product[request[c].product].state = "none"
      BY <1>4 DEF InsertProduct, VerdictInv
    <2> QED
      BY <1>1, <1>4, <2>1 DEF InsertProduct, listing, TypeOK, CatalogueTypeOK
  <1>5. ASSUME NEW c \in Session, WriteDelete(c)
        PROVE  verdict'[p] = verdict[p] /\ product'[p].moderation = product[p].moderation
    BY <1>2, <1>5 DEF WriteDelete, listing, TypeOK, CatalogueTypeOK, ProductRow
  <1>6. ASSUME NEW c \in Session, WriteReport(c)
        PROVE  /\ verdict'[p] = "remove"
               /\ product'[p].moderation # "OK"
               /\ p \in raced' \/ product'[p].moderation = "REMOVED"
    <2>1. verdict' = verdict
      BY <1>6 DEF WriteReport, listing
    <2>2. CASE p = request[c].product
      <3>1. product'[p].moderation = "REPORTED"
        BY <1>2, <1>6, <2>2 DEF WriteReport, TypeOK, CatalogueTypeOK, ProductRow
      <3>2. p \in raced'
        BY <1>1, <1>6, <2>2 DEF WriteReport
      <3> QED
        BY <2>1, <3>1, <3>2
    <2>3. CASE p # request[c].product
      <3>1. product'[p] = product[p]
        BY <1>6, <2>3 DEF WriteReport, TypeOK, CatalogueTypeOK
      <3> QED
        BY <1>1, <2>1, <3>1
    <2> QED
      BY <2>2, <2>3
  <1>7. ASSUME NEW c \in Session, WriteModerate(c)
        PROVE  verdict'[p] = verdict[p] /\ product'[p].moderation = product[p].moderation
    <2> DEFINE q == request[c].product
               action == request[c].action
               m == To(action)
    <2>1. \/ product' = product /\ verdict' = verdict
          \/ /\ Claims(q, action)
             /\ product' = [product EXCEPT ![q].moderation = m]
             /\ verdict' = [verdict EXCEPT ![q] = action]
      BY <1>7 DEF WriteModerate
    <2>2. p = q /\ Claims(q, action) => action = "restore"
      BY <1>1 DEF Claims, From
    <2> HIDE DEF q, action, m
    <2>3. p = q => product' = product /\ verdict' = verdict
      BY <2>1, <2>2 DEF TypeOK, CatalogueTypeOK
    <2> QED
      BY <2>1, <2>3 DEF TypeOK, CatalogueTypeOK
  <1> QED
    BY <1>3, <1>4, <1>5, <1>6, <1>7, RowSteps DEF RowsKept

\* A removed product stays out of the public listing until an administrator
\* restores it; only a report that read it earlier moves it, to REPORTED.
THEOREM RemovalFinal == Spec => RemovalStands
  <1>1. Init => VerdictInv
    BY DEF Init, VerdictInv, At, Idle
  <1>2. TypeOK /\ VerdictInv /\ [Next]_vars =>
           [\A p \in Product :
               verdict[p] = "remove" =>
                  \/ verdict'[p] = "restore"
                  \/ p \in raced
                  \/ /\ verdict'[p] = "remove"
                     /\ p \notin PublicListing'
                     /\ p \in raced' \/ product'[p].moderation = "REMOVED"]_vars
    <2> SUFFICES ASSUME TypeOK, VerdictInv, [Next]_vars, NEW p \in Product,
                        verdict[p] = "remove"
                 PROVE  \/ verdict'[p] = "restore"
                        \/ p \in raced
                        \/ /\ verdict'[p] = "remove"
                           /\ p \notin PublicListing'
                           /\ p \in raced' \/ product'[p].moderation = "REMOVED"
      OBVIOUS
    <2> QED
      BY RemovalStep
  <1> QED
    BY <1>1, <1>2, InitType, StepType, VerdictStep, PTL DEF Spec, RemovalStands
=============================================================================
