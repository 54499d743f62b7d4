----------------------- MODULE PaymentWebhooks_proofs -----------------------
(* Theorems about PaymentWebhooks, for every number of sessions, intents,  *)
(* users, producers, products and cart items, and without the bound on     *)
(* edits mattering: MaxEdits is any natural number.                        *)
EXTENDS PaymentWebhooks, Sums, FiniteSetTheorems, TLAPS

Request == {Idle} \cup Checkout \cup Upsert \cup Withdrawal
CheckoutPhase ==
    {"payment", "reconcile", "begin", "lock", "items", "price", "insert"}

\* The kind of a request follows from its phase.
LEMMA RequestKind ==
    ASSUME TypeOK, NEW c \in Session
    PROVE  /\ Phase(c) \in CheckoutPhase => session[c] \in Checkout
           /\ Phase(c) \in {"update", "find", "create", "again"}
                 => session[c] \in Upsert
           /\ Phase(c) = "withdraw" => session[c] \in Withdrawal
  BY DEF TypeOK, Phase, Idle, Checkout, Upsert, Withdrawal, CheckoutPhase

\* What Become does to the sessions.
LEMMA BecomeOnly ==
    ASSUME TypeOK, NEW c \in Session, NEW s, Become(c, s)
    PROVE  session'[c] = s /\ \A d \in Session \ {c} : session'[d] = session[d]
  BY DEF TypeOK, Become

LEMMA BecomeType ==
    ASSUME TypeOK, NEW c \in Session, NEW s \in Request, Become(c, s)
    PROVE  session' \in [Session -> Request]
  BY DEF TypeOK, Become, Request

LEMMA IdleRequest == Idle \in Request
  BY DEF Request

\* A checkout or an upsert that only changes its phase keeps its kind.
LEMMA NextPhase ==
    /\ \A s \in Checkout, p \in CheckoutPhase : [s EXCEPT !.phase = p] \in Request
    /\ \A s \in Upsert, p \in {"update", "find", "create", "again"} :
          [s EXCEPT !.phase = p] \in Request
  BY DEF Checkout, Upsert, CheckoutPhase, Request

LEMMA LinesType ==
    ASSUME TypeOK, NEW u \in User
    PROVE  CartLines(u) \in [Item -> Quantity]
  BY DataAssumption DEF TypeOK, CartLines, Quantity

LEMMA SellersType == \A lines : Sellers(lines) \subseteq Producer
  BY DataAssumption DEF Sellers, Present, SellerOf

\* The units of a product among lines, their price, and the delivery by
\* sellers who all have an active mode: finite sums of naturals.
LEMMA UnitsType ==
    ASSUME NEW lines \in [Item -> Quantity], NEW p \in Product
    PROVE  UnitsOf(lines, p) \in Nat
  <1> DEFINE S == {it \in Item : ProductOf[it] = p}
  <1>1. IsFiniteSet(S)
    BY DataAssumption, FS_Subset
  <1>2. \A it \in S : lines[it] \in Nat
    BY DataAssumption DEF Quantity
  <1>3. SumFunctionOnSet(lines, S) \in Nat
    <2> HIDE DEF S
    <2> QED
      BY <1>1, <1>2, SumNat
  <1> QED
    BY <1>3 DEF UnitsOf

LEMMA ItemTotalType ==
    ASSUME NEW lines \in [Item -> Quantity] PROVE ItemTotal(lines) \in Nat
  <1> DEFINE f == [it \in Item |-> UnitPrice[it] * lines[it]]
  <1>1. \A it \in Item : f[it] \in Nat
    BY DataAssumption DEF Quantity
  <1>2. SumFunctionOnSet(f, Item) \in Nat
    <2> HIDE DEF f
    <2> QED
      BY <1>1, DataAssumption, SumNat
  <1> QED
    BY <1>2 DEF ItemTotal, SumFunction

LEMMA DeliveryTotalType ==
    ASSUME TypeOK, NEW sellers \in SUBSET Producer,
           \A r \in sellers : cost[r] # Inactive
    PROVE  DeliveryTotal(sellers, cost) \in Nat
  <1>1. IsFiniteSet(sellers)
    BY DataAssumption, FS_Subset
  <1>2. \A r \in sellers : cost[r] \in Nat
    BY DataAssumption DEF TypeOK
  <1> QED
    BY <1>1, <1>2, SumNat DEF DeliveryTotal

\* The total of lines whose sellers all have an active mode is a number.
LEMMA TotalType ==
    ASSUME TypeOK, NEW lines \in [Item -> Quantity],
           \A r \in Sellers(lines) : cost[r] # Inactive
    PROVE  ItemTotal(lines) + DeliveryTotal(Sellers(lines), cost) \in Nat
  <1>1. ItemTotal(lines) \in Nat
    BY ItemTotalType
  <1>2. DeliveryTotal(Sellers(lines), cost) \in Nat
    BY SellersType, DeliveryTotalType
  <1> QED
    BY <1>1, <1>2

-----------------------------------------------------------------------------
(* Type correctness *)

ShopType ==
    /\ cart \in [Item -> Quantity]
    /\ unused \subseteq Item
    /\ stock \in [Product -> Nat]
    /\ shelf \subseteq Product
    /\ cost \in [Producer -> Cost \cup {Inactive}]
    /\ account \in [User -> AccountState]
    /\ edits \in 0 .. MaxEdits

BooksType ==
    /\ payment \in [Intent -> {NoPayment} \cup
                              [status: PaymentStatus, amount: Nat]]
    /\ order \in [Intent -> {NoOrder} \cup
                  [number: Nat \ {0}, total: Nat, lines: [Item -> Quantity]]]
    /\ lastNumber \in [User -> Nat]
    /\ acknowledged \subseteq Intent

StripeType ==
    /\ intent \in [Intent -> [charged: Nat, sellers: SUBSET Producer]]
    /\ events \in [Intent -> SUBSET EventType]

LEMMA TypeParts ==
    TypeOK <=> /\ ShopType /\ BooksType /\ StripeType
               /\ session \in [Session -> Request]
  BY DEF TypeOK, ShopType, BooksType, StripeType, Request

LEMMA InitType == Init => TypeOK
  BY DataAssumption
     DEF Init, TypeOK, AccountState, NoIntent, NoPayment, NoOrder, Quantity

\* The handlers of events that create no order.
LEMMA UpsertType ==
    ASSUME TypeOK, NEW c \in Session,
           \/ UpdatePayment(c) \/ FindPayment(c) \/ CreatePayment(c)
    PROVE  TypeOK'
  <1> DEFINE s == session[c]
  <1>1. s \in Upsert
    BY RequestKind DEF UpdatePayment, FindPayment, CreatePayment
  <1>2. acknowledged' \subseteq Intent
    BY <1>1 DEF UpdatePayment, FindPayment, CreatePayment, Acknowledge,
                TypeOK, Upsert
  <1>3. ASSUME WritePayment(c)
        PROVE  payment' \in [Intent -> {NoPayment} \cup
                                [status: PaymentStatus, amount: Nat]]
    <2>1. [status |-> s.status, amount |-> intent[s.intent].charged]
             \in [status: PaymentStatus, amount: Nat]
      BY <1>1 DEF Upsert, PaymentStatus, TypeOK
    <2> QED
      BY <1>1, <1>3, <2>1 DEF WritePayment, TypeOK, Upsert
  <1>4. BooksType'
    BY <1>2, <1>3 DEF UpdatePayment, FindPayment, CreatePayment, BooksType, TypeOK
  <1>5. session' \in [Session -> Request]
    BY <1>1, NextPhase, IdleRequest, BecomeType
       DEF UpdatePayment, FindPayment, CreatePayment
  <1>6. ShopType' /\ StripeType'
    BY DEF UpdatePayment, FindPayment, CreatePayment, shop, ShopType,
           StripeType, TypeOK
  <1> QED
    BY <1>4, <1>5, <1>6, TypeParts DEF TypeOK, ShopType, BooksType, StripeType,
       Request

\* The succeeded handler, up to the insertion.
LEMMA ReadingType ==
    ASSUME TypeOK, NEW c \in Session,
           \/ ReadPayment(c) \/ Reconcile(c) \/ BeginTransaction(c)
           \/ LockOwners(c) \/ CheckItems(c) \/ PriceOrder(c)
           \/ RetryTransaction(c)
    PROVE  TypeOK'
  <1> DEFINE s == session[c]
  <1>1. s \in Checkout
    BY RequestKind DEF ReadPayment, Reconcile, BeginTransaction, LockOwners,
                       CheckItems, PriceOrder, RetryTransaction, CheckoutPhase
  <1>2. acknowledged' \subseteq Intent
    BY <1>1 DEF ReadPayment, Reconcile, BeginTransaction, LockOwners,
                CheckItems, PriceOrder, RetryTransaction, books, TypeOK, Checkout
  <1>3. session' \in [Session -> Request]
    <2>1. CASE ReadPayment(c) \/ CheckItems(c) \/ LockOwners(c)
      BY <1>1, <2>1, NextPhase, IdleRequest, BecomeType
         DEF ReadPayment, CheckItems, LockOwners, CheckoutPhase
    <2>2. CASE Reconcile(c)
      <3>1. [phase |-> "update", intent |-> s.intent, status |-> "PENDING"]
               \in Request
        BY <1>1 DEF Checkout, Upsert, Request
      <3> QED
        BY <1>1, <2>2, <3>1, NextPhase, BecomeType DEF Reconcile, CheckoutPhase
    <2>3. CASE BeginTransaction(c)
      <3>1. [s EXCEPT !.phase = "lock",
                      !.deleted = payment[s.intent].status = "FAILED"] \in Request
        BY <1>1 DEF Checkout, Request
      <3> QED
        BY <2>3, <3>1, IdleRequest, BecomeType DEF BeginTransaction
    <2>4. CASE PriceOrder(c)
      <3>1. ItemTotal(s.lines) + DeliveryTotal(Sellers(s.lines), cost) \in Nat
        BY <1>1, <2>4, TotalType DEF PriceOrder, SelectionsValid, Checkout
      <3>2. [s EXCEPT !.phase = "insert",
                      !.total = ItemTotal(s.lines) +
                                DeliveryTotal(Sellers(s.lines), cost)] \in Request
        BY <1>1, <3>1 DEF Checkout, Request
      <3> QED
        BY <2>4, <3>2, BecomeType DEF PriceOrder
    <2>5. CASE RetryTransaction(c)
      <3>1. [s EXCEPT !.phase = "begin", !.retried = TRUE,
                      !.deleted = FALSE, !.total = 0] \in Request
        BY <1>1 DEF Checkout, Request
      <3> QED
        BY <2>5, <3>1, BecomeType DEF RetryTransaction
    <2> QED
      BY <2>1, <2>2, <2>3, <2>4, <2>5
  <1>4. UNCHANGED <<shop, intent, events, payment, order, lastNumber>>
    BY DEF ReadPayment, Reconcile, BeginTransaction, LockOwners,
           CheckItems, PriceOrder, RetryTransaction, books
  <1> QED
    BY <1>2, <1>3, <1>4 DEF TypeOK, shop, Request

\* The insertion of the order.
LEMMA CommitType ==
    ASSUME TypeOK, NEW c \in Session, CommitOrder(c)
    PROVE  TypeOK'
  <1> DEFINE s == session[c]
             i == s.intent
             n == NextNumber(BuyerOf[i])
  <1>1. s \in Checkout
    BY RequestKind DEF CommitOrder, CheckoutPhase
  <1>2. /\ i \in Intent /\ BuyerOf[i] \in User
        /\ s.lines \in [Item -> Quantity] /\ s.total \in Nat
    BY <1>1, DataAssumption DEF Checkout
  <1>3. n \in Nat \ {0}
    BY <1>2 DEF TypeOK, NextNumber
  <1>4. payment' \in [Intent -> {NoPayment} \cup
                        [status: PaymentStatus, amount: Nat]]
    <2>1. [status |-> "SUCCEEDED", amount |-> s.total]
             \in [status: PaymentStatus, amount: Nat]
      BY <1>2 DEF PaymentStatus
    <2> QED
      BY <2>1 DEF CommitOrder, TypeOK
  <1>5. order' \in [Intent -> {NoOrder} \cup
                [number: Nat \ {0}, total: Nat, lines: [Item -> Quantity]]]
    <2>1. [number |-> n, total |-> s.total, lines |-> s.lines]
             \in [number: Nat \ {0}, total: Nat, lines: [Item -> Quantity]]
      BY <1>2, <1>3
    <2> QED
      BY <2>1 DEF CommitOrder, TypeOK
  <1>6. lastNumber' \in [User -> Nat]
    BY <1>3 DEF CommitOrder, TypeOK
  <1>7. stock' \in [Product -> Nat]
    <2>1. \A p \in Product : UnitsOf(s.lines, p) \in Nat
                              /\ UnitsOf(s.lines, p) <= stock[p]
      BY <1>2, UnitsType DEF CommitOrder, StockSuffices
    <2> QED
      BY <2>1 DEF CommitOrder, Remaining, TypeOK
  <1>8. cart' \in [Item -> Quantity]
    BY DataAssumption DEF CommitOrder, CartCleared, TypeOK, Quantity
  <1>9. acknowledged' \subseteq Intent
    BY <1>2 DEF CommitOrder, TypeOK
  <1>10. session' \in [Session -> Request]
    BY IdleRequest, BecomeType DEF CommitOrder
  <1> QED
    BY <1>4, <1>5, <1>6, <1>7, <1>8, <1>9, <1>10
       DEF CommitOrder, TypeOK, Request

\* The writers of the rows checkout reads.
LEMMA ShopStepType ==
    ASSUME TypeOK, Shop
    PROVE  TypeOK'
  <1> USE DataAssumption
  <1>1. ASSUME NEW it \in Item, NEW q \in Quantity, EditCart(it, q)
        PROVE  TypeOK'
    BY <1>1 DEF EditCart, Edit, TypeOK, books
  <1>2. ASSUME NEW r \in Producer, NEW k \in Cost \cup {Inactive},
               EditDeliveryMode(r, k)
        PROVE  TypeOK'
    BY <1>2 DEF EditDeliveryMode, Edit, TypeOK, books
  <1>3. ASSUME NEW p \in Product, OfferProduct(p)
        PROVE  TypeOK'
    BY <1>3 DEF OfferProduct, Edit, TypeOK, books
  <1>4. ASSUME NEW u \in User, NEW from, NEW to \in AccountState,
               SetAccount(u, from, to)
        PROVE  TypeOK'
    BY <1>4 DEF SetAccount, Edit, TypeOK, books
  <1>5. ASSUME NEW it \in Item, NEW q \in Quantity, AddItem(it, q)
        PROVE  TypeOK'
    BY <1>5 DEF AddItem, Edit, TypeOK, books
  <1> QED
    BY <1>1, <1>2, <1>3, <1>4, <1>5
       DEF Shop, ActivateUser, DeactivateUser, DeleteUser, AccountState

LEMMA StepType == TypeOK /\ [Next]_vars => TypeOK'
  <1> SUFFICES ASSUME TypeOK, [Next]_vars PROVE TypeOK'
    OBVIOUS
  <1>1. ASSUME NEW c \in Session, NEW i \in Intent, HandleSucceeded(c, i)
        PROVE  TypeOK'
    <2> DEFINE lines == CartLines(BuyerOf[i])
    <2>1. lines \in [Item -> Quantity]
      BY LinesType, DataAssumption
    <2>2. [phase |-> "payment", intent |-> i, lines |-> lines,
           fresh |-> \A it \in Present(lines) : IsAvailable(it),
           deleted |-> FALSE, retried |-> FALSE, total |-> 0] \in Request
      BY <2>1 DEF Checkout, Request
    <2>3. session' \in [Session -> Request]
      BY <1>1, <2>2, BecomeType DEF HandleSucceeded
    <2> QED
      BY <1>1, <2>3 DEF HandleSucceeded, TypeOK, Request, shop, books
  <1>2. ASSUME NEW c \in Session, NEW i \in Intent, NEW e \in EventType,
               HandleFailedOrCanceled(c, i, e)
        PROVE  TypeOK'
    <2>1. [phase |-> "update", intent |-> i,
           status |-> IF e = "failed" THEN "FAILED" ELSE "CANCELED"] \in Request
      BY DEF Upsert, Request
    <2>2. session' \in [Session -> Request]
      BY <1>2, <2>1, BecomeType DEF HandleFailedOrCanceled
    <2> QED
      BY <1>2, <2>2 DEF HandleFailedOrCanceled, TypeOK, Request, shop, books
  <1>3. ASSUME NEW c \in Session, NEW p \in Product, BeginWithdrawal(c, p)
        PROVE  TypeOK'
    <2>1. [phase |-> "withdraw", product |-> p] \in Request
      BY DEF Withdrawal, Request
    <2>2. session' \in [Session -> Request]
      BY <1>3, <2>1, BecomeType DEF BeginWithdrawal
    <2> QED
      BY <1>3, <2>2, DataAssumption DEF BeginWithdrawal, Edit, TypeOK, Request, books
  <1>4. ASSUME NEW c \in Session, Throw(c) \/ WithdrawProduct(c)
        PROVE  TypeOK'
    <2>1. session' \in [Session -> Request]
      BY <1>4, IdleRequest, BecomeType DEF Throw, WithdrawProduct
    <2> QED
      BY <1>4, <2>1 DEF Throw, WithdrawProduct, TypeOK, Request, shop, books
  <1>5. ASSUME NEW c \in Session, Step(c)
        PROVE  TypeOK'
    BY <1>4, <1>5, UpsertType, ReadingType, CommitType DEF Step
  <1>6. ASSUME NEW i \in Intent, CreatePaymentIntent(i)
        PROVE  TypeOK'
    <2> DEFINE lines == CartLines(BuyerOf[i])
               new == [charged |-> ItemTotal(lines) +
                                   DeliveryTotal(Sellers(lines), cost),
                       sellers |-> Sellers(lines)]
    <2>1. lines \in [Item -> Quantity]
      BY LinesType, DataAssumption
    <2>2. ItemTotal(lines) + DeliveryTotal(Sellers(lines), cost) \in Nat
      BY <1>6, <2>1, TotalType DEF CreatePaymentIntent
    <2>3. new \in [charged: Nat, sellers: SUBSET Producer]
      BY <2>2, SellersType
    <2> QED
      BY <1>6, <2>3 DEF CreatePaymentIntent, TypeOK, shop, books
  <1>7. ASSUME NEW i \in Intent, NEW e \in EventType, StripeEvent(i, e)
        PROVE  TypeOK'
    BY <1>7 DEF StripeEvent, TypeOK, shop, books
  <1>8. CASE UNCHANGED vars
    BY <1>8 DEF vars, shop, books, TypeOK
  <1> QED
    BY <1>1, <1>2, <1>3, <1>4, <1>5, <1>6, <1>7, <1>8, ShopStepType
       DEF Next, Handler, Receive, Stripe

\* The shop, the books and the open requests keep their types; in particular
\* no stock becomes negative.
THEOREM TypeCorrect == Spec => []TypeOK
  BY InitType, StepType, PTL DEF Spec

-----------------------------------------------------------------------------
(* Payment records.  A transaction that has deleted a FAILED record is the *)
(* only one, and nobody overwrites the record until it ends: so the record *)
(* an order replaces is absent or FAILED.                                  *)

RecordInv ==
    /\ OrderMeansSucceeded
    /\ \A c \in Session, i \in Intent :
          HoldsRecord(c, i) => payment[i].status = "FAILED"
    /\ \A c, d \in Session, i \in Intent :
          HoldsRecord(c, i) /\ HoldsRecord(d, i) => c = d

LEMMA InitRecordInv == Init => RecordInv
  BY DEF Init, RecordInv, OrderMeansSucceeded, HoldsRecord, Phase, Idle,
         Ordered, NoOrder, NoPayment, Locked

\* A step that leaves the books alone and gives nobody a record.
LEMMA RecordFrame ==
    ASSUME TypeOK, RecordInv, NEW c \in Session,
           UNCHANGED <<payment, order>>,
           \A d \in Session \ {c} : session'[d] = session[d],
           \A i \in Intent : HoldsRecord(c, i)' => HoldsRecord(c, i)
    PROVE  RecordInv'
  <1>1. \A d \in Session \ {c}, i \in Intent :
           HoldsRecord(d, i)' <=> HoldsRecord(d, i)
    BY DEF HoldsRecord, Phase
  <1>2. OrderMeansSucceeded'
    BY DEF RecordInv, OrderMeansSucceeded, Ordered
  <1> QED
    BY <1>1, <1>2 DEF RecordInv

\* A step of c, which holds no record before or after, that writes a record
\* nobody holds and that has no order.
LEMMA RecordWritten ==
    ASSUME TypeOK, RecordInv, NEW c \in Session, NEW i \in Intent,
           NEW st \in {"FAILED", "PENDING", "CANCELED"}, NEW amount,
           payment' = [payment EXCEPT ![i] = [status |-> st, amount |-> amount]],
           payment[i].status # "SUCCEEDED",
           UNCHANGED order,
           RecordFree(c, i),
           \A d \in Session \ {c} : session'[d] = session[d],
           \A j \in Intent : ~HoldsRecord(c, j) /\ ~HoldsRecord(c, j)'
    PROVE  RecordInv'
  <1>1. \A d \in Session \ {c}, j \in Intent :
           HoldsRecord(d, j)' <=> HoldsRecord(d, j)
    BY DEF HoldsRecord, Phase
  <1>2. /\ payment'[i].status = st
        /\ \A j \in Intent \ {i} : payment'[j] = payment[j]
    BY DEF TypeOK
  <1>3. OrderMeansSucceeded'
    BY <1>2 DEF RecordInv, OrderMeansSucceeded, Ordered
  <1>4. \A d \in Session : ~HoldsRecord(d, i)'
    BY <1>1 DEF RecordFree
  <1> QED
    BY <1>1, <1>2, <1>3, <1>4 DEF RecordInv

\* What CommitOrder does to the records.
LEMMA CommitRecords ==
    ASSUME TypeOK, RecordInv, NEW c \in Session, CommitOrder(c),
           NEW i \in Intent, session[c].intent = i
    PROVE  /\ payment[i].status \in {"none", "FAILED"}
           /\ ~Ordered(i)
           /\ Ordered(i)'
           /\ payment'[i].status = "SUCCEEDED"
           /\ payment'[i].amount = order'[i].total
           /\ order'[i].lines = session[c].lines
           /\ \A j \in Intent \ {i} : /\ payment'[j] = payment[j]
                                       /\ order'[j] = order[j]
           /\ \A d \in Session : ~HoldsRecord(d, i)'
  <1> DEFINE n == NextNumber(BuyerOf[i])
  <1>1. session[c] \in Checkout
    BY RequestKind DEF CommitOrder, CheckoutPhase
  <1>2. payment[i].status \in {"none", "FAILED"}
    <2>1. CASE payment[i] = NoPayment
      BY <2>1 DEF NoPayment
    <2>2. CASE session[c].deleted
      BY <1>1, <2>2 DEF CommitOrder, RecordInv, HoldsRecord, Locked
    <2> QED
      BY <2>1, <2>2 DEF CommitOrder, RecordClash, Recorded
  <1>3. ~Ordered(i)
    BY <1>1, <1>2 DEF RecordInv, OrderMeansSucceeded
  <1>4. /\ order'[i] = [number |-> n, total |-> session[c].total,
                        lines |-> session[c].lines]
        /\ payment'[i] = [status |-> "SUCCEEDED", amount |-> session[c].total]
        /\ \A j \in Intent \ {i} : /\ payment'[j] = payment[j]
                                    /\ order'[j] = order[j]
    BY <1>1 DEF CommitOrder, TypeOK
  <1>5. BuyerOf[i] \in User /\ n \in Nat \ {0}
    BY <1>1, DataAssumption DEF TypeOK, NextNumber
  <1>6. order'[i] # NoOrder
    BY <1>4, <1>5 DEF NoOrder
  <1>7. /\ session'[c] = Idle
        /\ \A d \in Session \ {c} : session'[d] = session[d]
    BY BecomeOnly DEF CommitOrder
  <1>8. \A d \in Session : ~HoldsRecord(d, i)'
    <2>1. \A d \in Session \ {c} : ~HoldsRecord(d, i)
      BY DEF CommitOrder, RecordFree
    <2>2. \A d \in Session \ {c} : HoldsRecord(d, i)' <=> HoldsRecord(d, i)
      BY <1>7 DEF HoldsRecord, Phase
    <2>3. ~HoldsRecord(c, i)'
      BY <1>7 DEF HoldsRecord, Phase, Idle, Locked
    <2> QED
      BY <2>1, <2>2, <2>3
  <1>9. Ordered(i)' /\ \A j \in Intent \ {i} : /\ payment'[j] = payment[j]
                                              /\ order'[j] = order[j]
    BY <1>4, <1>6 DEF Ordered
  <1>10. /\ payment'[i].status = "SUCCEEDED"
         /\ payment'[i].amount = order'[i].total
         /\ order'[i].lines = session[c].lines
    BY <1>4
  <1> QED
    BY <1>2, <1>3, <1>8, <1>9, <1>10

\* None of these actions leaves its session inside a transaction with locks.
LEMMA LeavesUnlocked ==
    ASSUME TypeOK, NEW c \in Session,
           \/ \E i \in Intent : HandleSucceeded(c, i)
           \/ \E i \in Intent, e \in EventType : HandleFailedOrCanceled(c, i, e)
           \/ \E p \in Product : BeginWithdrawal(c, p)
           \/ FindPayment(c) \/ ReadPayment(c) \/ Reconcile(c)
           \/ RetryTransaction(c) \/ WithdrawProduct(c) \/ Throw(c)
    PROVE  /\ session'[c].phase \notin {"lock", "items", "price", "insert"}
           /\ \A d \in Session \ {c} : session'[d] = session[d]
           /\ UNCHANGED <<payment, order>>
  <1>1. UNCHANGED <<payment, order>>
    BY DEF HandleSucceeded, HandleFailedOrCanceled, BeginWithdrawal,
       FindPayment, ReadPayment, Reconcile, RetryTransaction,
       WithdrawProduct, Throw, books
  <1>2. session'[c].phase \notin {"lock", "items", "price", "insert"}
    <2>1. ASSUME NEW i \in Intent, HandleSucceeded(c, i)
          PROVE  session'[c].phase = "payment"
      BY <2>1, BecomeOnly DEF HandleSucceeded
    <2>2. ASSUME NEW i \in Intent, NEW e \in EventType,
                 HandleFailedOrCanceled(c, i, e)
          PROVE  session'[c].phase = "update"
      BY <2>2, BecomeOnly DEF HandleFailedOrCanceled
    <2>3. ASSUME NEW p \in Product, BeginWithdrawal(c, p)
          PROVE  session'[c].phase = "withdraw"
      BY <2>3, BecomeOnly DEF BeginWithdrawal
    <2>4. CASE WithdrawProduct(c) \/ Throw(c)
      BY <2>4, BecomeOnly DEF WithdrawProduct, Throw, Idle
    <2>5. CASE FindPayment(c)
      <3>1. session[c] \in Upsert
        BY <2>5, RequestKind DEF FindPayment
      <3> QED
        BY <2>5, <3>1, BecomeOnly DEF FindPayment, Idle, Upsert
    <2>6. CASE ReadPayment(c) \/ Reconcile(c)
      <3>1. session[c] \in Checkout
        BY <2>6, RequestKind DEF ReadPayment, Reconcile, CheckoutPhase
      <3> QED
        BY <2>6, <3>1, BecomeOnly DEF ReadPayment, Reconcile, Checkout
    <2>7. CASE RetryTransaction(c)
      <3>1. session[c] \in Checkout
        BY <2>7, RequestKind DEF RetryTransaction, CheckoutPhase
      <3>2. session'[c] = [session[c] EXCEPT !.phase = "begin",
                              !.retried = TRUE, !.deleted = FALSE, !.total = 0]
        BY <2>7, BecomeOnly DEF RetryTransaction
      <3>3. session'[c].phase = "begin"
        BY <3>1, <3>2 DEF Checkout
      <3> QED
        BY <3>3
    <2> QED
      BY <2>1, <2>2, <2>3, <2>4, <2>5, <2>6, <2>7
  <1>3. \E s : Become(c, s)
    BY DEF HandleSucceeded, HandleFailedOrCanceled, BeginWithdrawal,
       FindPayment, ReadPayment, Reconcile, RetryTransaction,
       WithdrawProduct, Throw
  <1> QED
    BY <1>1, <1>2, <1>3, BecomeOnly

\* Every step preserves the record invariant.
LEMMA StepRecordInv == TypeOK /\ RecordInv /\ [Next]_vars => RecordInv'
  <1> SUFFICES ASSUME TypeOK, RecordInv, [Next]_vars PROVE RecordInv'
    OBVIOUS
  <1>1. ASSUME NEW c \in Session,
               \/ \E i \in Intent : HandleSucceeded(c, i)
               \/ \E i \in Intent, e \in EventType :
                     HandleFailedOrCanceled(c, i, e)
               \/ \E p \in Product : BeginWithdrawal(c, p)
               \/ FindPayment(c) \/ ReadPayment(c) \/ Reconcile(c)
               \/ RetryTransaction(c) \/ WithdrawProduct(c) \/ Throw(c)
        PROVE  RecordInv'
    <2>1. /\ session'[c].phase \notin {"lock", "items", "price", "insert"}
          /\ \A d \in Session \ {c} : session'[d] = session[d]
          /\ UNCHANGED <<payment, order>>
      BY <1>1, LeavesUnlocked
    <2>2. \A i \in Intent : ~HoldsRecord(c, i)'
      BY <2>1 DEF HoldsRecord, Phase, Locked
    <2> QED
      BY <2>1, <2>2, RecordFrame
  <1>2. ASSUME NEW c \in Session, UpdatePayment(c) \/ CreatePayment(c)
        PROVE  RecordInv'
    <2> DEFINE i == session[c].intent
    <2>1. session[c] \in Upsert
      BY <1>2, RequestKind DEF UpdatePayment, CreatePayment
    <2>2. PICK s : /\ Become(c, s)
                   /\ s.phase \notin {"lock", "items", "price", "insert"}
      BY <1>2, <2>1 DEF UpdatePayment, CreatePayment, Idle, Upsert
    <2>3. /\ \A d \in Session \ {c} : session'[d] = session[d]
          /\ \A j \in Intent : ~HoldsRecord(c, j)' /\ ~HoldsRecord(c, j)
      BY <1>2, <2>2, BecomeOnly
         DEF HoldsRecord, Phase, Locked, UpdatePayment, CreatePayment
    <2>4. CASE UNCHANGED payment
      BY <1>2, <2>3, <2>4, RecordFrame DEF UpdatePayment, CreatePayment
    <2>5. CASE WritePayment(c) /\ payment[i].status # "SUCCEEDED"
      BY <1>2, <2>1, <2>3, <2>5, RecordWritten
         DEF UpdatePayment, CreatePayment, WritePayment, Upsert
    <2> QED
      BY <1>2, <2>4, <2>5
         DEF UpdatePayment, CreatePayment, Overwritable, Recorded, NoPayment
  <1>3. ASSUME NEW c \in Session, BeginTransaction(c)
        PROVE  RecordInv'
    <2> DEFINE i == session[c].intent
    <2>1. session[c] \in Checkout
      BY <1>3, RequestKind DEF BeginTransaction, CheckoutPhase
    <2>2. \A d \in Session \ {c} : session'[d] = session[d]
      BY <1>3, BecomeOnly DEF BeginTransaction
    <2>3. \A d \in Session \ {c}, j \in Intent :
             HoldsRecord(d, j)' <=> HoldsRecord(d, j)
      BY <2>2 DEF HoldsRecord, Phase
    <2>4. \A j \in Intent : HoldsRecord(c, j)' =>
             /\ payment[j].status = "FAILED"
             /\ RecordFree(c, j)
      <3>1. CASE session'[c] = Idle
        BY <3>1 DEF HoldsRecord, Phase, Idle, Locked
      <3>2. CASE session'[c] = [session[c] EXCEPT
                    !.phase = "lock", !.deleted = payment[i].status = "FAILED"]
        <4>1. /\ session'[c].intent = i
              /\ session'[c].deleted <=> payment[i].status = "FAILED"
          BY <2>1, <3>2 DEF Checkout
        <4> QED
          BY <1>3, <4>1 DEF HoldsRecord, BeginTransaction
      <3> QED
        BY <1>3, <3>1, <3>2, BecomeOnly DEF BeginTransaction
    <2>5. OrderMeansSucceeded' /\ UNCHANGED payment
      BY <1>3 DEF BeginTransaction, RecordInv, OrderMeansSucceeded, Ordered
    <2> QED
      BY <2>3, <2>4, <2>5 DEF RecordInv, RecordFree
  <1>4. ASSUME NEW c \in Session, LockOwners(c) \/ CheckItems(c) \/ PriceOrder(c)
        PROVE  RecordInv'
    <2>1. session[c] \in Checkout
      BY <1>4, RequestKind DEF LockOwners, CheckItems, PriceOrder, CheckoutPhase
    <2>2. UNCHANGED <<payment, order>>
      BY <1>4 DEF LockOwners, CheckItems, PriceOrder, books
    <2>3. \A d \in Session \ {c} : session'[d] = session[d]
      BY <1>4, BecomeOnly DEF LockOwners, CheckItems, PriceOrder
    <2>4. \A j \in Intent : HoldsRecord(c, j)' => HoldsRecord(c, j)
      <3>1. CASE session'[c] = Idle
        BY <3>1 DEF HoldsRecord, Phase, Locked, Idle
      <3>2. CASE \E p \in CheckoutPhase : \E t :
                    session'[c] = [session[c] EXCEPT !.phase = p, !.total = t]
        <4>1. /\ session'[c].intent = session[c].intent
              /\ session'[c].deleted = session[c].deleted
          BY <2>1, <3>2 DEF Checkout
        <4>2. Phase(c) \in {"lock", "items", "price"}
          BY <1>4 DEF LockOwners, CheckItems, PriceOrder
        <4> QED
          BY <4>1, <4>2 DEF HoldsRecord, Locked
      <3>3. ASSUME NEW p \in CheckoutPhase,
                   session'[c] = [session[c] EXCEPT !.phase = p]
            PROVE  session'[c] = [session[c] EXCEPT !.phase = p,
                                                    !.total = session[c].total]
        BY <2>1, <3>3 DEF Checkout
      <3>4. CASE LockOwners(c)
        BY <3>1, <3>2, <3>3, <3>4, BecomeOnly DEF LockOwners, CheckoutPhase
      <3>5. CASE CheckItems(c)
        BY <3>2, <3>3, <3>5, BecomeOnly DEF CheckItems, CheckoutPhase
      <3>6. CASE PriceOrder(c)
        BY <3>2, <3>6, BecomeOnly DEF PriceOrder, CheckoutPhase
      <3> QED
        BY <1>4, <3>4, <3>5, <3>6
    <2> QED
      BY <2>2, <2>3, <2>4, RecordFrame
  <1>5. ASSUME NEW c \in Session, CommitOrder(c)
        PROVE  RecordInv'
    <2>0. PICK i \in Intent : session[c].intent = i
      BY <1>5, RequestKind DEF CommitOrder, CheckoutPhase, Checkout
    <2>1. \A d \in Session, j \in Intent : HoldsRecord(d, j)' =>
             j # i /\ HoldsRecord(d, j)
      <3>1. /\ session'[c] = Idle
            /\ \A d \in Session \ {c} : session'[d] = session[d]
        BY <1>5, BecomeOnly DEF CommitOrder
      <3> QED
        BY <1>5, <2>0, <3>1, CommitRecords DEF HoldsRecord, Phase, Idle, Locked
    <2>2. OrderMeansSucceeded'
      BY <1>5, <2>0, CommitRecords DEF OrderMeansSucceeded, RecordInv, Ordered
    <2> QED
      BY <1>5, <2>0, <2>1, <2>2, CommitRecords DEF RecordInv
  <1>6. CASE Stripe \/ Shop \/ UNCHANGED vars
    <2>1. UNCHANGED <<payment, order, session>>
      BY <1>6 DEF Stripe, CreatePaymentIntent, StripeEvent, Shop, AddItem, EditCart,
         EditDeliveryMode, OfferProduct, ActivateUser, DeactivateUser,
         DeleteUser, SetAccount, vars, books
    <2> QED
      BY <2>1 DEF RecordInv, OrderMeansSucceeded, Ordered, HoldsRecord, Phase
  <1> QED
    BY <1>1, <1>2, <1>3, <1>4, <1>5, <1>6 DEF Next, Handler, Receive, Step

LEMMA RecordInvariant == Spec => [](TypeOK /\ RecordInv)
  <1>1. Init => TypeOK /\ RecordInv
    BY InitType, InitRecordInv
  <1>2. TypeOK /\ RecordInv /\ [Next]_vars => (TypeOK /\ RecordInv)'
    BY StepType, StepRecordInv
  <1> QED
    BY <1>1, <1>2, PTL DEF Spec

\* An intent has an order exactly when its payment record says SUCCEEDED, and
\* the two agree on the amount.
THEOREM OrdersArePaid == Spec => []OrderMeansSucceeded
  <1>1. RecordInv => OrderMeansSucceeded
    BY DEF RecordInv
  <1> QED
    BY <1>1, RecordInvariant, PTL

-----------------------------------------------------------------------------
(* Refinement of PaymentLedger *)

\* Every step leaves the books alone, writes one open record, or creates one
\* order.
LEMMA StepKinds ==
    ASSUME TypeOK, [Next]_vars
    PROVE  \/ UNCHANGED <<payment, order>>
           \/ /\ UNCHANGED order
              /\ \E i \in Intent, st \in {"FAILED", "PENDING", "CANCELED"}, a \in Nat :
                    /\ payment[i].status \notin {"SUCCEEDED", "CANCELED"}
                    /\ payment' = [payment EXCEPT ![i] =
                                      [status |-> st, amount |-> a]]
           \/ \E c \in Session : CommitOrder(c)
  <1>1. ASSUME NEW c \in Session, UpdatePayment(c) \/ CreatePayment(c),
               payment' # payment
        PROVE  \E i \in Intent, st \in {"FAILED", "PENDING", "CANCELED"}, a \in Nat :
                    /\ payment[i].status \notin {"SUCCEEDED", "CANCELED"}
                    /\ payment' = [payment EXCEPT ![i] =
                                      [status |-> st, amount |-> a]]
    <2>1. session[c] \in Upsert
      BY <1>1, RequestKind DEF UpdatePayment, CreatePayment
    <2>2. PICK i \in Intent : session[c].intent = i
      BY <2>1 DEF Upsert
    <2>3. /\ WritePayment(c)
          /\ payment[i].status \notin {"SUCCEEDED", "CANCELED"}
      BY <1>1, <2>2 DEF UpdatePayment, CreatePayment, Overwritable, Recorded,
         NoPayment
    <2>4. payment' = [payment EXCEPT ![i] = [status |-> session[c].status,
                                             amount |-> intent[i].charged]]
      BY <2>2, <2>3 DEF WritePayment
    <2>5. /\ session[c].status \in {"FAILED", "PENDING", "CANCELED"}
          /\ intent[i].charged \in Nat
      BY <2>1 DEF Upsert, TypeOK
    <2> QED
      BY <2>3, <2>4, <2>5
  <1>2. ASSUME NEW c \in Session, UpdatePayment(c) \/ CreatePayment(c)
        PROVE  UNCHANGED order
    BY <1>2 DEF UpdatePayment, CreatePayment
  <1>3. ASSUME NEW c \in Session,
               \/ Receive(c) \/ Throw(c)
               \/ \E p \in Product : BeginWithdrawal(c, p)
               \/ FindPayment(c) \/ ReadPayment(c) \/ Reconcile(c)
               \/ BeginTransaction(c) \/ LockOwners(c) \/ CheckItems(c)
               \/ PriceOrder(c) \/ RetryTransaction(c) \/ WithdrawProduct(c)
        PROVE  UNCHANGED <<payment, order>>
    BY <1>3 DEF Receive, HandleSucceeded, HandleFailedOrCanceled, Throw,
       BeginWithdrawal, FindPayment, ReadPayment, Reconcile, BeginTransaction,
       LockOwners, CheckItems, PriceOrder, RetryTransaction, WithdrawProduct, books
  <1>4. CASE Stripe \/ Shop \/ UNCHANGED vars
    BY <1>4 DEF Stripe, CreatePaymentIntent, StripeEvent, Shop, AddItem, EditCart,
       EditDeliveryMode, OfferProduct, ActivateUser, DeactivateUser,
       DeleteUser, SetAccount, vars, books
  <1> QED
    BY <1>1, <1>2, <1>3, <1>4 DEF Next, Handler, Step

LEMMA LedgerInit == Init => Ledger!Init
  BY DEF Init, Ledger!Init, NoPayment, NoOrder, Ordered

LEMMA LedgerStep ==
    TypeOK /\ RecordInv /\ [Next]_vars => [Ledger!Next]_(Ledger!vars)
  <1> SUFFICES ASSUME TypeOK, RecordInv, [Next]_vars
               PROVE  [Ledger!Next]_(Ledger!vars)
    OBVIOUS
  <1> DEFINE record == [i \in Intent |-> payment[i].status]
             fulfilled == {i \in Intent : Ordered(i)}
  <1>1. CASE UNCHANGED <<payment, order>>
    BY <1>1 DEF Ledger!vars, Ordered
  <1>2. ASSUME UNCHANGED order, NEW i \in Intent,
               NEW st \in {"FAILED", "PENDING", "CANCELED"}, NEW a \in Nat,
               payment[i].status \notin {"SUCCEEDED", "CANCELED"},
               payment' = [payment EXCEPT ![i] = [status |-> st, amount |-> a]]
        PROVE  Ledger!Next
    <2>1. record' = [record EXCEPT ![i] = st]
      BY <1>2 DEF TypeOK
    <2>2. fulfilled' = fulfilled
      BY <1>2 DEF Ordered
    <2>3. record[i] \notin {"SUCCEEDED", "CANCELED"}
      BY <1>2
    <2>4. Ledger!Note(i, st)
      BY <2>1, <2>2, <2>3 DEF Ledger!Note, Ledger!Closed
    <2> QED
      BY <2>4 DEF Ledger!Next, Ledger!Noted
  <1>3. ASSUME NEW c \in Session, CommitOrder(c)
        PROVE  Ledger!Next
    <2>1. PICK i \in Intent : session[c].intent = i
      BY <1>3, RequestKind DEF CommitOrder, CheckoutPhase, Checkout
    <2>2. /\ payment[i].status \in {"none", "FAILED"}
          /\ Ordered(i)'
          /\ payment'[i].status = "SUCCEEDED"
          /\ \A j \in Intent \ {i} : /\ payment'[j] = payment[j]
                                      /\ order'[j] = order[j]
      BY <1>3, <2>1, CommitRecords
    <2>3. record' = [record EXCEPT ![i] = "SUCCEEDED"]
      BY <2>2
    <2>4. fulfilled' = fulfilled \cup {i}
      BY <2>2 DEF Ordered
    <2>5. Ledger!Fulfil(i)
      BY <2>2, <2>3, <2>4 DEF Ledger!Fulfil
    <2> QED
      BY <2>5 DEF Ledger!Next
  <1> QED
    BY <1>1, <1>2, <1>3, StepKinds

\* The webhooks keep the promises of the ledger: one order per intent, closed
\* records stay closed, and no order comes over a charge under review.
THEOREM LedgerRefined == Spec => FollowsLedger
  <1>1. Init => Ledger!Init
    BY LedgerInit
  <1>2. TypeOK /\ RecordInv /\ [Next]_vars => [Ledger!Next]_(Ledger!vars)
    BY LedgerStep
  <1> QED
    BY <1>1, <1>2, RecordInvariant, PTL DEF Spec, FollowsLedger, Ledger!Spec

\* What is paid is settled: no event, replay, edit or account change touches the
\* record or the order of an intent that has one.
PaidStands == \A i \in Intent : Ordered(i) => /\ order'[i] = order[i]
                                             /\ payment'[i] = payment[i]

OrdersStand == [][PaidStands]_vars

THEOREM PaidIsFinal == Spec => OrdersStand
  <1>1. ASSUME TypeOK, RecordInv, [Next]_vars, NEW i \in Intent, Ordered(i)
        PROVE  order'[i] = order[i] /\ payment'[i] = payment[i]
    <2>1. payment[i].status = "SUCCEEDED"
      BY <1>1 DEF RecordInv, OrderMeansSucceeded
    <2>2. ASSUME NEW j \in Intent, NEW st, NEW a,
                 payment[j].status \notin {"SUCCEEDED", "CANCELED"},
                 payment' = [payment EXCEPT ![j] = [status |-> st, amount |-> a]]
          PROVE  payment'[i] = payment[i]
      BY <1>1, <2>1, <2>2 DEF TypeOK
    <2>3. ASSUME NEW c \in Session, CommitOrder(c)
          PROVE  order'[i] = order[i] /\ payment'[i] = payment[i]
      <3>1. PICK j \in Intent : session[c].intent = j
        BY <1>1, <2>3, RequestKind DEF CommitOrder, CheckoutPhase, Checkout
      <3>2. /\ payment[j].status \in {"none", "FAILED"}
            /\ \A k \in Intent \ {j} : /\ payment'[k] = payment[k]
                                        /\ order'[k] = order[k]
        BY <1>1, <2>3, <3>1, CommitRecords
      <3> QED
        BY <2>1, <3>2
    <2> QED
      BY <1>1, <2>2, <2>3, StepKinds
  <1>2. TypeOK /\ RecordInv /\ [Next]_vars => [PaidStands]_vars
    BY <1>1 DEF PaidStands
  <1> QED
    BY <1>2, RecordInvariant, PTL DEF Spec, OrdersStand

-----------------------------------------------------------------------------
(* The accounts of an order *)

\* Everybody whose User row a checkout holds is active.
LockInv == \A c \in Session : \A u \in HeldUsers(c) : account[u] = "ACTIVE"

AccountInv == LockInv /\ DeletedHaveNoActiveOrders

LEMMA InitAccountInv == Init => AccountInv
  BY DEF Init, AccountInv, LockInv, HeldUsers, Phase, Idle, Locked,
         DeletedHaveNoActiveOrders

\* A session that keeps its request keeps its locks.
LEMMA HeldFrame ==
    ASSUME NEW c \in Session, session'[c] = session[c]
    PROVE  HeldUsers(c)' = HeldUsers(c)
  BY DEF HeldUsers, Phase, Parties, OwnersIn, Sellers, Present, SellerOf

\* A step of c that changes neither accounts nor orders, and after which c
\* holds only rows of active users.
LEMMA AccountFrame ==
    ASSUME AccountInv, NEW c \in Session,
           UNCHANGED <<account, order>>,
           \A d \in Session \ {c} : session'[d] = session[d],
           \A u \in HeldUsers(c)' : account[u] = "ACTIVE"
    PROVE  AccountInv'
  <1>1. LockInv'
    BY HeldFrame DEF AccountInv, LockInv
  <1>2. DeletedHaveNoActiveOrders'
    BY DEF AccountInv, DeletedHaveNoActiveOrders, ActiveOrders, Received,
           Bought, Ordered
  <1> QED
    BY <1>1, <1>2 DEF AccountInv

\* The parties of the order that CommitOrder creates are active.
LEMMA CommitParties ==
    ASSUME TypeOK, RecordInv, LockInv, NEW c \in Session, CommitOrder(c),
           NEW i \in Intent, session[c].intent = i
    PROVE  /\ \A u \in Parties(BuyerOf[i], session[c].lines) : account[u] = "ACTIVE"
           /\ \A j \in Intent \ {i} : order'[j] = order[j]
           /\ order'[i].lines = session[c].lines
           /\ UNCHANGED account
  <1>1. HeldUsers(c) = Parties(BuyerOf[i], session[c].lines)
    BY DEF CommitOrder, HeldUsers, Locked
  <1>2. \A u \in Parties(BuyerOf[i], session[c].lines) : account[u] = "ACTIVE"
    BY <1>1 DEF LockInv
  <1>3. /\ \A j \in Intent \ {i} : order'[j] = order[j]
        /\ order'[i].lines = session[c].lines
    BY CommitRecords
  <1>4. UNCHANGED account
    BY DEF CommitOrder
  <1> QED
    BY <1>2, <1>3, <1>4

\* Nobody but the lifecycle actions and CommitOrder changes accounts or orders,
\* and those that take or keep User locks keep them on active users.
LEMMA StepAccountInv ==
    TypeOK /\ RecordInv /\ AccountInv /\ [Next]_vars => AccountInv'
  <1> SUFFICES ASSUME TypeOK, RecordInv, AccountInv, [Next]_vars
               PROVE  AccountInv'
    OBVIOUS
  <1>1. ASSUME NEW c \in Session, session'[c].phase \notin Locked,
               \A d \in Session \ {c} : session'[d] = session[d],
               UNCHANGED <<account, order>>
        PROVE  AccountInv'
    <2>1. HeldUsers(c)' = {}
      BY <1>1 DEF HeldUsers, Phase, Locked
    <2> QED
      BY <1>1, <2>1, AccountFrame
  <1>2. ASSUME NEW c \in Session,
               \/ \E i \in Intent : HandleSucceeded(c, i)
               \/ \E i \in Intent, e \in EventType :
                     HandleFailedOrCanceled(c, i, e)
               \/ \E p \in Product : BeginWithdrawal(c, p)
               \/ FindPayment(c) \/ ReadPayment(c) \/ Reconcile(c)
               \/ RetryTransaction(c) \/ WithdrawProduct(c) \/ Throw(c)
        PROVE  AccountInv'
    <2>1. /\ session'[c].phase \notin Locked
          /\ \A d \in Session \ {c} : session'[d] = session[d]
      BY <1>2, LeavesUnlocked DEF Locked
    <2>2. UNCHANGED <<account, order>>
      BY <1>2 DEF HandleSucceeded, HandleFailedOrCanceled, BeginWithdrawal,
         FindPayment, ReadPayment, Reconcile, RetryTransaction,
         WithdrawProduct, Throw, shop, books
    <2> QED
      BY <1>1, <2>1, <2>2
  <1>3. ASSUME NEW c \in Session, UpdatePayment(c) \/ CreatePayment(c)
        PROVE  AccountInv'
    <2>1. session[c] \in Upsert
      BY <1>3, RequestKind DEF UpdatePayment, CreatePayment
    <2>2. PICK s : /\ Become(c, s)
                   /\ s.phase \notin {"lock", "items", "price", "insert"}
      BY <1>3, <2>1 DEF UpdatePayment, CreatePayment, Idle, Upsert
    <2>3. /\ session'[c].phase \notin Locked
          /\ \A d \in Session \ {c} : session'[d] = session[d]
      BY <2>2, BecomeOnly DEF Locked
    <2>4. UNCHANGED <<account, order>>
      BY <1>3 DEF UpdatePayment, CreatePayment, shop
    <2> QED
      BY <1>1, <2>3, <2>4
  <1>4. ASSUME NEW c \in Session, BeginTransaction(c)
        PROVE  AccountInv'
    <2>1. session[c] \in Checkout
      BY <1>4, RequestKind DEF BeginTransaction, CheckoutPhase
    <2>2. UNCHANGED <<account, order>>
      BY <1>4 DEF BeginTransaction, shop
    <2>3. \/ Become(c, Idle)
          \/ Become(c, [session[c] EXCEPT
                !.phase = "lock",
                !.deleted = payment[session[c].intent].status = "FAILED"])
      BY <1>4 DEF BeginTransaction
    <2>4. CASE Become(c, Idle)
      <3>1. /\ session'[c].phase \notin Locked
            /\ \A d \in Session \ {c} : session'[d] = session[d]
        BY <2>4, BecomeOnly DEF Idle, Locked
      <3> QED
        BY <1>1, <2>2, <3>1
    <2>5. ASSUME NEW b \in BOOLEAN,
                 Become(c, [session[c] EXCEPT !.phase = "lock", !.deleted = b])
          PROVE  AccountInv'
      <3>1. /\ session'[c] = [session[c] EXCEPT !.phase = "lock", !.deleted = b]
            /\ \A d \in Session \ {c} : session'[d] = session[d]
        BY <2>5, BecomeOnly
      <3>2. session'[c].phase = "lock"
        BY <2>1, <3>1 DEF Checkout
      <3>3. session'[c].phase \notin Locked
        BY <3>2 DEF Locked
      <3> QED
        BY <1>1, <2>2, <3>1, <3>3
    <2> QED
      BY <2>3, <2>4, <2>5
  <1>5. ASSUME NEW c \in Session, LockOwners(c) \/ CheckItems(c) \/ PriceOrder(c)
        PROVE  AccountInv'
    <2> DEFINE s == session[c]
    <2>1. s \in Checkout
      BY <1>5, RequestKind DEF LockOwners, CheckItems, PriceOrder, CheckoutPhase
    <2>2. PICK i \in Intent, lines \in [Item -> Quantity] :
             s.intent = i /\ s.lines = lines
      BY <2>1 DEF Checkout
    <2>3. \A u \in Parties(BuyerOf[i], lines) : account[u] = "ACTIVE"
      <3>1. CASE LockOwners(c)
        BY <2>2, <3>1 DEF LockOwners, AllActive
      <3>2. CASE CheckItems(c) \/ PriceOrder(c)
        <4>1. HeldUsers(c) = Parties(BuyerOf[i], lines)
          BY <2>2, <3>2 DEF CheckItems, PriceOrder, HeldUsers, Locked
        <4> QED
          BY <4>1 DEF AccountInv, LockInv
      <3> QED
        BY <1>5, <3>1, <3>2
    <2>4. session'[c] = Idle \/ (session'[c].intent = i /\ session'[c].lines = lines)
      <3>1. CASE LockOwners(c) \/ CheckItems(c)
        <4>1. \/ session'[c] = Idle
              \/ session'[c] = [s EXCEPT !.phase = "items"]
              \/ session'[c] = [s EXCEPT !.phase = "price"]
          BY <3>1, BecomeOnly DEF LockOwners, CheckItems
        <4>2. ASSUME NEW p, session'[c] = [s EXCEPT !.phase = p]
              PROVE  session'[c].intent = i /\ session'[c].lines = lines
          BY <2>1, <2>2, <4>2 DEF Checkout
        <4> QED
          BY <4>1, <4>2
      <3>2. CASE PriceOrder(c)
        <4>1. \E t : session'[c] = [s EXCEPT !.phase = "insert", !.total = t]
          BY <3>2, BecomeOnly DEF PriceOrder
        <4> QED
          BY <2>1, <2>2, <4>1 DEF Checkout
      <3> QED
        BY <1>5, <3>1, <3>2
    <2>5. \A u \in HeldUsers(c)' : account[u] = "ACTIVE"
      <3>1. CASE session'[c] = Idle
        BY <3>1 DEF HeldUsers, Phase, Idle, Locked
      <3>2. CASE session'[c].intent = i /\ session'[c].lines = lines
        BY <2>3, <3>2 DEF HeldUsers
      <3> QED
        BY <2>4, <3>1, <3>2
    <2>6. /\ UNCHANGED <<account, order>>
          /\ \A d \in Session \ {c} : session'[d] = session[d]
      BY <1>5, BecomeOnly DEF LockOwners, CheckItems, PriceOrder, shop, books
    <2> QED
      BY <2>5, <2>6, AccountFrame
  <1>6. ASSUME NEW c \in Session, CommitOrder(c)
        PROVE  AccountInv'
    <2>1. PICK i \in Intent : session[c].intent = i
      BY <1>6, RequestKind DEF CommitOrder, CheckoutPhase, Checkout
    <2>2. PICK lines : session[c].lines = lines
      OBVIOUS
    <2>3. /\ \A u \in Parties(BuyerOf[i], lines) : account[u] = "ACTIVE"
          /\ \A j \in Intent \ {i} : order'[j] = order[j]
          /\ order'[i].lines = lines
          /\ UNCHANGED account
          /\ ~Ordered(i)
      BY <1>6, <2>1, <2>2, CommitParties, CommitRecords DEF AccountInv
    <2>4. /\ session'[c] = Idle
          /\ \A d \in Session \ {c} : session'[d] = session[d]
      BY <1>6, BecomeOnly DEF CommitOrder
    <2>5. HeldUsers(c)' = {}
      BY <2>4 DEF HeldUsers, Phase, Idle, Locked
    <2>6. LockInv'
      BY <2>3, <2>4, <2>5, HeldFrame DEF AccountInv, LockInv
    <2>7. ASSUME NEW u \in User, account'[u] = "DELETED"
          PROVE  ActiveOrders(u)' = {}
      <3>1. ActiveOrders(u) = {}
        BY <2>3, <2>7 DEF AccountInv, DeletedHaveNoActiveOrders
      <3>2. u # BuyerOf[i] /\ u \notin OwnersIn(lines)
        BY <2>3, <2>7 DEF Parties
      <3>3. Received(u)' = Received(u)
        BY <2>3, <3>2 DEF Received, Ordered
      <3>4. Bought(u)' = Bought(u)
        BY <2>3, <3>2 DEF Bought, Ordered
      <3> QED
        BY <3>1, <3>3, <3>4 DEF ActiveOrders
    <2>8. DeletedHaveNoActiveOrders'
      BY <2>7 DEF DeletedHaveNoActiveOrders
    <2> QED
      BY <2>6, <2>8 DEF AccountInv
  <1>7. ASSUME NEW u \in User, ActivateUser(u) \/ DeactivateUser(u) \/ DeleteUser(u)
        PROVE  AccountInv'
    <2>1. /\ UNCHANGED <<order, session>>
          /\ \A c \in Session : u \notin HeldUsers(c)
          /\ account[u] # "DELETED"
          /\ \A v \in User \ {u} : account'[v] = account[v]
      BY <1>7 DEF ActivateUser, DeactivateUser, DeleteUser, SetAccount, books,
         TypeOK
    <2>2. \A c \in Session : HeldUsers(c)' = HeldUsers(c)
      BY <2>1, HeldFrame
    <2>3. \A c \in Session : HeldUsers(c) \subseteq User
      <3> SUFFICES ASSUME NEW c \in Session, Phase(c) \in Locked
                   PROVE  HeldUsers(c) \subseteq User
        BY DEF HeldUsers
      <3>1. session[c] \in Checkout
        BY RequestKind DEF Locked, CheckoutPhase
      <3>2. PICK i \in Intent, lines \in [Item -> Quantity] :
               session[c].intent = i /\ session[c].lines = lines
        BY <3>1 DEF Checkout
      <3>3. Parties(BuyerOf[i], lines) \subseteq User
        BY DataAssumption, SellersType DEF Parties, OwnersIn
      <3> QED
        BY <3>2, <3>3 DEF HeldUsers
    <2>4. LockInv'
      BY <2>1, <2>2, <2>3 DEF AccountInv, LockInv
    <2>5. \A v \in User : ActiveOrders(v)' = ActiveOrders(v)
      BY <2>1 DEF ActiveOrders, Received, Bought, Ordered
    <2>6. account'[u] = "DELETED" => ActiveOrders(u) = {}
      BY <1>7 DEF ActivateUser, DeactivateUser, DeleteUser, SetAccount, TypeOK
    <2>7. DeletedHaveNoActiveOrders'
      BY <2>1, <2>5, <2>6 DEF AccountInv, DeletedHaveNoActiveOrders
    <2> QED
      BY <2>4, <2>7 DEF AccountInv
  <1>8. ASSUME \/ Stripe \/ UNCHANGED vars
               \/ \E it \in Item, q \in Quantity : AddItem(it, q) \/ EditCart(it, q)
               \/ \E r \in Producer, k \in Cost \cup {Inactive} :
                     EditDeliveryMode(r, k)
               \/ \E p \in Product : OfferProduct(p)
        PROVE  AccountInv'
    <2>1. UNCHANGED <<account, order, session>>
      BY <1>8 DEF Stripe, CreatePaymentIntent, StripeEvent, AddItem, EditCart,
         EditDeliveryMode, OfferProduct, vars, shop, books
    <2>2. \A c \in Session : HeldUsers(c)' = HeldUsers(c)
      BY <2>1, HeldFrame
    <2>3. \A u \in User : ActiveOrders(u)' = ActiveOrders(u)
      BY <2>1 DEF ActiveOrders, Received, Bought, Ordered
    <2> QED
      BY <2>1, <2>2, <2>3 DEF AccountInv, LockInv, DeletedHaveNoActiveOrders
  <1> QED
    BY <1>2, <1>3, <1>4, <1>5, <1>6, <1>7, <1>8
       DEF Next, Handler, Receive, Step, Shop

LEMMA AccountInvariant == Spec => [](TypeOK /\ RecordInv /\ AccountInv)
  <1>1. Init => AccountInv
    BY InitAccountInv
  <1>2. TypeOK /\ RecordInv /\ AccountInv /\ [Next]_vars => AccountInv'
    BY StepAccountInv
  <1> QED
    BY <1>1, <1>2, RecordInvariant, PTL DEF Spec

\* A deleted producer has nothing to deliver and a deleted consumer waits for
\* nothing: deleteUser and checkout exclude each other on the User rows.
THEOREM DeletedAreClear == Spec => []DeletedHaveNoActiveOrders
  <1>1. AccountInv => DeletedHaveNoActiveOrders
    BY DEF AccountInv
  <1> QED
    BY <1>1, AccountInvariant, PTL

\* An order appears only while its buyer and all owners of its producers are
\* active (lockAndAssertOwnersActive holds their rows to the commit).
THEOREM OrdersBetweenActive == Spec => OrdersOnlyBetweenActive
  <1>1. ASSUME TypeOK, RecordInv, AccountInv, [Next]_vars,
               NEW i \in Intent, ~Ordered(i), Ordered(i)'
        PROVE  AllActive(Parties(BuyerOf[i], order'[i].lines))
    <2>1. PICK c \in Session : CommitOrder(c)
      BY <1>1, StepKinds DEF Ordered
    <2>2. PICK j \in Intent : session[c].intent = j
      BY <1>1, <2>1, RequestKind DEF CommitOrder, CheckoutPhase, Checkout
    <2>3. PICK lines : session[c].lines = lines
      OBVIOUS
    <2>4. /\ \A u \in Parties(BuyerOf[j], lines) : account[u] = "ACTIVE"
          /\ \A k \in Intent \ {j} : order'[k] = order[k]
          /\ order'[j].lines = lines
      BY <1>1, <2>1, <2>2, <2>3, CommitParties DEF AccountInv
    <2>5. i = j
      BY <1>1, <2>4 DEF Ordered
    <2> QED
      BY <2>4, <2>5 DEF AllActive
  <1>2. TypeOK /\ RecordInv /\ AccountInv /\ [Next]_vars =>
           [\A i \in Intent : ~Ordered(i) /\ Ordered(i)' =>
               AllActive(Parties(BuyerOf[i], order'[i].lines))]_vars
    BY <1>1
  <1> QED
    BY <1>2, AccountInvariant, PTL DEF Spec, OrdersOnlyBetweenActive

-----------------------------------------------------------------------------
(* Order numbers.  Only CommitOrder allocates one, for an intent without   *)
(* an order, and it takes the number and writes the counter at once.       *)

NumbersInv ==
    \A u \in User :
       /\ IsFiniteSet(Bought(u))
       /\ {order[i].number : i \in Bought(u)} = 1 .. lastNumber[u]
       /\ Cardinality(Bought(u)) = lastNumber[u]

LEMMA InitNumbers == Init => NumbersInv
  <1> SUFFICES ASSUME Init, NEW u \in User
               PROVE  /\ Bought(u) = {}
                      /\ lastNumber[u] = 0
    BY FS_EmptySet DEF NumbersInv
  <1> QED
    BY DEF Init, Bought, Ordered

\* Orders and counters are written by CommitOrder and by nothing else.
LEMMA OrdersMove ==
    ASSUME [Next]_vars
    PROVE  \/ UNCHANGED <<order, lastNumber>>
           \/ \E c \in Session : CommitOrder(c)
  <1>1. ASSUME NEW c \in Session, Handler(c), ~CommitOrder(c)
        PROVE  UNCHANGED <<order, lastNumber>>
    BY <1>1 DEF Handler, Receive, Step, HandleSucceeded, HandleFailedOrCanceled,
         BeginWithdrawal, UpdatePayment, FindPayment, CreatePayment, ReadPayment,
         Reconcile, BeginTransaction, LockOwners, CheckItems, PriceOrder,
         RetryTransaction, WithdrawProduct, Throw, books
  <1>2. CASE Stripe \/ Shop \/ UNCHANGED vars
    BY <1>2 DEF Stripe, CreatePaymentIntent, StripeEvent, Shop, AddItem, EditCart,
         EditDeliveryMode, OfferProduct, ActivateUser, DeactivateUser,
         DeleteUser, SetAccount, vars, books
  <1> QED
    BY <1>1, <1>2 DEF Next

LEMMA StepNumbers == TypeOK /\ RecordInv /\ NumbersInv /\ [Next]_vars => NumbersInv'
  <1> SUFFICES ASSUME TypeOK, RecordInv, NumbersInv, [Next]_vars, NEW v \in User
               PROVE  /\ IsFiniteSet(Bought(v)')
                      /\ {order'[i].number : i \in Bought(v)'} = 1 .. lastNumber'[v]
                      /\ Cardinality(Bought(v)') = lastNumber'[v]
    BY DEF NumbersInv
  <1>1. CASE UNCHANGED <<order, lastNumber>>
    <2>1. Bought(v)' = Bought(v)
      BY <1>1 DEF Bought, Ordered
    <2> QED
      BY <1>1, <2>1 DEF NumbersInv
  <1>2. ASSUME NEW c \in Session, CommitOrder(c)
        PROVE  /\ IsFiniteSet(Bought(v)')
               /\ {order'[i].number : i \in Bought(v)'} = 1 .. lastNumber'[v]
               /\ Cardinality(Bought(v)') = lastNumber'[v]
    <2>1. PICK j \in Intent : session[c].intent = j
      BY <1>2, RequestKind DEF CommitOrder, CheckoutPhase, Checkout
    <2>2. /\ ~Ordered(j) /\ Ordered(j)'
          /\ \A i \in Intent \ {j} : order'[i] = order[i]
      BY <1>2, <2>1, CommitRecords
    <2>3. /\ BuyerOf[j] \in User
          /\ order'[j].number = lastNumber[BuyerOf[j]] + 1
          /\ lastNumber' = [lastNumber EXCEPT ![BuyerOf[j]] = lastNumber[BuyerOf[j]] + 1]
      BY <1>2, <2>1, DataAssumption DEF CommitOrder, NextNumber, TypeOK
    <2>4. CASE v # BuyerOf[j]
      <3>1. Bought(v)' = Bought(v) /\ j \notin Bought(v)
        BY <2>2, <2>4 DEF Bought, Ordered
      <3>2. lastNumber'[v] = lastNumber[v]
        BY <2>3, <2>4 DEF TypeOK
      <3>3. {order'[i].number : i \in Bought(v)} = {order[i].number : i \in Bought(v)}
        BY <2>2, <3>1 DEF Bought
      <3> QED
        BY <3>1, <3>2, <3>3 DEF NumbersInv
    <2>5. CASE v = BuyerOf[j]
      <3> DEFINE n == lastNumber[v]
      <3>1. Bought(v)' = Bought(v) \cup {j} /\ j \notin Bought(v)
        BY <2>2, <2>5 DEF Bought, Ordered
      <3>2. lastNumber'[v] = n + 1 /\ n \in Nat
        BY <2>3, <2>5 DEF TypeOK
      <3>3. {order'[i].number : i \in Bought(v)} = 1 .. n
        <4>1. \A i \in Bought(v) : order'[i] = order[i]
          BY <2>2, <3>1 DEF Bought
        <4>2. {order'[i].number : i \in Bought(v)} = {order[i].number : i \in Bought(v)}
          BY <4>1
        <4> QED
          BY <4>2 DEF NumbersInv
      <3>4. order'[j].number = n + 1
        BY <2>3, <2>5
      <3>5. {order'[i].number : i \in Bought(v) \cup {j}} = (1 .. n) \cup {n + 1}
        BY <3>3, <3>4
      <3>6. (1 .. n) \cup {n + 1} = 1 .. (n + 1)
        BY <3>2
      <3>7. /\ IsFiniteSet(Bought(v) \cup {j})
            /\ Cardinality(Bought(v) \cup {j}) = n + 1
        BY <3>1, FS_AddElement DEF NumbersInv
      <3> QED
        BY <3>1, <3>2, <3>5, <3>6, <3>7
    <2> QED
      BY <2>4, <2>5
  <1> QED
    BY <1>1, <1>2, OrdersMove

\* The orders of a buyer are numbered 1, 2, ... without a gap or a repeat, for
\* any number of buyers and intents and whatever rolled back (allocateOrderNumber).
THEOREM NumbersGapless == Spec => []OrderNumbersGapless
  <1>1. TypeOK /\ RecordInv /\ NumbersInv /\ [Next]_vars => NumbersInv'
    BY StepNumbers
  <1>2. NumbersInv => OrderNumbersGapless
    <2> SUFFICES ASSUME NumbersInv, NEW u \in User
                 PROVE  {i \in Intent : BuyerOf[i] = u /\ Ordered(i)} = Bought(u)
      BY DEF NumbersInv, OrderNumbersGapless
    <2> QED
      BY DEF Bought
  <1> QED
    BY <1>1, <1>2, InitNumbers, RecordInvariant, PTL DEF Spec

-----------------------------------------------------------------------------
(* Cart rows.  A checkout takes lines of its buyer's cart, holds the       *)
(* buyer's row while others of the buyer wait, and clears what it buys; a  *)
(* row that is gone does not come back.                                    *)

Sold(it) == \E i \in Intent : Ordered(i) /\ order[i].lines[it] > 0

\* The row was in a cart and is there no more.
Gone(it) == cart[it] = 0 /\ it \notin unused

\* What a checkout asks for is in its buyer's cart.
LinesOwned(c) ==
    session[c] \in Checkout =>
       \A it \in Item : session[c].lines[it] > 0 => CartOf[it] = BuyerOf[session[c].intent]

\* After step 2c nothing of what is asked for has been sold.
Unsold(c) ==
    Phase(c) \in {"price", "insert"} =>
       \A it \in Item : session[c].lines[it] > 0 => ~Sold(it) /\ it \notin unused

Exclusive == \A c, d \in Session : c # d => HeldUsers(c) \cap HeldUsers(d) = {}

SoldInv ==
    /\ \A c \in Session : LinesOwned(c) /\ Unsold(c)
    /\ Exclusive
    /\ \A it \in unused : cart[it] = 0
    /\ \A it \in Item : Sold(it) => Gone(it)
    /\ ItemBoughtOnce

LEMMA InitSold == Init => SoldInv
  <1> SUFFICES ASSUME Init PROVE SoldInv
    OBVIOUS
  <1>1. \A i \in Intent : ~Ordered(i)
    BY DEF Init, Ordered
  <1>2. \A c \in Session : session[c] = Idle
    BY DEF Init
  <1>3. Idle \notin Checkout
    BY DEF Idle, Checkout
  <1>4. \A it \in unused : cart[it] = 0
    BY DEF Init
  <1> QED
    BY <1>1, <1>2, <1>3, <1>4 DEF SoldInv, Sold, LinesOwned, Unsold, Exclusive, HeldUsers,
       Phase, Idle, Locked, ItemBoughtOnce

\* A request that keeps what it asks for.
SameLines(c) ==
    /\ session[c] \in Checkout
    /\ session'[c].intent = session[c].intent
    /\ session'[c].lines = session[c].lines

\* A session that has taken a step is past its locks' end, or about a cart it
\* has just read, or about the lines it had.
LEMMA CheckoutMoves ==
    ASSUME TypeOK, NEW c \in Session, Handler(c)
    PROVE  /\ \A d \in Session \ {c} : session'[d] = session[d]
           /\ \/ session'[c] \notin Checkout
              \/ \E i \in Intent : /\ session'[c].intent = i
                                   /\ session'[c].lines = CartLines(BuyerOf[i])
                                   /\ session'[c].phase = "payment"
              \/ SameLines(c)
  <1> DEFINE Moved == \/ session'[c] \notin Checkout
                      \/ \E i \in Intent : /\ session'[c].intent = i
                                           /\ session'[c].lines = CartLines(BuyerOf[i])
                                           /\ session'[c].phase = "payment"
                      \/ SameLines(c)
  <1>1. ASSUME NEW s, Become(c, s), s.phase \notin CheckoutPhase
        PROVE  Moved
    BY <1>1, BecomeOnly DEF Checkout, CheckoutPhase
  <1>2. ASSUME NEW s, Become(c, s), session[c] \in Checkout,
               s.intent = session[c].intent, s.lines = session[c].lines
        PROVE  Moved
    BY <1>2, BecomeOnly DEF SameLines
  <1>3. ASSUME Become(c, Idle) PROVE Moved
    BY <1>1, <1>3 DEF Idle, CheckoutPhase
  <1>4. ASSUME NEW p, Become(c, [session[c] EXCEPT !.phase = p]), session[c] \in Checkout
        PROVE  Moved
    BY <1>2, <1>4 DEF Checkout
  <1>5. ASSUME NEW i \in Intent, HandleSucceeded(c, i) PROVE Moved
    BY <1>5, BecomeOnly DEF HandleSucceeded
  <1>6. ASSUME NEW i \in Intent, NEW e \in EventType, HandleFailedOrCanceled(c, i, e)
        PROVE  Moved
    BY <1>1, <1>6 DEF HandleFailedOrCanceled, CheckoutPhase
  <1>7. ASSUME NEW p \in Product, BeginWithdrawal(c, p) PROVE Moved
    BY <1>1, <1>7 DEF BeginWithdrawal, CheckoutPhase
  <1>8. ASSUME UpdatePayment(c) \/ FindPayment(c) \/ CreatePayment(c) PROVE Moved
    <2>1. session[c] \in Upsert
      BY <1>8, RequestKind DEF UpdatePayment, FindPayment, CreatePayment
    <2>2. \E s : Become(c, s) /\ s.phase \notin CheckoutPhase
      BY <1>8, <2>1 DEF UpdatePayment, FindPayment, CreatePayment, Idle, Upsert,
                        CheckoutPhase
    <2> QED
      BY <1>1, <2>2
  <1>9. ASSUME ReadPayment(c) \/ Reconcile(c) PROVE Moved
    <2>1. session[c] \in Checkout
      BY <1>9, RequestKind DEF ReadPayment, Reconcile, CheckoutPhase
    <2>2. \/ Become(c, [session[c] EXCEPT !.phase = "begin"])
          \/ Become(c, [session[c] EXCEPT !.phase = "reconcile"])
          \/ Become(c, [phase |-> "update", intent |-> session[c].intent,
                        status |-> "PENDING"])
      BY <1>9 DEF ReadPayment, Reconcile
    <2> QED
      BY <1>1, <1>4, <2>1, <2>2 DEF CheckoutPhase
  <1>10. ASSUME BeginTransaction(c) PROVE Moved
    <2>1. session[c] \in Checkout
      BY <1>10, RequestKind DEF BeginTransaction, CheckoutPhase
    <2>2. \/ Become(c, Idle)
          \/ \E b : Become(c, [session[c] EXCEPT !.phase = "lock", !.deleted = b])
      BY <1>10 DEF BeginTransaction
    <2>3. ASSUME NEW b, Become(c, [session[c] EXCEPT !.phase = "lock", !.deleted = b])
          PROVE  Moved
      BY <1>2, <2>1, <2>3 DEF Checkout
    <2> QED
      BY <1>3, <2>2, <2>3
  <1>11. ASSUME LockOwners(c) \/ CheckItems(c) PROVE Moved
    <2>1. session[c] \in Checkout
      BY <1>11, RequestKind DEF LockOwners, CheckItems, CheckoutPhase
    <2> QED
      BY <1>3, <1>4, <1>11, <2>1 DEF LockOwners, CheckItems
  <1>12. ASSUME PriceOrder(c) PROVE Moved
    <2>1. session[c] \in Checkout
      BY <1>12, RequestKind DEF PriceOrder, CheckoutPhase
    <2>2. PICK t : Become(c, [session[c] EXCEPT !.phase = "insert", !.total = t])
      BY <1>12 DEF PriceOrder
    <2> QED
      BY <1>2, <2>1, <2>2 DEF Checkout
  <1>13. ASSUME RetryTransaction(c) PROVE Moved
    <2>1. session[c] \in Checkout
      BY <1>13, RequestKind DEF RetryTransaction, CheckoutPhase
    <2>2. Become(c, [session[c] EXCEPT !.phase = "begin", !.retried = TRUE,
                                       !.deleted = FALSE, !.total = 0])
      BY <1>13 DEF RetryTransaction
    <2> QED
      BY <1>2, <2>1, <2>2 DEF Checkout
  <1>14. ASSUME CommitOrder(c) \/ Throw(c) \/ WithdrawProduct(c) PROVE Moved
    BY <1>3, <1>14 DEF CommitOrder, Throw, WithdrawProduct
  <1>15. Moved
    BY <1>5, <1>6, <1>7, <1>8, <1>9, <1>10, <1>11, <1>12, <1>13, <1>14
       DEF Handler, Receive, Step
  <1>16. \E s : Become(c, s)
    BY DEF Handler, Receive, Step, HandleSucceeded, HandleFailedOrCanceled,
       BeginWithdrawal, UpdatePayment, FindPayment, CreatePayment, ReadPayment,
       Reconcile, BeginTransaction, LockOwners, CheckItems, PriceOrder, CommitOrder,
       RetryTransaction, WithdrawProduct, Throw
  <1> QED
    BY <1>15, <1>16, BecomeOnly

\* The phases with locks are entered at LockOwners and passed one by one.
LEMMA LockedMoves ==
    ASSUME TypeOK, NEW c \in Session, Handler(c), session'[c].phase \in Locked
    PROVE  \/ LockOwners(c)
           \/ CheckItems(c)
           \/ PriceOrder(c)
  <1>1. ASSUME UpdatePayment(c) \/ CreatePayment(c) \/ BeginTransaction(c) \/ CommitOrder(c)
        PROVE  session'[c].phase \notin Locked
    <2>1. CASE UpdatePayment(c) \/ CreatePayment(c)
      <3>1. session[c] \in Upsert
        BY <2>1, RequestKind DEF UpdatePayment, CreatePayment
      <3> QED
        BY <2>1, <3>1, BecomeOnly DEF UpdatePayment, CreatePayment, Idle, Upsert, Locked
    <2>2. CASE BeginTransaction(c)
      <3>1. session[c] \in Checkout
        BY <2>2, RequestKind DEF BeginTransaction, CheckoutPhase
      <3>2. \/ Become(c, Idle)
            \/ \E b : Become(c, [session[c] EXCEPT !.phase = "lock", !.deleted = b])
        BY <2>2 DEF BeginTransaction
      <3>3. ASSUME NEW b, Become(c, [session[c] EXCEPT !.phase = "lock", !.deleted = b])
            PROVE  session'[c].phase = "lock"
        <4>1. session'[c] = [session[c] EXCEPT !.phase = "lock", !.deleted = b]
          BY <3>3, BecomeOnly
        <4> QED
          BY <3>1, <4>1 DEF Checkout
      <3>4. CASE Become(c, Idle)
        BY <3>4, BecomeOnly DEF Idle, Locked
      <3> QED
        BY <3>2, <3>3, <3>4 DEF Locked
    <2>3. CASE CommitOrder(c)
      BY <2>3, BecomeOnly DEF CommitOrder, Idle, Locked
    <2> QED
      BY <1>1, <2>1, <2>2, <2>3
  <1> QED
    BY <1>1, LeavesUnlocked DEF Handler, Receive, Step, Locked

\* The locks stay exclusive: they are taken when they are free.
LEMMA StepExclusive ==
    ASSUME TypeOK, Exclusive, [Next]_vars
    PROVE  Exclusive'
  <1>1. ASSUME NEW c \in Session, Handler(c)
        PROVE  Exclusive'
    <2>1. \A d \in Session \ {c} : HeldUsers(d)' = HeldUsers(d)
      BY <1>1, CheckoutMoves, HeldFrame
    <2>2. \A d \in Session \ {c} : HeldUsers(c)' \cap HeldUsers(d) = {}
      <3>1. CASE session'[c].phase \notin Locked
        BY <3>1 DEF HeldUsers, Phase
      <3>2. CASE session'[c].phase \in Locked
        <4>1. LockOwners(c) \/ CheckItems(c) \/ PriceOrder(c)
          BY <1>1, <3>2, LockedMoves
        <4>2. session[c] \in Checkout
          BY <4>1, RequestKind DEF LockOwners, CheckItems, PriceOrder, CheckoutPhase
        <4>3. PICK i \in Intent, lines \in [Item -> Quantity] :
                 session[c].intent = i /\ session[c].lines = lines
          BY <4>2 DEF Checkout
        <4>4. session'[c].intent = i /\ session'[c].lines = lines
          <5>1. \/ session'[c] = Idle
                \/ \E p : session'[c] = [session[c] EXCEPT !.phase = p]
                \/ \E t : session'[c] = [session[c] EXCEPT !.phase = "insert", !.total = t]
            BY <4>1, BecomeOnly DEF LockOwners, CheckItems, PriceOrder
          <5>2. session'[c] # Idle
            BY <3>2 DEF Idle, Locked
          <5> QED
            BY <4>2, <4>3, <5>1, <5>2 DEF Checkout
        <4>5. HeldUsers(c)' = Parties(BuyerOf[i], lines)
          BY <3>2, <4>4 DEF HeldUsers, Phase
        <4>6. CASE LockOwners(c)
          BY <4>3, <4>5, <4>6 DEF LockOwners, UsersFree
        <4>7. CASE CheckItems(c) \/ PriceOrder(c)
          <5>1. HeldUsers(c) = Parties(BuyerOf[i], lines)
            BY <4>3, <4>7 DEF CheckItems, PriceOrder, HeldUsers, Locked
          <5> QED
            BY <4>5, <5>1 DEF Exclusive
        <4> QED
          BY <4>1, <4>6, <4>7
      <3> QED
        BY <3>1, <3>2
    <2> QED
      BY <2>1, <2>2 DEF Exclusive
  <1>2. CASE Stripe \/ Shop \/ UNCHANGED vars
    <2>1. UNCHANGED session
      BY <1>2 DEF Stripe, CreatePaymentIntent, StripeEvent, Shop, AddItem, EditCart,
         EditDeliveryMode, OfferProduct, ActivateUser, DeactivateUser,
         DeleteUser, SetAccount, vars
    <2> QED
      BY <2>1, HeldFrame DEF Exclusive
  <1> QED
    BY <1>1, <1>2 DEF Next

\* Nobody else's checkout asks for a row that this one buys.
LEMMA CommitSold ==
    ASSUME TypeOK, RecordInv, SoldInv, NEW c \in Session, CommitOrder(c)
    PROVE  /\ \A it \in Item :
                 Sold(it)' => Sold(it) \/ (session[c].lines[it] > 0 /\ ~Sold(it))
           /\ \A d \in Session \ {c} : Unsold(d)'
           /\ \A it \in unused' : cart'[it] = 0
           /\ \A it \in Item : Sold(it)' => Gone(it)'
           /\ ItemBoughtOnce'
  <1>1. session[c] \in Checkout
    BY RequestKind DEF CommitOrder, CheckoutPhase
  <1>2. PICK i \in Intent, lines \in [Item -> Quantity] :
           session[c].intent = i /\ session[c].lines = lines
    BY <1>1 DEF Checkout
  <1>3. /\ ~Ordered(i)
        /\ order'[i].lines = lines
        /\ \A j \in Intent \ {i} : order'[j] = order[j]
    BY <1>2, CommitRecords
  <1>4. \A it \in Item : lines[it] > 0 => ~Sold(it) /\ it \notin unused
    BY <1>2 DEF SoldInv, Unsold, CommitOrder
  <1>5. \A it \in Item : Sold(it)' => Sold(it) \/ lines[it] > 0
    BY <1>3 DEF Sold, Ordered
  <1>6. \A d \in Session \ {c} : Unsold(d)'
    <2>0. \A d \in Session \ {c} : session'[d] = session[d]
      BY BecomeOnly DEF CommitOrder
    <2> SUFFICES ASSUME NEW d \in Session \ {c}, Phase(d) \in {"price", "insert"},
                        NEW it \in Item, session[d].lines[it] > 0, Sold(it)'
                 PROVE  FALSE
      BY <2>0 DEF Unsold, Phase, SoldInv, CommitOrder
    <2>1. lines[it] > 0
      BY <1>5 DEF SoldInv, Unsold
    <2>2. session[d] \in Checkout
      BY RequestKind DEF CheckoutPhase
    <2>3. CartOf[it] = BuyerOf[session[d].intent] /\ CartOf[it] = BuyerOf[i]
      BY <1>1, <1>2, <2>1, <2>2 DEF SoldInv, LinesOwned
    <2>4. CartOf[it] \in HeldUsers(d) /\ CartOf[it] \in HeldUsers(c)
      BY <1>2, <2>3 DEF HeldUsers, Locked, Parties, CommitOrder
    <2> QED
      BY <2>4 DEF SoldInv, Exclusive
  <1>7. \A it \in Item : /\ it \in unused' => cart'[it] = 0
                         /\ Sold(it)' => Gone(it)'
    <2> SUFFICES ASSUME NEW it \in Item
                 PROVE  /\ it \in unused' => cart'[it] = 0
                        /\ Sold(it)' => Gone(it)'
      OBVIOUS
    <2>1. cart'[it] = IF lines[it] > 0 THEN 0 ELSE cart[it]
      BY <1>2 DEF CommitOrder, CartCleared
    <2>2. unused' = unused
      BY DEF CommitOrder
    <2> QED
      BY <1>4, <1>5, <2>1, <2>2 DEF SoldInv, Gone
  <1>8. ItemBoughtOnce'
    <2> SUFFICES ASSUME NEW j \in Intent, j # i, NEW it \in Item, Ordered(j)'
                 PROVE  order'[j].lines[it] = 0 \/ lines[it] = 0
      <3>1. \A j, k \in Intent \ {i}, it \in Item :
               j # k /\ Ordered(j)' /\ Ordered(k)'
                  => order'[j].lines[it] = 0 \/ order'[k].lines[it] = 0
        BY <1>3 DEF SoldInv, ItemBoughtOnce, Ordered
      <3> QED
        BY <1>3, <3>1 DEF ItemBoughtOnce
    <2>1. Ordered(j) /\ order'[j] = order[j]
      BY <1>3 DEF Ordered
    <2>2. order[j].lines[it] \in Quantity /\ lines[it] \in Quantity
      BY <2>1 DEF TypeOK, Ordered
    <2>3. lines[it] > 0 => ~(order[j].lines[it] > 0)
      BY <1>4, <2>1 DEF Sold
    <2> QED
      BY <2>1, <2>2, <2>3, DataAssumption DEF Quantity
  <1>9. unused' \subseteq Item
    BY DEF CommitOrder, TypeOK
  <1> QED
    BY <1>2, <1>4, <1>5, <1>6, <1>7, <1>8, <1>9

\* A row that is gone stays so, and one that was never given out is in no cart.
LEMMA CartMoves ==
    ASSUME TypeOK, [Next]_vars, \A c \in Session : ~CommitOrder(c),
           \A it \in unused : cart[it] = 0
    PROVE  /\ UNCHANGED order
           /\ unused' \subseteq unused
           /\ \A it \in unused' : cart'[it] = 0
           /\ \A it \in Item : Gone(it) => Gone(it)'
  <1>1. ASSUME NEW c \in Session, Handler(c)
        PROVE  UNCHANGED <<order, cart, unused>>
    BY <1>1 DEF Handler, Receive, Step, HandleSucceeded, HandleFailedOrCanceled,
         BeginWithdrawal, UpdatePayment, FindPayment, CreatePayment, ReadPayment,
         Reconcile, BeginTransaction, LockOwners, CheckItems, PriceOrder,
         RetryTransaction, WithdrawProduct, Throw, books, shop
  <1>2. ASSUME Stripe \/ UNCHANGED vars
        PROVE  UNCHANGED <<order, cart, unused>>
    BY <1>2 DEF Stripe, CreatePaymentIntent, StripeEvent, vars, books, shop
  <1>3. ASSUME NEW it \in Item, NEW q \in Quantity, AddItem(it, q)
        PROVE  UNCHANGED order /\ unused' = unused \ {it} /\ cart' = [cart EXCEPT ![it] = q]
               /\ it \in unused
    BY <1>3 DEF AddItem, books
  <1>4. ASSUME NEW it \in Item, NEW q \in Quantity, EditCart(it, q)
        PROVE  UNCHANGED <<order, unused>> /\ cart' = [cart EXCEPT ![it] = q]
               /\ cart[it] > 0
    BY <1>4 DEF EditCart, books
  <1>5. Shop => \/ \E it \in Item, q \in Quantity : AddItem(it, q) \/ EditCart(it, q)
                \/ UNCHANGED <<order, cart, unused>>
    BY DEF Shop, EditDeliveryMode, OfferProduct, ActivateUser,
         DeactivateUser, DeleteUser, SetAccount, books
  <1>6. \A it \in Item : cart[it] \in Nat
    BY DataAssumption DEF TypeOK, Quantity
  <1>7. ASSUME UNCHANGED <<order, cart, unused>>
        PROVE  /\ unused' \subseteq unused
               /\ \A it \in unused' : cart'[it] = 0
               /\ \A it \in Item : Gone(it) => Gone(it)'
    BY <1>7 DEF Gone
  <1> QED
    BY <1>1, <1>2, <1>3, <1>4, <1>5, <1>6, <1>7 DEF Next, Gone, TypeOK

LEMMA StepLines ==
    ASSUME TypeOK, [Next]_vars, NEW c \in Session, LinesOwned(c)
    PROVE  LinesOwned(c)'
  <1>1. CASE session'[c] = session[c]
    BY <1>1 DEF LinesOwned
  <1>2. CASE Handler(c)
    <2>1. CASE session'[c] \notin Checkout
      BY <2>1 DEF LinesOwned
    <2>2. CASE SameLines(c)
      BY <2>2 DEF SameLines, LinesOwned
    <2>3. ASSUME NEW i \in Intent, session'[c].intent = i,
                 session'[c].lines = CartLines(BuyerOf[i])
          PROVE  LinesOwned(c)'
      BY <2>3 DEF LinesOwned, CartLines
    <2> QED
      BY <1>2, <2>1, <2>2, <2>3, CheckoutMoves
  <1>3. ASSUME NEW d \in Session \ {c}, Handler(d)
        PROVE  session'[c] = session[c]
    BY <1>3, CheckoutMoves
  <1>4. Stripe \/ Shop \/ UNCHANGED vars => UNCHANGED session
    BY DEF Stripe, CreatePaymentIntent, StripeEvent, Shop, AddItem, EditCart,
       EditDeliveryMode, OfferProduct, ActivateUser, DeactivateUser,
       DeleteUser, SetAccount, vars
  <1> QED
    BY <1>1, <1>2, <1>3, <1>4 DEF Next

\* Step 2c lets through only rows that are still there, hence unsold.
LEMMA StepUnsold ==
    ASSUME TypeOK, SoldInv, [Next]_vars, NEW c \in Session, Handler(c), ~CommitOrder(c)
    PROVE  Unsold(c)'
  <1>1. UNCHANGED order
    BY DEF Handler, Receive, Step, HandleSucceeded, HandleFailedOrCanceled,
       BeginWithdrawal, UpdatePayment, FindPayment, CreatePayment, ReadPayment,
       Reconcile, BeginTransaction, LockOwners, CheckItems, PriceOrder,
       RetryTransaction, WithdrawProduct, Throw, books
  <1>2. /\ \A it \in Item : Sold(it)' = Sold(it)
        /\ unused' \subseteq unused
    BY <1>1 DEF Sold, Ordered, Handler, Receive, Step, HandleSucceeded,
       HandleFailedOrCanceled, BeginWithdrawal, UpdatePayment, FindPayment,
       CreatePayment, ReadPayment, Reconcile, BeginTransaction, LockOwners,
       CheckItems, PriceOrder, RetryTransaction, WithdrawProduct, Throw, shop
  <1>3. SUFFICES ASSUME session'[c].phase \in {"price", "insert"}
                 PROVE  \A it \in Item : session'[c].lines[it] > 0 =>
                                             ~Sold(it) /\ it \notin unused
    BY <1>2 DEF Unsold, Phase
  <1>4. LockOwners(c) \/ CheckItems(c) \/ PriceOrder(c)
    BY <1>3, LockedMoves DEF Locked
  <1>5. session[c] \in Checkout
    BY <1>4, RequestKind DEF LockOwners, CheckItems, PriceOrder, CheckoutPhase
  <1>6. CASE LockOwners(c)
    <2>1. session'[c] = Idle \/ session'[c] = [session[c] EXCEPT !.phase = "items"]
      BY <1>6, BecomeOnly DEF LockOwners
    <2> QED
      BY <1>3, <1>5, <2>1 DEF Idle, Checkout
  <1>7. CASE CheckItems(c)
    <2>1. session'[c] = [session[c] EXCEPT !.phase = "price"]
      BY <1>7, BecomeOnly DEF CheckItems
    <2>2. session'[c].lines = session[c].lines
      BY <1>5, <2>1 DEF Checkout
    <2>3. \A it \in Item : session[c].lines[it] > 0 => cart[it] > 0
      BY <1>7 DEF CheckItems, ItemsAvailable, Present
    <2>4. \A it \in Item : session[c].lines[it] > 0 => ~(cart[it] = 0)
      BY <2>3
    <2> QED
      BY <2>2, <2>4 DEF SoldInv, Gone
  <1>8. CASE PriceOrder(c)
    <2>1. \E t : session'[c] = [session[c] EXCEPT !.phase = "insert", !.total = t]
      BY <1>8, BecomeOnly DEF PriceOrder
    <2>2. session'[c].lines = session[c].lines
      BY <1>5, <2>1 DEF Checkout
    <2> QED
      BY <1>8, <2>2 DEF PriceOrder, SoldInv, Unsold
  <1> QED
    BY <1>4, <1>6, <1>7, <1>8

LEMMA StepSold == TypeOK /\ RecordInv /\ SoldInv /\ [Next]_vars => SoldInv'
  <1> SUFFICES ASSUME TypeOK, RecordInv, SoldInv, [Next]_vars PROVE SoldInv'
    OBVIOUS
  <1>1. Exclusive'
    BY StepExclusive DEF SoldInv
  <1>2. \A c \in Session : LinesOwned(c)'
    BY StepLines DEF SoldInv
  <1>3. ASSUME NEW c \in Session, CommitOrder(c)
        PROVE  SoldInv'
    <2>1. Unsold(c)'
      BY <1>3, BecomeOnly DEF CommitOrder, Unsold, Phase, Idle
    <2> QED
      BY <1>1, <1>2, <1>3, <2>1, CommitSold DEF SoldInv
  <1>4. ASSUME \A c \in Session : ~CommitOrder(c)
        PROVE  SoldInv'
    <2>1. /\ UNCHANGED order
          /\ unused' \subseteq unused
          /\ \A it \in unused' : cart'[it] = 0
          /\ \A it \in Item : Gone(it) => Gone(it)'
      BY <1>4, CartMoves DEF SoldInv
    <2>2. \A it \in Item : Sold(it)' = Sold(it)
      BY <2>1 DEF Sold, Ordered
    <2>3. \A it \in Item : Sold(it)' => Gone(it)'
      BY <2>1, <2>2 DEF SoldInv
    <2>4. ItemBoughtOnce'
      BY <2>1 DEF SoldInv, ItemBoughtOnce, Ordered
    <2>5. ASSUME NEW c \in Session PROVE Unsold(c)'
      <3>1. CASE Handler(c)
        BY <1>4, <3>1, StepUnsold
      <3>2. CASE session'[c] = session[c]
        BY <2>1, <2>2, <3>2 DEF SoldInv, Unsold, Phase
      <3>3. ASSUME NEW d \in Session \ {c}, Handler(d)
            PROVE  session'[c] = session[c]
        BY <3>3, CheckoutMoves
      <3>4. Stripe \/ Shop \/ UNCHANGED vars => UNCHANGED session
        BY DEF Stripe, CreatePaymentIntent, StripeEvent, Shop, AddItem, EditCart,
           EditDeliveryMode, OfferProduct, ActivateUser, DeactivateUser,
           DeleteUser, SetAccount, vars
      <3> QED
        BY <3>1, <3>2, <3>3, <3>4 DEF Next
    <2> QED
      BY <1>1, <1>2, <2>1, <2>3, <2>4, <2>5 DEF SoldInv
  <1> QED
    BY <1>3, <1>4

\* A cart row ends up in one order, whatever intents its owner pays for it and
\* however their webhooks interleave (steps 1b, 2c and 9).
THEOREM ItemsBoughtOnce == Spec => []ItemBoughtOnce
  <1>1. TypeOK /\ RecordInv /\ SoldInv /\ [Next]_vars => SoldInv'
    BY StepSold
  <1>2. SoldInv => ItemBoughtOnce
    BY DEF SoldInv
  <1> QED
    BY <1>1, <1>2, InitSold, RecordInvariant, PTL DEF Spec

-----------------------------------------------------------------------------
(* Stock: the order and the decrement of its lines commit together, and    *)
(* nothing else writes either.                                             *)

Placed == {i \in Intent : Ordered(i)}

\* What the orders hold of product p.
SoldUnits(p) == [i \in Placed |-> UnitsOf(order[i].lines, p)]

StockInv == IsFiniteSet(Placed) /\ StockMatchesOrders

LEMMA StockSum ==
    StockMatchesOrders <=>
        \A p \in Product :
            InitialStock[p] = stock[p] + SumFunctionOnSet(SoldUnits(p), Placed)
  BY DEF StockMatchesOrders, SumFunction, SoldUnits, Placed

LEMMA SoldUnitsType ==
    ASSUME TypeOK, NEW p \in Product
    PROVE  \A i \in Placed : SoldUnits(p)[i] \in Nat
  <1> SUFFICES ASSUME NEW i \in Placed PROVE UnitsOf(order[i].lines, p) \in Nat
    BY DEF SoldUnits
  <1>1. order[i].lines \in [Item -> Quantity]
    BY DEF TypeOK, Placed, Ordered
  <1> QED
    BY <1>1, UnitsType

LEMMA InitStock == Init => StockInv
  <1> SUFFICES ASSUME Init PROVE StockInv
    OBVIOUS
  <1>1. Placed = {}
    BY DEF Init, Placed, Ordered
  <1>2. \A p \in Product : SumFunctionOnSet(SoldUnits(p), Placed) = 0
    BY <1>1, EmptySum
  <1>3. \A p \in Product : InitialStock[p] = stock[p] + 0
    BY DataAssumption DEF Init
  <1> QED
    BY <1>1, <1>2, <1>3, StockSum, FS_EmptySet DEF StockInv

LEMMA CommitStock ==
    ASSUME TypeOK, RecordInv, StockInv, NEW c \in Session, CommitOrder(c)
    PROVE  StockInv'
  <1>1. session[c] \in Checkout
    BY RequestKind DEF CommitOrder, CheckoutPhase
  <1>2. PICK j \in Intent, lines \in [Item -> Quantity] :
           session[c].intent = j /\ session[c].lines = lines
    BY <1>1 DEF Checkout
  <1>3. /\ ~Ordered(j) /\ Ordered(j)'
        /\ order'[j].lines = lines
        /\ \A i \in Intent \ {j} : order'[i] = order[i]
    BY <1>2, CommitRecords
  <1>4. Placed' = Placed \cup {j} /\ j \notin Placed
    BY <1>3 DEF Placed, Ordered
  <1>5. IsFiniteSet(Placed')
    BY <1>4, FS_AddElement DEF StockInv
  <1>6. TypeOK'
    BY StepType DEF Next, Handler, Step
  <1>7. ASSUME NEW p \in Product
        PROVE  InitialStock[p] = stock'[p] + SumFunctionOnSet(SoldUnits(p)', Placed')
    <2>1. \A i \in Placed' : SoldUnits(p)'[i] \in Int
      <3>1. \A i \in Placed' : UnitsOf(order'[i].lines, p) \in Nat
        <4>1. \A i \in Placed' : order'[i].lines \in [Item -> Quantity]
          BY <1>6 DEF TypeOK, Placed, Ordered
        <4> QED
          BY <4>1, UnitsType
      <3> QED
        BY <3>1 DEF SoldUnits
    <2>2. SumFunctionOnSet(SoldUnits(p)', Placed') =
                SoldUnits(p)'[j] + SumFunctionOnSet(SoldUnits(p)', Placed' \ {j})
      BY <1>4, <1>5, <2>1, SumWithout
    <2>3. SumFunctionOnSet(SoldUnits(p), Placed) =
                SumFunctionOnSet(SoldUnits(p)', Placed)
      <3>1. \A i \in Placed : SoldUnits(p)[i] = SoldUnits(p)'[i]
        BY <1>3, <1>4 DEF SoldUnits, Placed
      <3>2. \A i \in Placed : SoldUnits(p)[i] \in Int
        BY SoldUnitsType
      <3> QED
        BY <3>1, <3>2, EqualSums DEF StockInv
    <2>4. Placed' \ {j} = Placed
      BY <1>4
    <2>5. SoldUnits(p)'[j] = UnitsOf(lines, p)
      BY <1>3, <1>4 DEF SoldUnits
    <2>6. stock'[p] = stock[p] - UnitsOf(lines, p)
      BY <1>2 DEF CommitOrder, Remaining
    <2>7. InitialStock[p] = stock[p] + SumFunctionOnSet(SoldUnits(p), Placed)
      BY StockSum DEF StockInv
    <2>8. /\ stock[p] \in Int /\ UnitsOf(lines, p) \in Int
          /\ SumFunctionOnSet(SoldUnits(p), Placed) \in Int
      <3>1. \A i \in Placed : SoldUnits(p)[i] \in Int
        BY SoldUnitsType
      <3> QED
        BY <3>1, UnitsType, SumInt DEF TypeOK, StockInv
    <2>9. SumFunctionOnSet(SoldUnits(p)', Placed') =
              UnitsOf(lines, p) + SumFunctionOnSet(SoldUnits(p), Placed)
      BY <2>2, <2>3, <2>4, <2>5
    <2> QED
      BY <2>6, <2>7, <2>8, <2>9
  <1>8. StockMatchesOrders'
    BY <1>7 DEF StockMatchesOrders, SumFunction, SoldUnits, Placed
  <1> QED
    BY <1>5, <1>8 DEF StockInv

LEMMA StockMoves ==
    ASSUME [Next]_vars, \A c \in Session : ~CommitOrder(c)
    PROVE  UNCHANGED <<order, stock>>
  <1>1. ASSUME NEW c \in Session, Handler(c)
        PROVE  UNCHANGED <<order, stock>>
    BY <1>1 DEF Handler, Receive, Step, HandleSucceeded, HandleFailedOrCanceled,
         BeginWithdrawal, UpdatePayment, FindPayment, CreatePayment, ReadPayment,
         Reconcile, BeginTransaction, LockOwners, CheckItems, PriceOrder,
         RetryTransaction, WithdrawProduct, Throw, books, shop
  <1>2. CASE Stripe \/ UNCHANGED vars
    BY <1>2 DEF Stripe, CreatePaymentIntent, StripeEvent, vars, books, shop
  <1>3. CASE Shop
    BY <1>3 DEF Shop, AddItem, EditCart, EditDeliveryMode, OfferProduct, ActivateUser,
         DeactivateUser, DeleteUser, SetAccount, books
  <1> QED
    BY <1>1, <1>2, <1>3 DEF Next

LEMMA StepStock == TypeOK /\ RecordInv /\ StockInv /\ [Next]_vars => StockInv'
  <1> SUFFICES ASSUME TypeOK, RecordInv, StockInv, [Next]_vars PROVE StockInv'
    OBVIOUS
  <1>1. ASSUME \A c \in Session : ~CommitOrder(c)
        PROVE  StockInv'
    BY <1>1, StockMoves DEF StockInv, StockMatchesOrders, Placed, Ordered
  <1> QED
    BY <1>1, CommitStock

\* Every unit that left the stock is in an order, once, whatever transactions
\* rolled back, raced or were replayed; with TypeCorrect, no product is oversold.
THEOREM StockIsAccounted == Spec => []StockMatchesOrders
  <1>1. TypeOK /\ RecordInv /\ StockInv /\ [Next]_vars => StockInv'
    BY StepStock
  <1>2. StockInv => StockMatchesOrders
    BY DEF StockInv
  <1> QED
    BY <1>1, <1>2, InitStock, RecordInvariant, PTL DEF Spec
=============================================================================
