-------------------------- MODULE OrderFulfilment --------------------------
(***************************************************************************)
(* The life of an order after checkout: the producers move its sub-orders  *)
(* with `transition` (sub-orders.service.ts), the consumer takes the whole *)
(* order back with `cancelOrder` (orders.service.ts), which also returns   *)
(* the units to stock (`restockProduct`, inventory.service.ts), and a      *)
(* producer may give a delivery mode another type meanwhile (`update`,     *)
(* delivery-modes.service.ts).                                             *)
(*                                                                         *)
(* The first two are interactive transactions under PostgreSQL READ        *)
(* COMMITTED, so a step here is ONE SQL statement.  `status`, `tracking`,  *)
(* `notified`, `stock` and `carrier` hold committed data; what an open     *)
(* transaction has written is in its own record tx[c] and shows at its     *)
(* commit.  A row a transaction has written stays locked until it ends: a  *)
(* second writer waits for it, a plain read does not.                      *)
(***************************************************************************)
EXTENDS Integers, FiniteSets, Functions, Relation

CONSTANTS
    Session,        \* server sessions, each handling one request at a time
    Order, SubOrder, Line, Product, Mode,
    OrderOf,        \* [SubOrder -> Order]
    ModeOf,         \* [SubOrder -> Mode], the delivery mode
    SubOrderOf,     \* [Line -> SubOrder]
    ProductOf,      \* [Line -> Product]
    Quantity,       \* [Line -> 1..]
    InitialStock,   \* [Product -> Nat], the stock left after checkout
    TrackingNumber,
    Retypable,      \* bound: the modes a producer retypes; no other one ships
    NoTracking      \* the SQL NULL of tracking_number

SubOrdersOf(o) == {s \in SubOrder : OrderOf[s] = o}
LinesOf(o) == {l \in Line : OrderOf[SubOrderOf[l]] = o}

\* createOrderFromPayment writes one sub-order per producer of a non-empty
\* cart and one line per cart item.
ASSUME DataAssumption ==
    /\ IsFiniteSet(Order)
    /\ IsFiniteSet(Line)
    /\ OrderOf \in [SubOrder -> Order]
    /\ ModeOf \in [SubOrder -> Mode]
    /\ Retypable \subseteq Mode
    /\ SubOrderOf \in [Line -> SubOrder]
    /\ ProductOf \in [Line -> Product]
    /\ Quantity \in [Line -> Nat \ {0}]
    /\ InitialStock \in [Product -> Nat]
    /\ NoTracking \notin TrackingNumber
    /\ \A o \in Order : SubOrdersOf(o) # {}

\* The units of product p in order o.
UnitsOf(o, p) ==
    SumFunctionOnSet(Quantity, {l \in LinesOf(o) : ProductOf[l] = p})

VARIABLES
    status,         \* sub_orders.status
    tracking,       \* sub_orders.tracking_number
    notified,       \* notification types written for the sub-order
    stock,          \* products.stock
    carrier,        \* the modes whose type is SHIPPING_FLAT_RATE
    tx,             \* the open transaction of each session
    restocks,       \* history: committed cancellations of each order
    overwritten,    \* history: sub-orders written over a status nobody read
    retyped         \* history: open PATCHes past the gate when the mode of
                    \* their sub-order became one that ships

committed == <<status, tracking, notified, stock, carrier, restocks, overwritten,
               retyped>>
vars == <<committed, tx>>

-----------------------------------------------------------------------------
Status == {"pending", "preparing", "sent", "delivered", "cancelled"}
NoticeType == {"SUBORDER_STATUS_CHANGED", "TRACKING_ASSIGNED"}

AllowedTransitions ==
    [st \in Status |-> CASE st = "pending"   -> {"preparing", "cancelled"}
                         [] st = "preparing" -> {"sent", "cancelled"}
                         [] st = "sent"      -> {"delivered"}
                         [] OTHER            -> {}]

IdleTx == [phase |-> "idle"]

\* left: lines still to restock; unclaimed: rows the UPDATE has yet to visit.
CancelTx == [phase: {"restock", "claim"}, order: Order, left: SUBSET Line,
             unclaimed: SUBSET SubOrder, claimed: SUBSET SubOrder]

TransitionTx == [phase: {"gate", "update", "commit"}, sub: SubOrder, target: Status,
                 number: TrackingNumber \cup {NoTracking}, seen: Status]

TypeOK ==
    /\ status \in [SubOrder -> Status]
    /\ tracking \in [SubOrder -> TrackingNumber \cup {NoTracking}]
    /\ notified \in [SubOrder -> SUBSET NoticeType]
    /\ stock \in [Product -> Nat]
    /\ carrier \subseteq Mode
    /\ tx \in [Session -> {IdleTx} \cup CancelTx \cup TransitionTx]
    /\ restocks \in [Order -> Nat]
    /\ overwritten \subseteq SubOrder
    /\ retyped \subseteq Session

Init ==
    /\ status = [s \in SubOrder |-> "pending"]
    /\ tracking = [s \in SubOrder |-> NoTracking]
    /\ notified = [s \in SubOrder |-> {}]
    /\ stock = InitialStock
    /\ carrier \in SUBSET Retypable
    /\ tx = [c \in Session |-> IdleTx]
    /\ restocks = [o \in Order |-> 0]
    /\ overwritten = {}
    /\ retyped = {}

\* deriveOrderStatus, the only authority on the status of an order.
OrderStatus(o) ==
    LET all(st) == \A s \in SubOrdersOf(o) : status[s] = st
    IN  CASE all("pending")   -> "PENDING"
          [] all("delivered") -> "FULFILLED"
          [] all("cancelled") -> "CANCELLED"
          [] OTHER            -> "PARTIAL"

\* What findAll of sub-orders lists under a status filter.
Listed(st) == {s \in SubOrder : status[s] = st}

\* What getRevenue and getOrderCount count.
Earning == Listed("sent") \cup Listed("delivered")
Counted == SubOrder \ Listed("cancelled")

-----------------------------------------------------------------------------
(* Row locks: what the statements of an open transaction have written.     *)

Phase(c) == tx[c].phase

ProductsHeld(c) ==
    IF Phase(c) \in {"restock", "claim"}
    THEN {ProductOf[l] : l \in LinesOf(tx[c].order) \ tx[c].left}
    ELSE {}

RowsHeld(c) ==
    CASE Phase(c) = "claim"  -> tx[c].claimed
      [] Phase(c) = "commit" -> {tx[c].sub}
      [] OTHER               -> {}

ProductFree(c, p) == \A d \in Session \ {c} : p \notin ProductsHeld(d)
RowFree(c, s) == \A d \in Session \ {c} : s \notin RowsHeld(d)

-----------------------------------------------------------------------------
(* cancelOrder *)

\* Mutation: the sub-orders are claimed before the lines are restocked.
BeginClaiming(c, o) ==
    /\ Phase(c) = "idle"
    /\ OrderStatus(o) = "PENDING"
    /\ tx' = [tx EXCEPT ![c] =
                [phase |-> "claim", order |-> o, left |-> LinesOf(o),
                 unclaimed |-> SubOrdersOf(o), claimed |-> {}]]
    /\ UNCHANGED committed

\* Steps 1 and 2: the read, and the pre-check on the derived status.
BeginCancel(c, o) ==
    /\ Phase(c) = "idle"
    /\ OrderStatus(o) = "PENDING"
    /\ tx' = [tx EXCEPT ![c] =
                [phase |-> "restock", order |-> o, left |-> LinesOf(o),
                 unclaimed |-> SubOrdersOf(o), claimed |-> {}]]
    /\ UNCHANGED committed

\* Step 3: one UPDATE per line, in the order the read returned them (any).
RestockLine(c, l) ==
    /\ Phase(c) = "restock"
    /\ l \in tx[c].left
    /\ ProductFree(c, ProductOf[l])
    /\ tx' = [tx EXCEPT ![c].left = @ \ {l},
                        ![c].phase = IF tx[c].left = {l} THEN "claim"
                                                         ELSE "restock"]
    /\ UNCHANGED committed

\* The WHERE clause of step 4; the mutation claims whatever row the order has.
ClaimAnything(s) == TRUE
Claimable(s) == status[s] = "pending"

\* Step 4: updateMany locks its rows one by one and re-evaluates the WHERE
\* clause on the committed version of each.
ClaimRow(c, s) ==
    /\ Phase(c) = "claim"
    /\ s \in tx[c].unclaimed
    /\ RowFree(c, s)
    /\ tx' = [tx EXCEPT ![c].unclaimed = @ \ {s},
                        ![c].claimed = IF Claimable(s)
                                       THEN @ \cup {s} ELSE @]
    /\ UNCHANGED committed

\* The count guard; the mutation is satisfied with any claimed row.
SomeClaimed(c) == tx[c].claimed # {}
AllClaimed(c) == tx[c].claimed = SubOrdersOf(tx[c].order)

\* Mutation: the restock has the sign of checkout's decrement.
Decremented(o, p) == stock[p] - UnitsOf(o, p)
Restocked(o, p) == stock[p] + UnitsOf(o, p)

\* Every sub-order was claimed, and the transaction commits.
CommitCancel(c) ==
    LET o == tx[c].order
    IN  /\ Phase(c) = "claim"
        /\ tx[c].unclaimed = {}
        /\ AllClaimed(c)
        /\ status' = [s \in SubOrder |-> IF s \in tx[c].claimed
                                         THEN "cancelled" ELSE status[s]]
        /\ stock' = [p \in Product |-> Restocked(o, p)]
        /\ restocks' = [restocks EXCEPT ![o] = @ + 1]
        /\ tx' = [tx EXCEPT ![c] = IdleTx]
        /\ UNCHANGED <<tracking, notified, carrier, overwritten, retyped>>

\* Mutation: the restock of step 3 ran outside the transaction and stays.
RejectKeepsRestock(c) ==
    /\ Phase(c) = "claim"
    /\ tx[c].unclaimed = {}
    /\ ~AllClaimed(c)
    /\ stock' = [p \in Product |-> stock[p] + UnitsOf(tx[c].order, p)]
    /\ tx' = [tx EXCEPT ![c] = IdleTx]
    /\ UNCHANGED <<status, tracking, notified, carrier, restocks, overwritten,
                   retyped>>

\* The count guard fails: the throw rolls the restock back with the claim.
RejectCancel(c) ==
    /\ Phase(c) = "claim"
    /\ tx[c].unclaimed = {}
    /\ ~AllClaimed(c)
    /\ tx' = [tx EXCEPT ![c] = IdleTx]
    /\ UNCHANGED committed

-----------------------------------------------------------------------------
(* transition *)

\* Step 1, the SELECT of the row, with the checks of steps 2 to 4 that need
\* nothing else: rules (a) and (c), the no-op and the table.  A request they
\* refuse ends with nothing written, whatever the type of the mode.
BeginTransition(c, s, target, number) ==
    /\ Phase(c) = "idle"
    /\ number # NoTracking => /\ target = "sent" /\ status[s] # "sent"
                              /\ tracking[s] = NoTracking
    /\ status[s] # target
    /\ target \in AllowedTransitions[status[s]]
    /\ tx' = [tx EXCEPT ![c] =
                [phase |-> IF target = "sent" THEN "gate" ELSE "update",
                 sub |-> s, target |-> target, number |-> number,
                 seen |-> status[s]]]
    /\ UNCHANGED committed

\* Mutation of the gate: rule (d), tracking is mandatory for shipping, is lost.
GateWithoutRuleD(t) == t.number # NoTracking => ModeOf[t.sub] \in carrier

\* Rules (b) and (d), of which a request with another target than "sent" has
\* nothing to fear: by rule (a) it has no number.
TrackingGate(t) == t.number # NoTracking <=> ModeOf[t.sub] \in carrier

\* The SELECT of the mode the include asks for, a statement of its own, and
\* what depends on it.
PassGate(c) ==
    /\ Phase(c) = "gate"
    /\ TrackingGate(tx[c])
    /\ tx' = [tx EXCEPT ![c].phase = "update"]
    /\ UNCHANGED committed

RefuseTransition(c) ==
    /\ Phase(c) = "gate"
    /\ ~TrackingGate(tx[c])
    /\ tx' = [tx EXCEPT ![c] = IdleTx]
    /\ UNCHANGED committed

\* Step 5: UPDATE by id, with no condition on the status.
UpdateRow(c) ==
    /\ Phase(c) = "update"
    /\ RowFree(c, tx[c].sub)
    /\ tx' = [tx EXCEPT ![c].phase = "commit"]
    /\ UNCHANGED committed

\* Mutation of the next: a PATCH without a number writes null.
AlwaysRecorded(old, number) == number

\* `data` has the tracking number only when the body has it.
Recorded(old, number) == IF number # NoTracking THEN number ELSE old

\* Step 5a and the commit: the notifications are rows of the same transaction.
CommitTransition(c) ==
    LET t == tx[c]
    IN  /\ Phase(c) = "commit"
        /\ status' = [status EXCEPT ![t.sub] = t.target]
        /\ tracking' = [tracking EXCEPT ![t.sub] = Recorded(@, t.number)]
        /\ notified' = [notified EXCEPT ![t.sub] = @ \cup
                          IF t.number # NoTracking
                          THEN NoticeType ELSE {"SUBORDER_STATUS_CHANGED"}]
        /\ overwritten' = IF status[t.sub] = t.seen
                          THEN overwritten ELSE overwritten \cup {t.sub}
        /\ tx' = [tx EXCEPT ![c] = IdleTx]
        /\ retyped' = retyped \ {c}
        /\ UNCHANGED <<stock, carrier, restocks>>

-----------------------------------------------------------------------------
(* delivery-modes.update: it may change the type of a mode that has        *)
(* sub-orders, and the row it locks is none of theirs.                     *)

PastGate(c, m) == Phase(c) \in {"update", "commit"} /\ ModeOf[tx[c].sub] = m

StartShipping(m) ==
    /\ m \notin carrier
    /\ carrier' = carrier \cup {m}
    /\ retyped' = retyped \cup {c \in Session : PastGate(c, m)}
    /\ UNCHANGED <<status, tracking, notified, stock, tx, restocks, overwritten>>

StopShipping(m) ==
    /\ m \in carrier
    /\ carrier' = carrier \ {m}
    /\ UNCHANGED <<status, tracking, notified, stock, tx, restocks, overwritten,
                   retyped>>

-----------------------------------------------------------------------------
\* The transaction ends without effect: the server or the connection is
\* lost, Prisma's interactive-transaction timer (5 s) fires, or PostgreSQL
\* picks it as a deadlock victim.
Rollback(c) ==
    /\ Phase(c) # "idle"
    /\ tx' = [tx EXCEPT ![c] = IdleTx]
    /\ retyped' = retyped \ {c}
    /\ UNCHANGED <<status, tracking, notified, stock, carrier, restocks, overwritten>>

Begin(c) ==
    \/ \E o \in Order : BeginCancel(c, o)
    \/ \E s \in SubOrder, t \in Status, n \in TrackingNumber \cup {NoTracking} :
          BeginTransition(c, s, t, n)

Step(c) ==
    \/ \E l \in Line : RestockLine(c, l)
    \/ \E s \in SubOrder : ClaimRow(c, s)
    \/ CommitCancel(c)
    \/ RejectCancel(c)
    \/ PassGate(c)
    \/ RefuseTransition(c)
    \/ UpdateRow(c)
    \/ CommitTransition(c)

Next ==
    \/ \E c \in Session : Begin(c) \/ Step(c) \/ Rollback(c)
    \/ \E m \in Retypable : StartShipping(m) \/ StopShipping(m)

Spec == Init /\ [][Next]_vars

\* PostgreSQL serves lock waiters in arrival order, so a statement that can
\* run again and again is not passed over for ever.  No request has to arrive,
\* and nothing is assumed of timers or of the deadlock detector.
Fairness == \A c \in Session : SF_vars(Step(c))

FairSpec == Spec /\ Fairness

-----------------------------------------------------------------------------
(* Safety *)

\* However many cancellations of an order race with each other and with its
\* producers, its units go back to stock at most once (cancelOrder, steps 3-4).
RestockAtMostOnce == \A o \in Order : restocks[o] <= 1

\* The stock is what checkout left plus the units of the orders whose
\* cancellation committed: no rolled-back or partial cancellation leaks units
\* (restockProduct runs on the transaction of cancelOrder).
StockConserved ==
    \A p \in Product :
        stock[p] = InitialStock[p] +
            SumFunction([o \in Order |-> restocks[o] * UnitsOf(o, p)])

\* Once the consumer took the order back its sub-orders stay cancelled, and out
\* of the statistics, but for those a producer's PATCH wrote over from a status
\* read earlier: that race, which cancelOrder's comment accepts, is the only one.
CancelledOrderStaysCancelled ==
    \A o \in Order, s \in SubOrder :
        restocks[o] > 0 /\ OrderOf[s] = o
            => s \notin Counted \/ s \in overwritten

\* A cancellation takes all sub-orders of the order or none, and never one
\* that a producer had already started when it commits.
CancelSparesStartedOrders ==
    [][\A o \in Order : restocks'[o] # restocks[o] =>
          \A s \in SubOrdersOf(o) : /\ status[s] = "pending"
                                    /\ status'[s] = "cancelled"]_vars

\* A sub-order comes to be sent by a mode that ships only with a tracking
\* number (transition, rule D), whatever PATCH it overlaps with, unless the
\* mode came to ship after the PATCH that sends it was past the gate.
SentCarriesTracking ==
    [][\A s \in Listed("sent")' \ Listed("sent") :
          ModeOf[s] \in carrier =>
             \/ tracking'[s] # NoTracking
             \/ \E c \in retyped : tx[c].sub = s]_vars

\* Rule D, "Immutability", in what survives concurrency: a tracking number is
\* never lost, and only a PATCH that read the sub-order before it was there
\* replaces it by another.  Nor is revenue taken back by any other.
ShipmentsKept ==
    [][\A s \in SubOrder :
          /\ tracking[s] # NoTracking =>
                \/ tracking'[s] = tracking[s]
                \/ tracking'[s] # NoTracking /\ s \in overwritten'
          /\ s \in Earning => s \in Earning' \cup overwritten']_vars

(* Liveness *)

\* c waits for a product row that d has restocked, with nothing else to do.
WaitsForStock(c, d) ==
    /\ Phase(c) = "restock"
    /\ \A l \in tx[c].left : ~ProductFree(c, ProductOf[l])
    /\ \E l \in tx[c].left : ProductOf[l] \in ProductsHeld(d)

\* Cancellations that wait for each other's lines (cancelOrder, step 3).
RestockDeadlock ==
    \E c \in Session :
        TransitiveClosure([a, b \in Session |-> a # b /\ WaitsForStock(a, b)],
                          Session)[c, c]

\* Every request ends by itself, without a timer or a deadlock victim, but for
\* cancellations that wait for each other's lines: restocking all lines before
\* the first claim keeps the sub-order rows out of every wait cycle.
RequestsFinish ==
    \A c \in Session :
        /\ Phase(c) \in {"claim", "gate", "update", "commit"} ~> Phase(c) = "idle"
        /\ Phase(c) = "restock" ~> Phase(c) # "restock" \/ RestockDeadlock
=============================================================================
