---------------------- MODULE OrderFulfilment_proofs ----------------------
(* Theorems about OrderFulfilment, for every number of sessions, orders,   *)
(* sub-orders, lines and products.                                         *)
EXTENDS OrderFulfilment, Sums, TLAPS

\* The units an order holds of a product: a finite sum of quantities.
LEMMA UnitsType == \A o \in Order, p \in Product : UnitsOf(o, p) \in Nat
  <1> SUFFICES ASSUME NEW o \in Order, NEW p \in Product
               PROVE  UnitsOf(o, p) \in Nat
    OBVIOUS
  <1> DEFINE lines == {l \in LinesOf(o) : ProductOf[l] = p}
  <1>1. lines \subseteq Line
    BY DEF LinesOf
  <1>2. IsFiniteSet(lines)
    BY <1>1, DataAssumption, FS_Subset
  <1>3. \A l \in lines : Quantity[l] \in Nat
    BY <1>1, DataAssumption
  <1>4. SumFunctionOnSet(Quantity, lines) \in Nat
    <2> HIDE DEF lines
    <2> QED
      BY <1>2, <1>3, SumNat
  <1> QED
    BY <1>4 DEF UnitsOf

\* The kind of an open transaction follows from its phase.
LEMMA TxKind ==
    ASSUME TypeOK, NEW c \in Session
    PROVE  /\ Phase(c) \in {"restock", "claim"} => tx[c] \in CancelTx
           /\ Phase(c) \in {"gate", "update", "commit"} => tx[c] \in TransitionTx
           /\ Phase(c) \in {"idle", "restock", "claim", "gate", "update", "commit"}
  BY DEF TypeOK, Phase, IdleTx, CancelTx, TransitionTx

-----------------------------------------------------------------------------
(* Type correctness *)

LEMMA InitType == Init => TypeOK
  BY DataAssumption DEF Init, TypeOK, Status, committed

\* Every step of a session preserves the type invariant.
LEMMA StepType == TypeOK /\ [Next]_vars => TypeOK'
  <1> SUFFICES ASSUME TypeOK, [Next]_vars PROVE TypeOK'
    OBVIOUS
  <1> USE DataAssumption
  <1>1. ASSUME NEW c \in Session, NEW o \in Order, BeginCancel(c, o)
        PROVE  TypeOK'
    <2>1. LinesOf(o) \subseteq Line /\ SubOrdersOf(o) \subseteq SubOrder
      BY DEF LinesOf, SubOrdersOf
    <2>2. [phase |-> "restock", order |-> o, left |-> LinesOf(o),
           unclaimed |-> SubOrdersOf(o), claimed |-> {}] \in CancelTx
      BY <2>1 DEF CancelTx
    <2> QED
      BY <1>1, <2>2 DEF committed, BeginCancel, TypeOK
  <1>2. ASSUME NEW c \in Session, NEW l \in Line, RestockLine(c, l)
        PROVE  TypeOK'
    <2>1. tx[c] \in CancelTx
      BY <1>2, TxKind DEF committed, RestockLine
    <2>2. tx'[c] \in CancelTx
      BY <1>2, <2>1 DEF committed, RestockLine, TypeOK, CancelTx
    <2> QED
      BY <1>2, <2>2 DEF committed, RestockLine, TypeOK
  <1>3. ASSUME NEW c \in Session, NEW s \in SubOrder, ClaimRow(c, s)
        PROVE  TypeOK'
    <2>1. tx[c] \in CancelTx
      BY <1>3, TxKind DEF committed, ClaimRow
    <2>2. tx'[c] \in CancelTx
      BY <1>3, <2>1 DEF committed, ClaimRow, TypeOK, CancelTx
    <2> QED
      BY <1>3, <2>2 DEF committed, ClaimRow, TypeOK
  <1>4. ASSUME NEW c \in Session, CommitCancel(c)
        PROVE  TypeOK'
    <2>1. tx[c].order \in Order
      BY <1>4, TxKind DEF CommitCancel, CancelTx
    <2>2. \A p \in Product : UnitsOf(tx[c].order, p) \in Nat
      BY <2>1, UnitsType
    <2>3. stock' \in [Product -> Nat]
      BY <1>4, <2>2 DEF CommitCancel, Restocked, TypeOK
    <2>4. status' \in [SubOrder -> Status] /\ restocks' \in [Order -> Nat]
      BY <1>4, <2>1 DEF CommitCancel, TypeOK, Status
    <2> QED
      BY <1>4, <2>3, <2>4 DEF CommitCancel, TypeOK
  <1>5. ASSUME NEW c \in Session, RejectCancel(c) PROVE TypeOK'
    BY <1>5 DEF committed, RejectCancel, TypeOK
  <1>6. ASSUME NEW c \in Session, NEW s \in SubOrder, NEW t \in Status,
               NEW n \in TrackingNumber \cup {NoTracking},
               BeginTransition(c, s, t, n)
        PROVE  TypeOK'
    <2>1. \A ph \in {"gate", "update"} :
             [phase |-> ph, sub |-> s, target |-> t, number |-> n,
              seen |-> status[s]] \in TransitionTx
      BY DEF TypeOK, TransitionTx
    <2> QED
      BY <1>6, <2>1 DEF committed, BeginTransition, TypeOK
  <1>7. ASSUME NEW c \in Session, UpdateRow(c) PROVE TypeOK'
    <2>1. tx[c] \in TransitionTx
      BY <1>7, TxKind DEF committed, UpdateRow
    <2>2. tx'[c] \in TransitionTx
      BY <1>7, <2>1 DEF committed, UpdateRow, TypeOK, TransitionTx
    <2> QED
      BY <1>7, <2>2 DEF committed, UpdateRow, TypeOK
  <1>8. ASSUME NEW c \in Session, CommitTransition(c) PROVE TypeOK'
    <2>1. tx[c] \in TransitionTx
      BY <1>8, TxKind DEF CommitTransition
    <2>2. status' \in [SubOrder -> Status]
      BY <1>8, <2>1 DEF CommitTransition, TypeOK, TransitionTx, Recorded
    <2>3. tracking' \in [SubOrder -> TrackingNumber \cup {NoTracking}]
      BY <1>8, <2>1 DEF CommitTransition, TypeOK, TransitionTx, Recorded
    <2>4. notified' \in [SubOrder -> SUBSET NoticeType]
      BY <1>8, <2>1 DEF CommitTransition, TypeOK, TransitionTx, NoticeType
    <2>5. overwritten' \subseteq SubOrder
      BY <1>8, <2>1 DEF CommitTransition, TypeOK, TransitionTx, Recorded
    <2> QED
      BY <1>8, <2>2, <2>3, <2>4, <2>5 DEF CommitTransition, TypeOK
  <1>9. ASSUME NEW c \in Session, Rollback(c) PROVE TypeOK'
    BY <1>9 DEF Rollback, TypeOK
  <1>10. ASSUME NEW c \in Session, PassGate(c) PROVE TypeOK'
    <2>1. tx[c] \in TransitionTx
      BY <1>10, TxKind DEF committed, PassGate
    <2>2. tx'[c] \in TransitionTx
      BY <1>10, <2>1 DEF committed, PassGate, TypeOK, TransitionTx
    <2> QED
      BY <1>10, <2>2 DEF committed, PassGate, TypeOK
  <1>11. ASSUME NEW c \in Session, RefuseTransition(c) PROVE TypeOK'
    BY <1>11 DEF committed, RefuseTransition, TypeOK
  <1>12. ASSUME NEW m \in Retypable, StartShipping(m) \/ StopShipping(m)
         PROVE  TypeOK'
    BY <1>12 DEF StartShipping, StopShipping, TypeOK
  <1>13. CASE UNCHANGED vars
    BY <1>13 DEF committed, vars, TypeOK
  <1> QED
    BY <1>1, <1>2, <1>3, <1>4, <1>5, <1>6, <1>7, <1>8, <1>9, <1>10,
       <1>11, <1>12, <1>13
       DEF Next, Begin, Step

\* The committed rows and the open transactions keep their types.
THEOREM TypeCorrect == Spec => []TypeOK
  BY InitType, StepType, PTL DEF Spec

-----------------------------------------------------------------------------
(* Cancellation: what an open transaction has claimed is still pending,    *)
(* because a claimed row is locked and a lock has one holder.              *)

LocksExclusive ==
    \A c, d \in Session : c # d => RowsHeld(c) \cap RowsHeld(d) = {}

ClaimsPending ==
    \A c \in Session :
        /\ Phase(c) = "restock" => tx[c].claimed = {}
        /\ Phase(c) = "claim" =>
              \A s \in tx[c].claimed : status[s] = "pending"

\* No step leads back to pending.
TargetsAllowed ==
    \A c \in Session : Phase(c) \in {"gate", "update", "commit"} =>
                          tx[c].target \in AllowedTransitions[tx[c].seen]

CancelledIsTaken ==
    \A o \in Order : restocks[o] > 0 =>
        \A s \in SubOrdersOf(o) :
            /\ status[s] # "pending"
            /\ status[s] = "cancelled" \/ s \in overwritten

CancelInv ==
    /\ TypeOK
    /\ LocksExclusive
    /\ ClaimsPending
    /\ TargetsAllowed
    /\ RestockAtMostOnce
    /\ CancelledIsTaken

\* A step that leaves the committed rows alone keeps what only speaks of them.
LEMMA CommittedRowsKept ==
    ASSUME CancelInv, UNCHANGED <<status, restocks, overwritten>>
    PROVE  RestockAtMostOnce' /\ CancelledIsTaken'
  BY DEF CancelInv, RestockAtMostOnce, CancelledIsTaken

\* Opening, refusing or rolling back a transaction takes no lock.
LEMMA FrameLocks ==
    ASSUME CancelInv, NEW c \in Session, NEW new,
           tx' = [tx EXCEPT ![c] = new], RowsHeld(c)' = {}
    PROVE  LocksExclusive'
  <1>1. \A d \in Session \ {c} : RowsHeld(d)' = RowsHeld(d)
    BY DEF RowsHeld, Phase, CancelInv, TypeOK
  <1> QED
    BY <1>1 DEF LocksExclusive, CancelInv

LEMMA InitCancelInv == Init => CancelInv
  <1> SUFFICES ASSUME Init PROVE CancelInv
    OBVIOUS
  <1>1. TypeOK
    BY InitType
  <1>2. \A c \in Session : Phase(c) = "idle" /\ RowsHeld(c) = {}
    BY DEF Init, Phase, RowsHeld, IdleTx
  <1> QED
    BY <1>1, <1>2 DEF Init, CancelInv, LocksExclusive, ClaimsPending,
       TargetsAllowed, RestockAtMostOnce, CancelledIsTaken

\* A committed cancellation found every sub-order of its order pending.
LEMMA CommitCancelFromPending ==
    ASSUME CancelInv, NEW c \in Session, CommitCancel(c)
    PROVE  /\ tx[c].order \in Order
           /\ \A s \in SubOrdersOf(tx[c].order) : /\ status[s] = "pending"
                                                 /\ status'[s] = "cancelled"
           /\ \A s \in SubOrder \ SubOrdersOf(tx[c].order) :
                 status'[s] = status[s]
           /\ restocks[tx[c].order] = 0
           /\ restocks' = [restocks EXCEPT ![tx[c].order] = 1]
  <1> DEFINE o == tx[c].order
  <1>1. o \in Order
    BY TxKind DEF CommitCancel, CancelTx, CancelInv
  <1>2. tx[c].claimed = SubOrdersOf(o) /\ SubOrdersOf(o) \subseteq SubOrder
    BY DEF CommitCancel, AllClaimed, SubOrdersOf
  <1>3. \A s \in SubOrdersOf(o) : status[s] = "pending" /\ status'[s] = "cancelled"
    BY <1>2 DEF CancelInv, ClaimsPending, CommitCancel
  <1>4. \A s \in SubOrder \ SubOrdersOf(o) : status'[s] = status[s]
    BY <1>2 DEF CommitCancel
  <1>5. PICK s \in SubOrdersOf(o) : TRUE
    BY <1>1, DataAssumption
  <1>6. restocks[o] = 0
    BY <1>1, <1>3, <1>5 DEF CancelInv, CancelledIsTaken, TypeOK
  <1>7. restocks' = [restocks EXCEPT ![o] = 1]
    BY <1>6 DEF CommitCancel
  <1> QED
    BY <1>1, <1>3, <1>4, <1>6, <1>7

\* A committed PATCH writes a status other than pending on its own row, and
\* writes over a cancelled row only from a status it read before.
LEMMA CommitTransitionWrites ==
    ASSUME CancelInv, NEW c \in Session, CommitTransition(c)
    PROVE  /\ tx[c].sub \in SubOrder
           /\ status' = [status EXCEPT ![tx[c].sub] = tx[c].target]
           /\ tx[c].target # "pending"
           /\ status[tx[c].sub] = "cancelled" => tx[c].sub \in overwritten'
           /\ overwritten \subseteq overwritten'
  <1>1. tx[c] \in TransitionTx
    BY TxKind DEF CommitTransition, CancelInv
  <1>2. tx[c].target \in AllowedTransitions[tx[c].seen] /\ tx[c].seen \in Status
    BY <1>1 DEF CancelInv, TargetsAllowed, CommitTransition, TransitionTx
  <1>3. tx[c].target # "pending" /\ tx[c].seen # "cancelled"
    BY <1>2 DEF AllowedTransitions, Status
  <1> QED
    BY <1>1, <1>3 DEF CommitTransition, TransitionTx

LEMMA StepCancelInv == CancelInv /\ [Next]_vars => CancelInv'
  <1> SUFFICES ASSUME CancelInv, [Next]_vars PROVE CancelInv'
    OBVIOUS
  <1>0. TypeOK /\ TypeOK'
    BY StepType DEF CancelInv
  <1> USE DEF CancelInv
  <1>1. ASSUME NEW c \in Session, NEW o \in Order, BeginCancel(c, o)
        PROVE  CancelInv'
    <2>1. LocksExclusive'
      BY <1>1, FrameLocks DEF committed, BeginCancel, RowsHeld, Phase, TypeOK
    <2>2. ClaimsPending' /\ TargetsAllowed'
      BY <1>1 DEF committed, BeginCancel, ClaimsPending, TargetsAllowed, Phase, TypeOK
    <2> QED
      BY <1>0, <1>1, <2>1, <2>2, CommittedRowsKept DEF committed, BeginCancel
  <1>2. ASSUME NEW c \in Session, NEW l \in Line, RestockLine(c, l)
        PROVE  CancelInv'
    <2>1. tx[c] \in CancelTx /\ tx[c].claimed = {}
      BY <1>2, TxKind DEF committed, RestockLine, ClaimsPending
    <2>2. /\ tx'[c].claimed = {}
          /\ Phase(c)' \in {"restock", "claim"}
          /\ \A d \in Session \ {c} : tx'[d] = tx[d]
      BY <1>2, <2>1 DEF committed, RestockLine, Phase, TypeOK, CancelTx
    <2>3. /\ RowsHeld(c)' = {}
          /\ \A d \in Session \ {c} : RowsHeld(d)' = RowsHeld(d)
      BY <2>2 DEF RowsHeld, Phase
    <2>4. LocksExclusive'
      BY <2>3 DEF LocksExclusive
    <2>5. ClaimsPending' /\ TargetsAllowed'
      BY <1>2, <2>2 DEF committed, RestockLine, ClaimsPending, TargetsAllowed, Phase
    <2> QED
      BY <1>0, <1>2, <2>4, <2>5, CommittedRowsKept DEF committed, RestockLine
  <1>3. ASSUME NEW c \in Session, NEW s \in SubOrder, ClaimRow(c, s)
        PROVE  CancelInv'
    <2>1. tx[c] \in CancelTx /\ Phase(c) = "claim"
      BY <1>3, TxKind DEF committed, ClaimRow
    <2>2. /\ Phase(c)' = "claim"
          /\ tx'[c].claimed = IF status[s] = "pending"
                              THEN tx[c].claimed \cup {s} ELSE tx[c].claimed
          /\ \A d \in Session \ {c} : tx'[d] = tx[d]
      BY <1>3, <2>1 DEF committed, ClaimRow, Claimable, Phase, TypeOK, CancelTx
    <2>3. /\ RowsHeld(c)' \subseteq RowsHeld(c) \cup {s}
          /\ \A d \in Session \ {c} : /\ RowsHeld(d)' = RowsHeld(d)
                                      /\ s \notin RowsHeld(d)
      BY <1>3, <2>1, <2>2 DEF committed, RowsHeld, Phase, RowFree, ClaimRow
    <2>4. LocksExclusive'
      BY <2>3 DEF LocksExclusive
    <2>5. status' = status
      BY <1>0, <1>3 DEF committed, ClaimRow, TypeOK
    <2>6. ClaimsPending' /\ TargetsAllowed'
      <3>1. \A d \in Session \ {c} : Phase(d)' = Phase(d)
        BY <2>2 DEF Phase
      <3>2. \A r \in tx'[c].claimed : status'[r] = "pending"
        BY <2>1, <2>2, <2>5 DEF ClaimsPending
      <3> QED
        BY <2>2, <2>5, <3>1, <3>2 DEF ClaimsPending, TargetsAllowed
    <2> QED
      BY <1>0, <1>3, <2>4, <2>6, CommittedRowsKept DEF committed, ClaimRow
  <1>4. ASSUME NEW c \in Session, CommitCancel(c)
        PROVE  CancelInv'
    <2>1. LocksExclusive'
      BY <1>4, FrameLocks DEF CommitCancel, RowsHeld, Phase, TypeOK, IdleTx
    <2>2. \A d \in Session \ {c} : tx'[d] = tx[d] /\ Phase(d)' = Phase(d)
      BY <1>4 DEF CommitCancel, Phase
    <2>3. tx'[c] = IdleTx /\ Phase(c)' = "idle"
      BY <1>4 DEF CommitCancel, Phase, TypeOK, IdleTx
    <2>4. TargetsAllowed'
      BY <2>2, <2>3 DEF TargetsAllowed
    <2>5. ASSUME NEW d \in Session \ {c}, Phase(d) = "claim",
                 NEW s \in tx[d].claimed
          PROVE  status'[s] = "pending"
      <3>1. s \in SubOrder /\ status[s] = "pending" /\ s \in RowsHeld(d)
        BY <2>5, TxKind DEF ClaimsPending, RowsHeld, CancelTx
      <3>2. s \notin RowsHeld(c) /\ RowsHeld(c) = tx[c].claimed
        BY <1>4, <3>1 DEF LocksExclusive, RowsHeld, CommitCancel
      <3> QED
        BY <1>4, <3>1, <3>2 DEF CommitCancel
    <2>6. ClaimsPending'
      BY <2>2, <2>3, <2>5 DEF ClaimsPending
    <2>7. RestockAtMostOnce'
      BY <1>4, CommitCancelFromPending DEF RestockAtMostOnce, TypeOK
    <2>8. CancelledIsTaken'
      <3> SUFFICES ASSUME NEW q \in Order, restocks'[q] > 0,
                          NEW s \in SubOrdersOf(q)
                   PROVE  /\ status'[s] # "pending"
                          /\ status'[s] = "cancelled" \/ s \in overwritten'
        BY DEF CancelledIsTaken, SubOrdersOf
      <3>1. CASE q = tx[c].order
        BY <1>4, <3>1, CommitCancelFromPending
      <3>2. CASE q # tx[c].order
        <4>1. s \in SubOrder \ SubOrdersOf(tx[c].order)
          BY <3>2 DEF SubOrdersOf
        <4>2. restocks[q] > 0 /\ status'[s] = status[s]
          BY <1>4, <3>2, <4>1, CommitCancelFromPending DEF TypeOK
        <4> QED
          BY <1>4, <4>2 DEF CancelledIsTaken, CommitCancel
      <3> QED
        BY <3>1, <3>2
    <2> QED
      BY <1>0, <2>1, <2>4, <2>6, <2>7, <2>8
  <1>5. ASSUME NEW c \in Session, RejectCancel(c) PROVE CancelInv'
    <2>1. LocksExclusive'
      BY <1>5, FrameLocks DEF committed, RejectCancel, RowsHeld, Phase, TypeOK, IdleTx
    <2>2. ClaimsPending' /\ TargetsAllowed'
      BY <1>5 DEF committed, RejectCancel, ClaimsPending, TargetsAllowed, Phase, TypeOK, IdleTx
    <2> QED
      BY <1>0, <1>5, <2>1, <2>2, CommittedRowsKept DEF committed, RejectCancel
  <1>6. ASSUME NEW c \in Session, NEW s \in SubOrder, NEW t \in Status,
               NEW n \in TrackingNumber \cup {NoTracking},
               BeginTransition(c, s, t, n)
        PROVE  CancelInv'
    <2>1. LocksExclusive'
      BY <1>6, FrameLocks DEF committed, BeginTransition, RowsHeld, Phase, TypeOK
    <2>2. ClaimsPending' /\ TargetsAllowed'
      BY <1>6 DEF committed, BeginTransition, ClaimsPending, TargetsAllowed, Phase, TypeOK
    <2> QED
      BY <1>0, <1>6, <2>1, <2>2, CommittedRowsKept DEF committed, BeginTransition
  <1>7. ASSUME NEW c \in Session, UpdateRow(c) PROVE CancelInv'
    <2>1. tx[c] \in TransitionTx /\ Phase(c) = "update"
      BY <1>7, TxKind DEF committed, UpdateRow
    <2>2. /\ Phase(c)' = "commit"
          /\ tx'[c].sub = tx[c].sub
          /\ tx'[c].target = tx[c].target /\ tx'[c].seen = tx[c].seen
          /\ \A d \in Session \ {c} : tx'[d] = tx[d]
      BY <1>7, <2>1 DEF committed, UpdateRow, Phase, TypeOK, TransitionTx
    <2>3. /\ RowsHeld(c)' = {tx[c].sub}
          /\ \A d \in Session \ {c} : /\ RowsHeld(d)' = RowsHeld(d)
                                      /\ tx[c].sub \notin RowsHeld(d)
      BY <1>7, <2>2 DEF committed, RowsHeld, Phase, RowFree, UpdateRow
    <2>4. LocksExclusive'
      BY <2>3 DEF LocksExclusive
    <2>5. ClaimsPending' /\ TargetsAllowed'
      BY <1>7, <2>1, <2>2 DEF committed, UpdateRow, ClaimsPending, TargetsAllowed, Phase
    <2> QED
      BY <1>0, <1>7, <2>4, <2>5, CommittedRowsKept DEF committed, UpdateRow
  <1>8. ASSUME NEW c \in Session, CommitTransition(c) PROVE CancelInv'
    <2>1. LocksExclusive'
      BY <1>8, FrameLocks DEF CommitTransition, RowsHeld, Phase, TypeOK, IdleTx
    <2>2. \A d \in Session \ {c} : tx'[d] = tx[d] /\ Phase(d)' = Phase(d)
      BY <1>8 DEF CommitTransition, Phase
    <2>3. tx'[c] = IdleTx /\ Phase(c)' = "idle"
      BY <1>8 DEF CommitTransition, Phase, TypeOK, IdleTx
    <2>4. TargetsAllowed'
      BY <2>2, <2>3 DEF TargetsAllowed
    <2>5. ASSUME NEW d \in Session \ {c}, Phase(d) = "claim",
                 NEW s \in tx[d].claimed
          PROVE  status'[s] = "pending"
      <3>1. s \in SubOrder /\ status[s] = "pending" /\ s \in RowsHeld(d)
        BY <2>5, TxKind DEF ClaimsPending, RowsHeld, CancelTx
      <3>2. s \notin RowsHeld(c) /\ RowsHeld(c) = {tx[c].sub}
        BY <1>8, <3>1 DEF LocksExclusive, RowsHeld, CommitTransition
      <3> QED
        BY <1>8, <3>1, <3>2, CommitTransitionWrites DEF TypeOK
    <2>6. ClaimsPending'
      BY <2>2, <2>3, <2>5 DEF ClaimsPending
    <2>7. RestockAtMostOnce'
      BY <1>8 DEF CommitTransition, RestockAtMostOnce
    <2>8. CancelledIsTaken'
      BY <1>8, CommitTransitionWrites
         DEF CancelledIsTaken, TypeOK, CommitTransition, SubOrdersOf
    <2> QED
      BY <1>0, <2>1, <2>4, <2>6, <2>7, <2>8
  <1>9. ASSUME NEW c \in Session, Rollback(c) PROVE CancelInv'
    <2>1. LocksExclusive'
      BY <1>9, FrameLocks DEF Rollback, RowsHeld, Phase, TypeOK, IdleTx
    <2>2. ClaimsPending' /\ TargetsAllowed'
      BY <1>9 DEF Rollback, ClaimsPending, TargetsAllowed, Phase, TypeOK, IdleTx
    <2> QED
      BY <1>0, <1>9, <2>1, <2>2, CommittedRowsKept DEF Rollback
  <1>10. ASSUME NEW c \in Session, PassGate(c) PROVE CancelInv'
    <2>1. tx[c] \in TransitionTx /\ Phase(c) = "gate"
      BY <1>10, TxKind DEF committed, PassGate
    <2>2. /\ Phase(c)' = "update"
          /\ tx'[c].target = tx[c].target /\ tx'[c].seen = tx[c].seen
          /\ \A d \in Session \ {c} : tx'[d] = tx[d]
      BY <1>10, <2>1 DEF committed, PassGate, Phase, TypeOK, TransitionTx
    <2>3. LocksExclusive'
      BY <2>2 DEF LocksExclusive, RowsHeld, Phase
    <2>4. ClaimsPending' /\ TargetsAllowed'
      BY <1>10, <2>1, <2>2 DEF committed, PassGate, ClaimsPending, TargetsAllowed, Phase
    <2> QED
      BY <1>0, <1>10, <2>3, <2>4, CommittedRowsKept DEF committed, PassGate
  <1>11. ASSUME NEW c \in Session, RefuseTransition(c) PROVE CancelInv'
    <2>1. LocksExclusive'
      BY <1>11, FrameLocks DEF committed, RefuseTransition, RowsHeld, Phase, TypeOK, IdleTx
    <2>2. ClaimsPending' /\ TargetsAllowed'
      BY <1>11 DEF committed, RefuseTransition, ClaimsPending, TargetsAllowed, Phase, TypeOK, IdleTx
    <2> QED
      BY <1>0, <1>11, <2>1, <2>2, CommittedRowsKept DEF committed, RefuseTransition
  <1>12. ASSUME NEW m \in Retypable, StartShipping(m) \/ StopShipping(m)
         PROVE  CancelInv'
    BY <1>0, <1>12 DEF StartShipping, StopShipping, LocksExclusive, RowsHeld, Phase,
       ClaimsPending, TargetsAllowed, RestockAtMostOnce, CancelledIsTaken
  <1>13. CASE UNCHANGED vars
    BY <1>0, <1>13 DEF committed, vars, LocksExclusive, RowsHeld, Phase, ClaimsPending,
       TargetsAllowed, RestockAtMostOnce, CancelledIsTaken
  <1> QED
    BY <1>1, <1>2, <1>3, <1>4, <1>5, <1>6, <1>7, <1>8, <1>9, <1>10,
       <1>11, <1>12, <1>13
       DEF Next, Begin, Step

LEMMA CancelInvariant == Spec => []CancelInv
  BY InitCancelInv, StepCancelInv, PTL DEF Spec

\* The units of an order return to stock at most once, whatever cancellations
\* and producer PATCHes race (cancelOrder's conditional claim and count guard).
THEOREM RestockedOnce == Spec => []RestockAtMostOnce
  BY CancelInvariant, PTL DEF CancelInv

\* A taken-back order stays cancelled but for stale writes of `transition`.
THEOREM CancelledStays == Spec => []CancelledOrderStaysCancelled
  <1>1. CancelInv => CancelledOrderStaysCancelled
    BY DEF CancelInv, CancelledIsTaken, CancelledOrderStaysCancelled, SubOrdersOf,
          Counted, Listed
  <1> QED
    BY <1>1, CancelInvariant, PTL

\* A cancellation commits on all sub-orders, each still pending, or on none.
THEOREM CancelSpares == Spec => CancelSparesStartedOrders
  <1> DEFINE Spared == \A o \in Order : restocks'[o] # restocks[o] =>
                          \A s \in SubOrdersOf(o) : /\ status[s] = "pending"
                                                    /\ status'[s] = "cancelled"
  <1>1. ASSUME CancelInv, [Next]_vars PROVE [Spared]_vars
    <2>1. ASSUME NEW c \in Session, CommitCancel(c) PROVE Spared
      BY <1>1, <2>1, CommitCancelFromPending DEF CancelInv, TypeOK
    <2>2. (\A c \in Session : ~CommitCancel(c)) => restocks' = restocks
      BY <1>1 DEF committed, Next, Begin, Step, BeginCancel, RestockLine, ClaimRow,
         RejectCancel, BeginTransition, PassGate, RefuseTransition, UpdateRow,
         CommitTransition, StartShipping, StopShipping, Rollback, vars
    <2> QED
      BY <2>1, <2>2
  <1> QED
    BY <1>1, CancelInvariant, PTL DEF Spec, CancelSparesStartedOrders

-----------------------------------------------------------------------------
(* Tracking: past the gate, a PATCH into `sent` by a mode that ships has a *)
(* number or has met a retyping.                                           *)

TrackingReady ==
    \A c \in Session :
        /\ Phase(c) \in {"update", "commit"}
        /\ tx[c].target = "sent"
        /\ ModeOf[tx[c].sub] \in carrier
        => tx[c].number # NoTracking \/ c \in retyped

\* A step that lets nobody past the gate, and retypes no mode.
LEMMA ReadyFrame ==
    ASSUME TrackingReady, NEW c \in Session,
           UNCHANGED carrier, retyped \ {c} \subseteq retyped',
           \A d \in Session \ {c} : tx'[d] = tx[d],
           Phase(c)' \notin {"update", "commit"} \/ tx'[c].target # "sent"
    PROVE  TrackingReady'
  BY DEF TrackingReady, Phase

LEMMA StepReady == TypeOK /\ TrackingReady /\ [Next]_vars => TrackingReady'
  <1> SUFFICES ASSUME TypeOK, TrackingReady, [Next]_vars PROVE TrackingReady'
    OBVIOUS
  <1>1. ASSUME NEW c \in Session, NEW o \in Order, BeginCancel(c, o)
        PROVE  TrackingReady'
    BY <1>1, ReadyFrame DEF BeginCancel, committed, Phase, TypeOK
  <1>2. ASSUME NEW c \in Session, NEW l \in Line, RestockLine(c, l)
        PROVE  TrackingReady'
    <2>1. tx[c] \in CancelTx
      BY <1>2, TxKind DEF committed, RestockLine
    <2>2. Phase(c)' \in {"restock", "claim"}
      BY <1>2, <2>1 DEF committed, RestockLine, Phase, TypeOK, CancelTx
    <2> QED
      BY <1>2, <2>2, ReadyFrame DEF RestockLine, committed, TypeOK
  <1>3. ASSUME NEW c \in Session, NEW s \in SubOrder, ClaimRow(c, s)
        PROVE  TrackingReady'
    <2>1. tx[c] \in CancelTx
      BY <1>3, TxKind DEF committed, ClaimRow
    <2>2. Phase(c)' = "claim"
      BY <1>3, <2>1 DEF committed, ClaimRow, Phase, TypeOK, CancelTx
    <2> QED
      BY <1>3, <2>2, ReadyFrame DEF ClaimRow, committed, TypeOK
  <1>4. ASSUME NEW c \in Session,
               CommitCancel(c) \/ RejectCancel(c) \/ RefuseTransition(c)
                 \/ CommitTransition(c) \/ Rollback(c)
        PROVE  TrackingReady'
    <2>1. Phase(c)' = "idle"
      BY <1>4 DEF committed, CommitCancel, RejectCancel, RefuseTransition, CommitTransition,
         Rollback, Phase, TypeOK, IdleTx
    <2>2. \A d \in Session \ {c} : tx'[d] = tx[d]
      BY <1>4 DEF committed, CommitCancel, RejectCancel, RefuseTransition, CommitTransition,
         Rollback, TypeOK
    <2>3. UNCHANGED carrier /\ retyped \ {c} \subseteq retyped'
      BY <1>4 DEF CommitCancel, RejectCancel, RefuseTransition, CommitTransition,
         Rollback, committed
    <2> QED
      BY <2>1, <2>2, <2>3, ReadyFrame
  <1>5. ASSUME NEW c \in Session, NEW s \in SubOrder, NEW t \in Status,
               NEW n \in TrackingNumber \cup {NoTracking},
               BeginTransition(c, s, t, n)
        PROVE  TrackingReady'
    BY <1>5, ReadyFrame DEF BeginTransition, committed, Phase, TypeOK
  <1>6. ASSUME NEW c \in Session, PassGate(c) PROVE TrackingReady'
    <2>1. tx[c] \in TransitionTx
      BY <1>6, TxKind DEF committed, PassGate
    <2>2. /\ tx'[c].sub = tx[c].sub /\ tx'[c].number = tx[c].number
          /\ \A d \in Session \ {c} : tx'[d] = tx[d]
      BY <1>6, <2>1 DEF committed, PassGate, TypeOK, TransitionTx
    <2> QED
      BY <1>6, <2>2 DEF PassGate, TrackingGate, committed, TrackingReady, Phase
  <1>7. ASSUME NEW c \in Session, UpdateRow(c) PROVE TrackingReady'
    <2>1. tx[c] \in TransitionTx /\ Phase(c) = "update"
      BY <1>7, TxKind DEF committed, UpdateRow
    <2>2. /\ tx'[c].sub = tx[c].sub /\ tx'[c].number = tx[c].number
          /\ tx'[c].target = tx[c].target
          /\ \A d \in Session \ {c} : tx'[d] = tx[d]
      BY <1>7, <2>1 DEF committed, UpdateRow, TypeOK, TransitionTx
    <2> QED
      BY <1>7, <2>1, <2>2 DEF UpdateRow, committed, TrackingReady, Phase
  <1>8. ASSUME NEW m \in Retypable, StartShipping(m) \/ StopShipping(m)
        PROVE  TrackingReady'
    BY <1>8 DEF StartShipping, StopShipping, PastGate, TrackingReady, Phase
  <1>9. CASE UNCHANGED vars
    BY <1>9 DEF vars, committed, TrackingReady, Phase
  <1> QED
    BY <1>1, <1>2, <1>3, <1>4, <1>5, <1>6, <1>7, <1>8, <1>9
       DEF Next, Begin, Step

\* Whatever PATCHes and retypings overlap, a sub-order comes to be sent by a
\* mode that ships only with a number, but for a mode that came to ship while
\* the PATCH was between the gate and its commit.
THEOREM SentTracked == Spec => SentCarriesTracking
  <1> DEFINE Tracked ==
        \A s \in Listed("sent")' \ Listed("sent") :
           ModeOf[s] \in carrier =>
              \/ tracking'[s] # NoTracking
              \/ \E c \in retyped : tx[c].sub = s
  <1>1. ASSUME TypeOK, TrackingReady, [Next]_vars PROVE [Tracked]_vars
    <2>1. ASSUME NEW c \in Session, CommitTransition(c) PROVE Tracked
      <3>1. tx[c] \in TransitionTx /\ Phase(c) = "commit"
        BY <1>1, <2>1, TxKind DEF CommitTransition
      <3> SUFFICES ASSUME NEW s \in Listed("sent")', s \notin Listed("sent"),
                          ModeOf[s] \in carrier
                   PROVE  \/ tracking'[s] # NoTracking
                          \/ \E d \in retyped : tx[d].sub = s
        OBVIOUS
      <3>2. s = tx[c].sub /\ tx[c].target = "sent"
        BY <1>1, <2>1 DEF CommitTransition, Listed, TypeOK
      <3>3. tx[c].number # NoTracking \/ c \in retyped
        BY <1>1, <3>1, <3>2 DEF TrackingReady
      <3>4. tx[c].number # NoTracking => tracking'[s] # NoTracking
        BY <1>1, <2>1, <3>2 DEF CommitTransition, Recorded, Listed, TypeOK
      <3> QED
        BY <3>2, <3>3, <3>4
    <2>2. ASSUME NEW c \in Session, CommitCancel(c) PROVE Tracked
      BY <1>1, <2>2 DEF CommitCancel, Listed, TypeOK
    <2>3. (\A c \in Session : ~CommitTransition(c) /\ ~CommitCancel(c))
              => UNCHANGED status
      BY <1>1 DEF Next, Begin, Step, BeginCancel, RestockLine, ClaimRow,
         RejectCancel, BeginTransition, PassGate, RefuseTransition, UpdateRow,
         StartShipping, StopShipping, Rollback, committed, vars
    <2>4. UNCHANGED status => Tracked
      BY DEF Listed
    <2> QED
      BY <2>1, <2>2, <2>3, <2>4
  <1>2. Init => TypeOK /\ TrackingReady
    BY InitType DEF Init, TrackingReady, Phase, IdleTx
  <1>3. TypeOK /\ TrackingReady /\ [Next]_vars => (TypeOK /\ TrackingReady)'
    BY StepType, StepReady
  <1> QED
    BY <1>1, <1>2, <1>3, PTL DEF Spec, SentCarriesTracking

-----------------------------------------------------------------------------
(* A sub-order with a number is sent or delivered, unless it was written   *)
(* over, so a PATCH that brings another one read it earlier.               *)

NumberedSends ==
    \A c \in Session :
        Phase(c) \in {"gate", "update", "commit"} /\ tx[c].number # NoTracking =>
            tx[c].target = "sent" /\ tx[c].seen = "preparing"

TrackedStarted ==
    \A s \in SubOrder : tracking[s] # NoTracking =>
        s \in overwritten \/ status[s] \in {"sent", "delivered"}

KeptInv == NumberedSends /\ TrackedStarted

\* A step that opens no PATCH and moves no sub-order that is under way.
LEMMA KeptFrame ==
    ASSUME KeptInv, NEW c \in Session, UNCHANGED <<tracking, overwritten>>,
           \A s \in SubOrder : status'[s] = status[s] \/ status[s] = "pending",
           \A d \in Session \ {c} : tx'[d] = tx[d],
           Phase(c)' \notin {"gate", "update", "commit"}
    PROVE  KeptInv'
  <1>1. \A d \in Session : Phase(d)' \in {"gate", "update", "commit"}
                             => tx'[d] = tx[d] /\ Phase(d)' = Phase(d)
    BY DEF Phase
  <1> QED
    BY <1>1 DEF KeptInv, NumberedSends, TrackedStarted

\* What a committed PATCH does to the number and the revenue of its sub-order.
LEMMA CommitKeeps ==
    ASSUME CancelInv, KeptInv, NEW c \in Session, CommitTransition(c)
    PROVE  /\ TrackedStarted'
           /\ \A s \in SubOrder : tracking[s] # NoTracking =>
                 \/ tracking'[s] = tracking[s]
                 \/ tracking'[s] # NoTracking /\ s \in overwritten'
           /\ \A s \in Earning : s \in Earning' \cup overwritten'
  <1> DEFINE t == tx[c]
  <1>1. t \in TransitionTx /\ t.phase = "commit" /\ TypeOK
    BY TxKind DEF CommitTransition, CancelInv, Phase
  <1>2. t.target \in AllowedTransitions[t.seen]
    BY <1>1 DEF CancelInv, TargetsAllowed, Phase
  <1>3. t.number # NoTracking => t.target = "sent" /\ t.seen = "preparing"
    BY <1>1 DEF KeptInv, NumberedSends, Phase
  <1>4. t.seen \in {"sent", "delivered"} => t.target = "delivered"
    BY <1>1, <1>2 DEF TransitionTx, AllowedTransitions, Status
  <1>5. /\ status' = [status EXCEPT ![t.sub] = t.target]
        /\ tracking' = [tracking EXCEPT ![t.sub] = Recorded(@, t.number)]
        /\ overwritten \subseteq overwritten'
        /\ t.sub \notin overwritten' => status[t.sub] = t.seen
    BY <1>1 DEF CommitTransition, TransitionTx
  <1>6. \A s \in SubOrder \ {t.sub} : tracking'[s] = tracking[s] /\ status'[s] = status[s]
    BY <1>1, <1>5 DEF TypeOK
  <1>7. /\ t.sub \in SubOrder
        /\ tracking'[t.sub] = IF t.number # NoTracking THEN t.number
                                                       ELSE tracking[t.sub]
        /\ status'[t.sub] = t.target
    BY <1>1, <1>5 DEF TypeOK, TransitionTx, Recorded
  <1>8. tracking[t.sub] # NoTracking =>
           \/ t.sub \in overwritten'
           \/ t.number = NoTracking /\ t.target = "delivered"
    BY <1>3, <1>4, <1>5, <1>7 DEF KeptInv, TrackedStarted
  <1>9. TrackedStarted'
    BY <1>3, <1>5, <1>6, <1>7, <1>8 DEF KeptInv, TrackedStarted
  <1>10. \A s \in Earning : s \in Earning' \cup overwritten'
    BY <1>4, <1>5, <1>6, <1>7 DEF Earning, Listed
  <1> QED
    BY <1>6, <1>7, <1>8, <1>9, <1>10

LEMMA StepKeptInv == CancelInv /\ KeptInv /\ [Next]_vars => KeptInv'
  <1> SUFFICES ASSUME CancelInv, KeptInv, [Next]_vars PROVE KeptInv'
    OBVIOUS
  <1>0. TypeOK
    BY DEF CancelInv
  <1>1. ASSUME NEW c \in Session, NEW o \in Order, BeginCancel(c, o)
        PROVE  KeptInv'
    BY <1>0, <1>1, KeptFrame DEF committed, BeginCancel, Phase, TypeOK
  <1>2. ASSUME NEW c \in Session, NEW l \in Line, RestockLine(c, l)
        PROVE  KeptInv'
    <2>1. tx[c] \in CancelTx
      BY <1>0, <1>2, TxKind DEF committed, RestockLine
    <2>2. Phase(c)' \in {"restock", "claim"}
      BY <1>0, <1>2, <2>1 DEF committed, RestockLine, Phase, TypeOK, CancelTx
    <2>3. \A d \in Session \ {c} : tx'[d] = tx[d]
      BY <1>0, <1>2 DEF committed, RestockLine, TypeOK
    <2> QED
      BY <1>2, <2>2, <2>3, KeptFrame DEF committed, RestockLine
  <1>3. ASSUME NEW c \in Session, NEW s \in SubOrder, ClaimRow(c, s)
        PROVE  KeptInv'
    <2>1. tx[c] \in CancelTx /\ Phase(c) = "claim"
      BY <1>0, <1>3, TxKind DEF committed, ClaimRow
    <2>2. Phase(c)' = "claim"
      BY <1>0, <1>3, <2>1 DEF committed, ClaimRow, Phase, TypeOK, CancelTx
    <2>3. \A d \in Session \ {c} : tx'[d] = tx[d]
      BY <1>0, <1>3 DEF committed, ClaimRow, TypeOK
    <2> QED
      BY <1>3, <2>2, <2>3, KeptFrame DEF committed, ClaimRow
  <1>4. ASSUME NEW c \in Session, CommitCancel(c) PROVE KeptInv'
    <2>1. \A s \in SubOrder : status'[s] = status[s] \/ status[s] = "pending"
      BY <1>4, CommitCancelFromPending
    <2> QED
      BY <1>0, <1>4, <2>1, KeptFrame DEF CommitCancel, Phase, TypeOK, IdleTx
  <1>5. ASSUME NEW c \in Session, RejectCancel(c) PROVE KeptInv'
    BY <1>0, <1>5, KeptFrame DEF committed, RejectCancel, Phase, TypeOK, IdleTx
  <1>6. ASSUME NEW c \in Session, NEW s \in SubOrder, NEW t \in Status,
               NEW n \in TrackingNumber \cup {NoTracking},
               BeginTransition(c, s, t, n)
        PROVE  KeptInv'
    <2>1. status[s] \in Status /\ t \in AllowedTransitions[status[s]]
      BY <1>0, <1>6 DEF committed, BeginTransition, TypeOK
    <2>2. n # NoTracking => t = "sent"
      BY <1>6 DEF committed, BeginTransition
    <2>3. t = "sent" => status[s] = "preparing"
      BY <2>1 DEF AllowedTransitions, Status
    <2> QED
      BY <1>0, <1>6, <2>2, <2>3
         DEF committed, BeginTransition, KeptInv, NumberedSends, TrackedStarted, Phase, TypeOK
  <1>7. ASSUME NEW c \in Session, UpdateRow(c) PROVE KeptInv'
    <2>1. tx[c] \in TransitionTx /\ Phase(c) = "update"
      BY <1>0, <1>7, TxKind DEF committed, UpdateRow
    <2>2. /\ tx'[c].seen = tx[c].seen
          /\ tx'[c].target = tx[c].target /\ tx'[c].number = tx[c].number
          /\ \A d \in Session \ {c} : tx'[d] = tx[d]
      BY <1>0, <1>7, <2>1 DEF committed, UpdateRow, TypeOK, TransitionTx
    <2>3. UNCHANGED <<status, tracking, overwritten>>
      BY <1>7 DEF committed, UpdateRow
    <2> QED
      BY <2>1, <2>2, <2>3 DEF KeptInv, NumberedSends, TrackedStarted, Phase
  <1>8. ASSUME NEW c \in Session, CommitTransition(c) PROVE KeptInv'
    <2>1. \A d \in Session : Phase(d)' \in {"gate", "update", "commit"}
                               => tx'[d] = tx[d] /\ Phase(d)' = Phase(d)
      BY <1>0, <1>8 DEF CommitTransition, Phase, TypeOK, IdleTx
    <2> QED
      BY <1>8, <2>1, CommitKeeps DEF KeptInv, NumberedSends
  <1>9. ASSUME NEW c \in Session, Rollback(c) PROVE KeptInv'
    BY <1>0, <1>9, KeptFrame DEF Rollback, Phase, TypeOK, IdleTx
  <1>10. ASSUME NEW c \in Session, PassGate(c) PROVE KeptInv'
    <2>1. tx[c] \in TransitionTx /\ Phase(c) = "gate"
      BY <1>0, <1>10, TxKind DEF committed, PassGate
    <2>2. /\ tx'[c].seen = tx[c].seen
          /\ tx'[c].target = tx[c].target /\ tx'[c].number = tx[c].number
          /\ \A d \in Session \ {c} : tx'[d] = tx[d]
      BY <1>0, <1>10, <2>1 DEF committed, PassGate, TypeOK, TransitionTx
    <2>3. UNCHANGED <<status, tracking, overwritten>>
      BY <1>10 DEF committed, PassGate
    <2> QED
      BY <2>1, <2>2, <2>3 DEF KeptInv, NumberedSends, TrackedStarted, Phase
  <1>11. ASSUME NEW c \in Session, RefuseTransition(c) PROVE KeptInv'
    BY <1>0, <1>11, KeptFrame DEF committed, RefuseTransition, Phase, TypeOK, IdleTx
  <1>12. ASSUME NEW m \in Retypable, StartShipping(m) \/ StopShipping(m)
         PROVE  KeptInv'
    BY <1>12 DEF StartShipping, StopShipping, KeptInv, NumberedSends, TrackedStarted,
       Phase
  <1>13. CASE UNCHANGED vars
    BY <1>13 DEF committed, vars, KeptInv, NumberedSends, TrackedStarted, Phase
  <1> QED
    BY <1>1, <1>2, <1>3, <1>4, <1>5, <1>6, <1>7, <1>8, <1>9, <1>10,
       <1>11, <1>12, <1>13
       DEF Next, Begin, Step

\* A tracking number is never lost, and changes only under a PATCH that read
\* the sub-order before the number was there; what earns revenue goes on to,
\* unless a PATCH that read it earlier writes over it.
THEOREM ShipmentsStand == Spec => ShipmentsKept
  <1> DEFINE Kept == \A s \in SubOrder :
                        /\ tracking[s] # NoTracking =>
                              \/ tracking'[s] = tracking[s]
                              \/ tracking'[s] # NoTracking /\ s \in overwritten'
                        /\ s \in Earning => s \in Earning' \cup overwritten'
  <1>1. ASSUME CancelInv, KeptInv, [Next]_vars PROVE [Kept]_vars
    <2>1. ASSUME NEW c \in Session, CommitTransition(c) PROVE Kept
      BY <1>1, <2>1, CommitKeeps
    <2>2. ASSUME NEW c \in Session, CommitCancel(c) PROVE Kept
      <3>1. \A s \in SubOrder : status'[s] = status[s] \/ status[s] = "pending"
        BY <1>1, <2>2, CommitCancelFromPending
      <3>2. tracking' = tracking
        BY <2>2 DEF CommitCancel
      <3> QED
        BY <3>1, <3>2 DEF Earning, Listed
    <2>3. (\A c \in Session : ~CommitTransition(c) /\ ~CommitCancel(c))
              => UNCHANGED <<status, tracking>>
      BY <1>1 DEF committed, Next, Begin, Step, BeginCancel, RestockLine, ClaimRow,
         RejectCancel, BeginTransition, PassGate, RefuseTransition, UpdateRow,
         StartShipping, StopShipping, Rollback, vars
    <2>4. UNCHANGED <<status, tracking>> => Kept
      BY DEF Earning, Listed
    <2> QED
      BY <2>1, <2>2, <2>3, <2>4
  <1>2. Init => KeptInv
    BY DEF Init, KeptInv, NumberedSends, TrackedStarted, Phase, IdleTx
  <1> QED
    BY <1>1, <1>2, CancelInvariant, StepKeptInv, PTL DEF Spec, ShipmentsKept

-----------------------------------------------------------------------------
(* Stock: only the commit of a cancellation moves it, by the units of one  *)
(* order, and the same commit counts the restock of that order.            *)

\* What the committed cancellations have returned of product p.
Returned(p) == [o \in Order |-> restocks[o] * UnitsOf(o, p)]

LEMMA ReturnedType ==
    ASSUME TypeOK, NEW p \in Product
    PROVE  \A o \in Order : Returned(p)[o] \in Int
  BY UnitsType DEF TypeOK, Returned

LEMMA InitConserved == Init => StockConserved
  <1> SUFFICES ASSUME Init, NEW p \in Product
               PROVE  InitialStock[p] =
                         InitialStock[p] + SumFunctionOnSet(Returned(p), Order)
    BY DEF Init, StockConserved, SumFunction, Returned
  <1> DEFINE zero == [o \in Order |-> 0]
  <1>1. Returned(p) = zero
    BY UnitsType DEF Init, Returned
  <1>2. SumFunctionOnSet(zero, Order) = 0
    <2>1. \A o \in Order : zero[o] = 0
      OBVIOUS
    <2> HIDE DEF zero
    <2> QED
      BY <2>1, DataAssumption, ZeroSum
  <1> QED
    BY <1>1, <1>2, DataAssumption

LEMMA StepConserved == TypeOK /\ StockConserved /\ [Next]_vars => StockConserved'
  <1> SUFFICES ASSUME TypeOK, StockConserved, [Next]_vars PROVE StockConserved'
    OBVIOUS
  <1>1. ASSUME NEW c \in Session, CommitCancel(c) PROVE StockConserved'
    <2> DEFINE o == tx[c].order
    <2>1. o \in Order
      BY <1>1, TxKind DEF CommitCancel, CancelTx
    <2> SUFFICES ASSUME NEW p \in Product
                 PROVE  stock'[p] = InitialStock[p] +
                           SumFunctionOnSet(Returned(p)', Order)
      BY DEF StockConserved, SumFunction, Returned
    <2>2. stock'[p] = stock[p] + UnitsOf(o, p)
      BY <1>1 DEF CommitCancel, Restocked
    <2>3. stock[p] = InitialStock[p] + SumFunctionOnSet(Returned(p), Order)
      BY DEF StockConserved, SumFunction, Returned
    <2>4. /\ \A q \in Order : Returned(p)[q] \in Int
          /\ \A q \in Order : Returned(p)'[q] \in Int
          /\ \A q \in Order \ {o} : Returned(p)'[q] = Returned(p)[q]
      <3>1. TypeOK'
        BY StepType
      <3>2. \A q \in Order : restocks'[q] \in Nat
        BY <3>1 DEF TypeOK
      <3> QED
        BY <1>1, <3>2, ReturnedType, UnitsType
           DEF CommitCancel, Returned, TypeOK
    <2>5. Returned(p)'[o] - Returned(p)[o] = UnitsOf(o, p)
      <3>1. restocks[o] \in Nat /\ UnitsOf(o, p) \in Nat
        BY <2>1, UnitsType DEF TypeOK
      <3>2. restocks'[o] = restocks[o] + 1
        BY <1>1, <2>1 DEF CommitCancel, TypeOK
      <3>3. \A r, u \in Nat : (r + 1) * u - r * u = u
        OBVIOUS
      <3> QED
        BY <2>1, <3>1, <3>2, <3>3 DEF Returned
    <2>6. SumFunctionOnSet(Returned(p)', Order) =
              SumFunctionOnSet(Returned(p), Order) + UnitsOf(o, p)
      BY <2>1, <2>4, <2>5, DataAssumption, SumChanged
    <2>7. SumFunctionOnSet(Returned(p), Order) \in Int
      BY <2>4, DataAssumption, SumInt
    <2> QED
      BY <2>1, <2>2, <2>3, <2>6, <2>7, UnitsType, DataAssumption
  <1>2. (\A c \in Session : ~CommitCancel(c)) => UNCHANGED <<stock, restocks>>
    BY DEF committed, Next, Begin, Step, BeginCancel, RestockLine, ClaimRow, RejectCancel,
       BeginTransition, PassGate, RefuseTransition, UpdateRow, CommitTransition,
       StartShipping, StopShipping, Rollback, vars
  <1> QED
    BY <1>1, <1>2 DEF StockConserved

\* No rolled-back or partial cancellation moves stock: it is what checkout left
\* plus the units of the orders taken back, for any set of orders and lines.
THEOREM StockIsConserved == Spec => []StockConserved
  <1>1. Init => TypeOK /\ StockConserved
    BY InitType, InitConserved
  <1>2. TypeOK /\ StockConserved /\ [Next]_vars => (TypeOK /\ StockConserved)'
    BY StepType, StepConserved
  <1> QED
    BY <1>1, <1>2, PTL DEF Spec
=============================================================================
