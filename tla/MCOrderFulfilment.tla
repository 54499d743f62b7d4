------------------------- MODULE MCOrderFulfilment -------------------------
(* One order of two sub-orders, each with a delivery mode and a line of a  *)
(* product: two cancellations of the order can lock the products in        *)
(* opposite orders.                                                        *)
EXTENDS OrderFulfilment, TLC

CONSTANTS c1, c2, o1, s1, s2, m1, m2, l1, l2, p1, p2, t1, t2

OrderOfSubOrder == s1 :> o1 @@ s2 :> o1
ModeOfSubOrder == s1 :> m1 @@ s2 :> m2
SubOrderOfLine == l1 :> s1 @@ l2 :> s2
ProductOfLine == l1 :> p1 @@ l2 :> p2
QuantityOfLine == l1 :> 1 @@ l2 :> 2
StockLeft == p1 :> 0 @@ p2 :> 1
=============================================================================
