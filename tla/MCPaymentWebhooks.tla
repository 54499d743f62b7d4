------------------------- MODULE MCPaymentWebhooks -------------------------
(* Runs "replays" and "charge_*": one consumer u1 pays two intents for the *)
(* same cart, sold by u2: one item, and another row it may add later.      *)
(* Run "contention": consumers u1 and u3 each pay for the last unit of the *)
(* product of u2.                                                          *)
EXTENDS PaymentWebhooks, TLC

CONSTANTS c1, c2, i1, i2, u1, u2, u3, r1, p1, a1, a2

OneBuyerOf == i1 :> u1 @@ i2 :> u1
OneCartOf == a1 :> u1 @@ a2 :> u1
OneProductOf == a1 :> p1 @@ a2 :> p1

TwoBuyerOf == i1 :> u1 @@ i2 :> u3
TwoCartOf == a1 :> u1 @@ a2 :> u3
TwoProductOf == a1 :> p1 @@ a2 :> p1

EveryProducerOf == p1 :> r1
EveryOwnerOf == r1 :> u2

OnePrice == a1 :> 2 @@ a2 :> 2
TwoPrice == a1 :> 2 @@ a2 :> 2
OneCart == a1 :> 1 @@ a2 :> 0
TwoCart == a1 :> 1 @@ a2 :> 1
Stock2 == p1 :> 2
Stock1 == p1 :> 1
Cost0 == r1 :> 0

SessionSymmetry == Permutations(Session)
=============================================================================
