---------------------------- MODULE MCStorefront ----------------------------
(* One product, one delivery mode, one buyer with one order, two sessions. *)
EXTENDS Storefront, TLC

CONSTANTS c1, c2, p1, f1, m1, s1, s2, g1, b1, o1, k1, k2

Owner == p1 :> f1
OwnerOfMode == m1 :> f1

\* A PATCH that withdraws, one that republishes and one that counts again.
SomeProductPatches ==
    {[isActive |-> FALSE, stock |-> Keep], [isActive |-> TRUE, stock |-> Keep],
     [isActive |-> Keep, stock |-> 1]}

\* To shipping with a carrier, to pickup, of no configuration, off.
SomeModePatches ==
    {[type |-> "SHIPPING_FLAT_RATE", place |-> Keep, carrier |-> TRUE, isActive |-> Keep],
     [type |-> "PICKUP", place |-> TRUE, carrier |-> Keep, isActive |-> Keep],
     [type |-> Keep, place |-> Keep, carrier |-> Keep, isActive |-> Keep],
     [type |-> Keep, place |-> FALSE, carrier |-> Keep, isActive |-> FALSE]}

MCSymmetry == Permutations(Session) \cup Permutations(Key) \cup Permutations(Speciality)
=============================================================================
