------------------------------ MODULE MCSupport ------------------------------
(* Two administrators, two sessions, two buyers, one of them with a        *)
(* sub-order.                                                              *)
EXTENDS Support, TLC

CONSTANTS c1, c2, a1, a2, b1, b2, s1

BuyerOfOne == s1 :> b1

SessionSymmetry == Permutations(Session) \cup Permutations(Admin)
=============================================================================
