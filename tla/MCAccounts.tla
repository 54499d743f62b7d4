----------------------------- MODULE MCAccounts -----------------------------
(* One user and two sessions; the sellers are in MCPaymentWebhooks.        *)
EXTENDS Accounts, TLC

CONSTANTS c1, c2, u1, n1

NoSeller == u1 :> {}

SessionSymmetry == Permutations(Session)
=============================================================================
