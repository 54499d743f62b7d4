--------------------------- MODULE PaymentLedger ---------------------------
(***************************************************************************)
(* What the payment webhooks promise of a payment record, whatever the     *)
(* number of servers, the order of Stripe's events and their repetitions:  *)
(* an order comes once, together with the SUCCEEDED record; SUCCEEDED and  *)
(* CANCELED records never change; and no order comes over a charge that is *)
(* set aside for manual review (PENDING), unless its record became FAILED. *)
(***************************************************************************)
CONSTANT Intent

VARIABLES
    record,         \* the payment record of each Stripe intent
    fulfilled       \* the intents an order was created for

vars == <<record, fulfilled>>

Closed == {"SUCCEEDED", "CANCELED"}
Noted == {"FAILED", "PENDING", "CANCELED"}

TypeOK ==
    /\ record \in [Intent -> {"none"} \cup Noted \cup Closed]
    /\ fulfilled \subseteq Intent

Init ==
    /\ record = [i \in Intent |-> "none"]
    /\ fulfilled = {}

\* An event that creates no order writes the record, unless it is closed.
Note(i, st) ==
    /\ record[i] \notin Closed
    /\ record' = [record EXCEPT ![i] = st]
    /\ UNCHANGED fulfilled

\* The succeeded event creates the record and the order in one transaction;
\* only a FAILED record may give way to it.
Fulfil(i) ==
    /\ record[i] \in {"none", "FAILED"}
    /\ record' = [record EXCEPT ![i] = "SUCCEEDED"]
    /\ fulfilled' = fulfilled \cup {i}

Next == \E i \in Intent : Fulfil(i) \/ \E st \in Noted : Note(i, st)

Spec == Init /\ [][Next]_vars

\* An intent has its order exactly when its record says SUCCEEDED.
FulfilledMeansSucceeded == fulfilled = {i \in Intent : record[i] = "SUCCEEDED"}
=============================================================================
