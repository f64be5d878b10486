--------------------------- MODULE MCPaymentCore ---------------------------
(* Values of the functional constants of PaymentCore for the TLC runs.       *)
EXTENDS PaymentCore

AllPix == [r \in Requests |-> "PIX"]
AllCard == [r \in Requests |-> "CREDIT_CARD"]
NoKeys == [r \in Requests |-> NoKey]
SameKey == [r \in Requests |-> CHOOSE k \in Keys : TRUE]
SameItems == [r \in Requests |-> IF r \in Batch THEN Installments ELSE {}]

=============================================================================
