------------------------ MODULE MCPaymentSettlement ------------------------
(* Finite instances of PaymentSettlement: every captured rule grants Amount *)
(* points, and all of them pay into the same bucket.                        *)
EXTENDS PaymentSettlement

CONSTANT Amount

MCGranted == [g \in Grants |-> Amount]
MCBucket == [g \in Grants |-> "shared"]
=============================================================================
