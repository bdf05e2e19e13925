--------------------------- MODULE MCTopupRefund ---------------------------
(* Finite instances of TopupRefund.  The payment has three units, returned  *)
(* in two parts that complete it or do not, and the two rows one and four   *)
(* points, so that the shares do not divide evenly.                         *)
EXTENDS TopupRefund, TLC

CONSTANTS Row1, Row2, Part1, Part2

MCGranted == (Row1 :> 1) @@ (Row2 :> 4)
TwoParts == {(Part1 :> 1) @@ (Part2 :> n) : n \in {1, 2}}
Whole == {[r \in Refunds |-> Original]}
=============================================================================
