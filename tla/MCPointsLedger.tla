--------------------------- MODULE MCPointsLedger ---------------------------
(* Two buckets, one app that covers both, and two rows that may share them.  *)
EXTENDS PointsLedger

MCCovered == [a \in Apps |-> Buckets]
MCShares == {<<1, 2>>, <<1, 1>>}
=============================================================================
