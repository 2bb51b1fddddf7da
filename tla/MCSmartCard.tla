---------------------------- MODULE MCSmartCard ----------------------------
(* SmartCard for TLC: two readers. *)
EXTENDS SmartCard, TLC
CONSTANTS r1, r2
TwoReaders == {r1, r2}
=============================================================================
