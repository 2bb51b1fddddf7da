-------------------------- MODULE MCSearchControl --------------------------
(* SearchControl for TLC: the threads are model values. *)
EXTENDS SearchControl
CONSTANTS w1, c1, c2
OneWaiter  == {w1}
TwoCallers == {c1, c2}
=============================================================================
