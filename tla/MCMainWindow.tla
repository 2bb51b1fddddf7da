---------------------------- MODULE MCMainWindow ----------------------------
(* MainWindow for TLC: the bounds are given in the configurations. *)
EXTENDS MainWindow
=============================================================================
