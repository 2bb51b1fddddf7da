--------------------------- MODULE MCPjeProfile ---------------------------
(* PjeProfile for TLC: its inputs are finite as they are. *)
EXTENDS PjeProfile
=============================================================================
