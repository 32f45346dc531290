--------------------------- MODULE MCTermination ---------------------------
(* Instances of Termination small enough for TLC. *)
EXTENDS Termination

CONSTANTS e1, e2, e3
=============================================================================
