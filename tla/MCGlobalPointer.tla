-------------------------- MODULE MCGlobalPointer --------------------------
(* Instances of GlobalPointer with few bits. *)
EXTENDS GlobalPointer

CONSTANTS u1, u2
=============================================================================
