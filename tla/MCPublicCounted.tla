-------------------------- MODULE MCPublicCounted --------------------------
(* An instance of PublicCounted small enough for TLC. *)
EXTENDS PublicCounted

CONSTANTS a1, h1, h2, h3, v0
=============================================================================
